---------------------------- MODULE SessionsProofs ----------------------------
(***************************************************************************)
(* What the unique index on revoked_tokens.jti gives, for any number of    *)
(* handlers and for tokens of every kind: each is exchanged once, and the  *)
(* refresh tokens of one line are live one at a time.                      *)
(***************************************************************************)
EXTENDS Sessions, TLAPS

\* Tokens that handlers hold, lines and parents exist, and a token with a
\* successor was revoked by an exchange that is over.
LinesExist ==
    /\ \A i \in Issues : Answered(i) => line[i] \in Issues /\ Answered(line[i])
    /\ \A r \in Requests : ~ At(r, "idle") =>
          call[r].token \in Tokens /\ Issued(call[r].token)
    /\ \A i \in Issues : parent[i] # NoToken => Answered(i) /\ parent[i] \in revoked \ ended
    /\ \A r \in Requests, i \in Issues : At(r, "issue") => parent[i] # call[r].token

EndedAreIssued == ended \subseteq revoked /\ \A t \in ended : Issued(t)

SessionsInv ==
    /\ TypeOK
    /\ EndedAreIssued
    /\ LinesExist
    /\ ExchangeIsExclusive
    /\ OneLivePerLine
    /\ LogoutEndsTheLine
    /\ OneSuccessor

LEMMA TokenFacts ==
  /\ 0 \notin Issues
  /\ NoToken \notin Tokens
  /\ \A i \in Issues : Refresh(i) \in Tokens /\ Refresh(i).issue = i /\ Refresh(i).kind = "refresh"
  /\ \A t \in Tokens : t.issue \in Issues /\ t.kind \in Kinds
                       /\ (t.kind = "refresh" => t = Refresh(t.issue))
<1>1. 0 \notin Issues
  BY SessionAssumption DEF Issues
<1>2. NoToken \notin Tokens
  BY <1>1 DEF NoToken, Tokens, Kinds
<1>3. \A i \in Issues : Refresh(i) \in Tokens /\ Refresh(i).issue = i /\ Refresh(i).kind = "refresh"
  BY DEF Refresh, Tokens, Kinds
<1>4. \A t \in Tokens : t.issue \in Issues /\ t.kind \in Kinds
                        /\ (t.kind = "refresh" => t = Refresh(t.issue))
  BY DEF Refresh, Tokens
<1> QED
  BY <1>1, <1>2, <1>3, <1>4

LEMMA SessionsInit == Init => SessionsInv
<1> SUFFICES ASSUME Init PROVE SessionsInv
  OBVIOUS
<1>1. /\ \A i \in Issues : line[i] = 0 /\ parent[i] = NoToken
      /\ \A r \in Requests : call[r] = Idle
      /\ revoked = {} /\ ended = {}
  BY DEF Init
<1>2. TypeOK
  BY DEF Init, TypeOK, Idle, Local
<1>3. \A i \in Issues : ~ Issued(Refresh(i)) /\ ~ Live(Refresh(i))
  BY <1>1, TokenFacts DEF Issued, Live, Answered
<1>4. \A r \in Requests : At(r, "idle") /\ ~ At(r, "issue")
  BY <1>1, Idle.pc = "idle" DEF At, Idle
<1> QED
  BY <1>1, <1>2, <1>3, <1>4
  DEF SessionsInv, EndedAreIssued, LinesExist, ExchangeIsExclusive, OneLivePerLine,
      LogoutEndsTheLine, OneSuccessor, Answered

\* A handler that goes on to look a token up, or ends, changes no line.
LEMMA HandlersCome ==
  ASSUME SessionsInv, NEW r \in Requests, NEW local \in Local,
         local.pc \in {"idle", "revoke", "blocklist"},
         local.pc # "idle" => local.token \in Tokens /\ Issued(local.token),
         call' = [call EXCEPT ![r] = local],
         UNCHANGED <<line, parent, revoked, ended>>
  PROVE  SessionsInv'
<1> USE DEF SessionsInv
<1>1. /\ TypeOK'
      /\ \A t : Issued(t)' = Issued(t) /\ Live(t)' = Live(t)
      /\ \A i : Answered(i)' = Answered(i)
  BY DEF TypeOK, Issued, Live, Answered
<1>2. \A q \in Requests : At(q, "issue")' => At(q, "issue") /\ call'[q] = call[q]
  BY DEF TypeOK, At
<1>3. EndedAreIssued' /\ OneLivePerLine' /\ LogoutEndsTheLine' /\ OneSuccessor'
  BY <1>1 DEF EndedAreIssued, OneLivePerLine, LogoutEndsTheLine, OneSuccessor
<1>4. LinesExist'
  <2>1. \A q \in Requests : ~ At(q, "idle")' =>
           call'[q].token \in Tokens /\ Issued(call[q].token)'
    BY DEF TypeOK, At, LinesExist, Issued, Answered
  <2> QED
    BY <1>1, <1>2, <2>1 DEF LinesExist, Answered, At
<1>5. ExchangeIsExclusive'
  BY <1>1, <1>2 DEF ExchangeIsExclusive
<1> QED
  BY <1>1, <1>3, <1>4, <1>5

\* What an answer i of line l, given for p, leaves as it was.
Given(i, l, p) ==
    /\ line' \in [Issues -> Issues \cup {0}]
    /\ parent' \in [Issues -> Tokens \cup {NoToken}]
    /\ line'[i] = l /\ parent'[i] = p
    /\ \A j \in Issues : j # i => line'[j] = line[j] /\ parent'[j] = parent[j]
    /\ \A j \in Issues : Answered(j)' <=> Answered(j) \/ j = i
    /\ \A t \in Tokens : t.issue # i => Issued(t)' = Issued(t) /\ Live(t)' = Live(t)
    /\ \A t \in Tokens : Issued(t) => t.issue # i
    /\ EndedAreIssued'

LEMMA AnswerKeeps ==
  ASSUME SessionsInv, NEW i \in Issues, ~ Answered(i), NEW l \in Issues,
         NEW p \in Tokens \cup {NoToken},
         line' = [line EXCEPT ![i] = l], parent' = [parent EXCEPT ![i] = p],
         UNCHANGED <<revoked, ended>>
  PROVE  Given(i, l, p)
<1> USE TokenFacts DEF SessionsInv, TypeOK
<1>1. /\ line' \in [Issues -> Issues \cup {0}]
      /\ parent' \in [Issues -> Tokens \cup {NoToken}]
      /\ line'[i] = l /\ parent'[i] = p
      /\ \A j \in Issues : j # i => line'[j] = line[j] /\ parent'[j] = parent[j]
  OBVIOUS
<1>2. \A j \in Issues : Answered(j)' <=> Answered(j) \/ j = i
  BY <1>1 DEF Answered
<1>3. \A t \in Tokens : t.issue # i => Issued(t)' = Issued(t) /\ Live(t)' = Live(t)
  BY <1>1 DEF Issued, Live, Answered
<1>4. \A t \in Tokens : Issued(t) => t.issue # i
  BY DEF Issued
<1>5. EndedAreIssued'
  BY <1>3, <1>4 DEF EndedAreIssued
<1> QED
  BY <1>1, <1>2, <1>3, <1>4, <1>5 DEF Given

\* An answer that begins a line adds a refresh token that no other goes back to.
LEMMA NewLineKeeps ==
  ASSUME SessionsInv, NEW i \in Issues, ~ Answered(i), line' = [line EXCEPT ![i] = i]
  PROVE  \A j \in Issues : j # i => line[j] # i
  BY TokenFacts DEF SessionsInv, LinesExist, Answered

LEMMA SessionsStep == SessionsInv /\ [Next]_vars => SessionsInv'
<1> SUFFICES ASSUME SessionsInv, [Next]_vars PROVE SessionsInv'
  OBVIOUS
<1> USE TokenFacts DEF SessionsInv
<1>1. ASSUME NEW i \in Issues, OpenSession(i) PROVE SessionsInv'
  <2>1. /\ ~ Answered(i) /\ line' = [line EXCEPT ![i] = i]
        /\ UNCHANGED <<parent, revoked, call, ended>>
    BY <1>1 DEF OpenSession, NextAnswer
  <2>2. parent[i] = NoToken /\ parent' = [parent EXCEPT ![i] = NoToken]
    BY <2>1 DEF LinesExist, TypeOK
  <2>given. Given(i, i, NoToken)
    <3> HIDE DEF SessionsInv
    <3> QED
      BY <2>1, <2>2, AnswerKeeps
  <2>3. /\ line' \in [Issues -> Issues \cup {0}]
        /\ line'[i] = i
        /\ \A j \in Issues : j # i => line'[j] = line[j]
        /\ \A j \in Issues : Answered(j)' <=> Answered(j) \/ j = i
        /\ \A t \in Tokens : t.issue # i => Issued(t)' = Issued(t) /\ Live(t)' = Live(t)
        /\ \A t \in Tokens : Issued(t) => t.issue # i
        /\ EndedAreIssued'
    BY <2>given DEF Given
  <2>4. \A j \in Issues : j # i => line[j] # i
    BY <2>1, NewLineKeeps
  <2>5. TypeOK'
    BY <2>1, <2>3 DEF TypeOK
  <2>6. LinesExist'
    BY <2>1, <2>3 DEF LinesExist, TypeOK, At
  <2>7. \A r \in Requests : At(r, "issue") => call[r].token \in Tokens /\ call[r].token.issue \in Issues \ {i}
    BY <2>3 DEF LinesExist, At
  <2>8. ExchangeIsExclusive'
    <3>1. \A r \in Requests : At(r, "issue") =>
             call[r].token \in revoked \ ended /\ Issued(call[r].token)'
      BY <2>1, <2>3, <2>7 DEF ExchangeIsExclusive, Issued, Answered
    <3>2. \A r \in Requests, j \in Issues :
             At(r, "issue") /\ call[r].token.kind = "refresh" /\ line'[j] = line'[call[r].token.issue]
               => ~ Live(Refresh(j))' /\ Refresh(j) \notin ended
      BY <2>3, <2>4, <2>7 DEF ExchangeIsExclusive
    <3>3. \A q, r \in Requests :
             /\ At(q, "issue") /\ At(r, "issue")
             /\ \/ call[q].token = call[r].token
                \/ /\ call[q].token.kind = "refresh" /\ call[r].token.kind = "refresh"
                   /\ line'[call[q].token.issue] = line'[call[r].token.issue]
             => q = r
      BY <2>3, <2>7 DEF ExchangeIsExclusive
    <3> QED
      BY <2>1, <3>1, <3>2, <3>3 DEF ExchangeIsExclusive, At
  <2>9. OneLivePerLine'
    BY <2>3, <2>4 DEF OneLivePerLine
  <2>10. LogoutEndsTheLine'
    BY <2>1, <2>3, <2>4 DEF LogoutEndsTheLine, EndedAreIssued
  <2>11. OneSuccessor'
    BY <2>1 DEF OneSuccessor
  <2> QED
    BY <2>3, <2>5, <2>6, <2>8, <2>9, <2>10, <2>11
<1>2. ASSUME NEW r \in Requests, NEW t \in Tokens, StartRefresh(r, t)
      PROVE  SessionsInv'
  <2> DEFINE local == [pc |-> "revoke", token |-> t]
  <2>1. /\ local \in Local /\ Issued(t)
        /\ call' = [call EXCEPT ![r] = local] /\ UNCHANGED <<line, parent, revoked, ended>>
    BY <1>2 DEF StartRefresh, Go, Live, Local
  <2> QED
    BY <2>1, HandlersCome
<1>3. ASSUME NEW r \in Requests, NEW i \in Issues, IssueTokens(r, i)
      PROVE  SessionsInv'
  <2> DEFINE old == call[r].token
             l == IF old.kind = "refresh" THEN line[old.issue] ELSE i
  <2>1. /\ At(r, "issue") /\ ~ Answered(i)
        /\ line' = [line EXCEPT ![i] = l] /\ parent' = [parent EXCEPT ![i] = old]
        /\ call' = [call EXCEPT ![r] = Idle]
        /\ UNCHANGED <<revoked, ended>>
    BY <1>3 DEF IssueTokens, NextAnswer, Finish
  <2>2. /\ old \in Tokens /\ old \in revoked \ ended /\ Issued(old)
        /\ \A j \in Issues : parent[j] # old
    BY <2>1 DEF LinesExist, ExchangeIsExclusive, At
  <2>3. old.issue \in Issues /\ Answered(old.issue) /\ line[old.issue] \in Issues /\ old.issue # i
    BY <2>1, <2>2 DEF Issued, LinesExist
  <2>4. l \in Issues
    BY <2>3
  <2>given. Given(i, l, old)
    <3> HIDE DEF old, l, SessionsInv
    <3> QED
      BY <2>1, <2>2, <2>4, AnswerKeeps
  <2>5. /\ line' \in [Issues -> Issues \cup {0}]
        /\ parent' \in [Issues -> Tokens \cup {NoToken}]
        /\ line'[i] = l /\ parent'[i] = old
        /\ \A j \in Issues : j # i => line'[j] = line[j] /\ parent'[j] = parent[j]
        /\ \A j \in Issues : Answered(j)' <=> Answered(j) \/ j = i
        /\ \A t \in Tokens : t.issue # i => Issued(t)' = Issued(t) /\ Live(t)' = Live(t)
        /\ \A t \in Tokens : Issued(t) => t.issue # i
        /\ EndedAreIssued'
    BY <2>given DEF Given
  <2>6. /\ \A q \in Requests : q # r => call'[q] = call[q]
        /\ call'[r] = Idle /\ call' \in [Requests -> Local]
    BY <2>1 DEF TypeOK, Idle, Local
  <2>7. /\ \A q \in Requests : At(q, "issue")' => q # r /\ At(q, "issue")
        /\ \A q \in Requests : ~ At(q, "idle")' => q # r /\ ~ At(q, "idle")
    BY <2>6 DEF At, Idle
  <2>8. \A q \in Requests : q # r /\ ~ At(q, "idle") =>
            call[q].token \in Tokens /\ Issued(call[q].token) /\ call[q].token.issue \in Issues \ {i}
    BY <2>5 DEF LinesExist
  \* No refresh token that is live, or entered by a logout, and no exchange
  \* under way is of the line this answer belongs to.
  <2>9. \A j \in Issues : j # i /\ line[j] = l => ~ Live(Refresh(j)) /\ Refresh(j) \notin ended
    <3>1. CASE old.kind = "refresh"
      BY <2>1, <3>1 DEF ExchangeIsExclusive
    <3>2. CASE old.kind # "refresh"
      BY <2>1, <3>2 DEF LinesExist, Answered
    <3> QED
      BY <3>1, <3>2
  <2>10. \A q \in Requests : q # r /\ At(q, "issue") =>
            /\ call[q].token # old
            /\ call[q].token.kind = "refresh" => line[call[q].token.issue] # l
    <3> SUFFICES ASSUME NEW q \in Requests, q # r, At(q, "issue")
                 PROVE  /\ call[q].token # old
                        /\ call[q].token.kind = "refresh" => line[call[q].token.issue] # l
      OBVIOUS
    <3>1. call[q].token # old
      BY <2>1 DEF ExchangeIsExclusive
    <3>2. CASE old.kind = "refresh"
      BY <2>1, <3>1, <3>2 DEF ExchangeIsExclusive
    <3>3. CASE old.kind # "refresh"
      <4>1. call[q].token.issue \in Issues /\ Answered(call[q].token.issue)
        BY <2>8 DEF At, Issued
      <4> QED
        BY <2>1, <3>1, <3>3, <4>1 DEF LinesExist, Answered
    <3> QED
      BY <3>2, <3>3
  <2>11. Refresh(i) \notin ended
    BY <2>1 DEF EndedAreIssued, Issued
  <2> HIDE DEF old, l
  <2>12. TypeOK'
    BY <2>1, <2>5, <2>6 DEF TypeOK
  <2>13. LinesExist'
    <3>1. \A j \in Issues : Answered(j)' => line'[j] \in Issues /\ Answered(line[j])'
      BY <2>3, <2>5 DEF LinesExist, l, Answered
    <3>2. \A q \in Requests : ~ At(q, "idle")' =>
             call'[q].token \in Tokens /\ Issued(call[q].token)'
      BY <2>5, <2>6, <2>7, <2>8 DEF Issued, Answered
    <3>3. \A j \in Issues : parent'[j] # NoToken => Answered(j)' /\ parent'[j] \in revoked \ ended
      BY <2>2, <2>5 DEF LinesExist
    <3>4. \A q \in Requests, j \in Issues : At(q, "issue")' => parent'[j] # call'[q].token
      BY <2>5, <2>6, <2>7, <2>10 DEF LinesExist
    <3> QED
      BY <2>1, <3>1, <3>2, <3>3, <3>4 DEF LinesExist
  <2>14. ExchangeIsExclusive'
    <3>1. \A q \in Requests : At(q, "issue")' =>
             call'[q].token \in revoked \ ended /\ Issued(call[q].token)'
      BY <2>5, <2>6, <2>7, <2>8 DEF ExchangeIsExclusive, At, Issued, Answered
    <3>2. ASSUME NEW q \in Requests, NEW j \in Issues,
                 At(q, "issue")', call'[q].token.kind = "refresh",
                 line'[j] = line'[call'[q].token.issue]
          PROVE  ~ Live(Refresh(j))' /\ Refresh(j) \notin ended
      <4>1. /\ q # r /\ At(q, "issue") /\ call'[q] = call[q]
            /\ call[q].token.issue \in Issues \ {i}
        BY <2>6, <2>7, <2>8, <3>2 DEF At
      <4>2. line[call[q].token.issue] # l
        BY <2>10, <3>2, <4>1
      <4>3. j # i
        BY <2>5, <3>2, <4>1, <4>2
      <4>4. ~ Live(Refresh(j)) /\ Refresh(j) \notin ended
        BY <2>5, <3>2, <4>1, <4>3 DEF ExchangeIsExclusive
      <4> QED
        BY <2>5, <4>3, <4>4
    <3>3. \A p, q \in Requests :
             /\ At(p, "issue")' /\ At(q, "issue")'
             /\ \/ call'[p].token = call'[q].token
                \/ /\ call'[p].token.kind = "refresh" /\ call'[q].token.kind = "refresh"
                   /\ line'[call'[p].token.issue] = line'[call'[q].token.issue]
             => p = q
      <4>1. \A q \in Requests : At(q, "issue")' =>
               line'[call'[q].token.issue] = line[call[q].token.issue] /\ call'[q] = call[q]
        BY <2>5, <2>6, <2>7, <2>8 DEF At
      <4> QED
        BY <2>7, <4>1 DEF ExchangeIsExclusive
    <3> QED
      BY <2>1, <3>1, <3>2, <3>3 DEF ExchangeIsExclusive
  <2>15. OneLivePerLine'
    <3>1. \A j \in Issues : j # i => Live(Refresh(j))' = Live(Refresh(j))
      BY <2>5
    <3> QED
      BY <2>5, <2>9, <3>1 DEF OneLivePerLine
  <2>16. LogoutEndsTheLine'
    <3>1. \A j \in Issues : j # i => Live(Refresh(j))' = Live(Refresh(j))
      BY <2>5
    <3>2. \A j \in Issues : parent'[j] \notin ended
      BY <2>2, <2>5 DEF LogoutEndsTheLine
    <3> QED
      BY <2>1, <2>5, <2>9, <2>11, <3>1, <3>2 DEF LogoutEndsTheLine
  <2>17. OneSuccessor'
    BY <2>2, <2>5 DEF OneSuccessor
  <2> QED
    BY <2>5, <2>12, <2>13, <2>14, <2>15, <2>16, <2>17
<1>4. ASSUME NEW r \in Requests, NEW t \in Tokens, StartLogout(r, t)
      PROVE  SessionsInv'
  <2>1. CASE t \in revoked
    <3>1. UNCHANGED vars
      BY <1>4, <2>1 DEF StartLogout, vars
    <3> QED
      BY <3>1
      DEF vars, TypeOK, EndedAreIssued, LinesExist, ExchangeIsExclusive, OneLivePerLine,
          LogoutEndsTheLine, OneSuccessor, Issued, Live, Answered, At
  <2>2. CASE t \notin revoked
    <3> DEFINE local == [pc |-> "blocklist", token |-> t]
    <3>1. /\ local \in Local /\ Issued(t)
          /\ call' = [call EXCEPT ![r] = local] /\ UNCHANGED <<line, parent, revoked, ended>>
      BY <1>4, <2>2 DEF StartLogout, Go, Local
    <3> QED
      BY <3>1, HandlersCome
  <2> QED
    BY <2>1, <2>2
<1>5. ASSUME NEW r \in Requests, RevokeFails(r) \/ BlocklistFails(r)
      PROVE  SessionsInv'
  <2>1. /\ Idle \in Local /\ Idle.pc = "idle"
        /\ call' = [call EXCEPT ![r] = Idle] /\ UNCHANGED <<line, parent, revoked, ended>>
    BY <1>5 DEF RevokeFails, BlocklistFails, Finish, Idle, Local
  <2> QED
    BY <2>1, HandlersCome
<1>6. ASSUME NEW r \in Requests, Revoke(r) \/ Blocklist(r) PROVE SessionsInv'
  <2> DEFINE old == call[r].token
  <2>1. /\ old \in Tokens /\ Live(old) /\ old \notin revoked
        /\ revoked' = revoked \cup {old}
        /\ ended' \subseteq ended \cup {old} /\ ended \subseteq ended'
        /\ UNCHANGED <<line, parent>>
        /\ call' \in [Requests -> Local]
        /\ \A q \in Requests : q # r => call'[q] = call[q]
    <3>1. old \in Tokens /\ Issued(old) /\ old \notin revoked
      BY <1>6 DEF Revoke, Blocklist, LinesExist, At
    <3>2. call' \in [Requests -> Local] /\ \A q \in Requests : q # r => call'[q] = call[q]
      BY <1>6, <3>1 DEF Revoke, Blocklist, Go, Finish, TypeOK, Local, Idle
    <3> QED
      BY <1>6, <3>1, <3>2 DEF Revoke, Blocklist, Live
  <2>2. /\ \A t : Issued(t)' = Issued(t)
        /\ \A t : Live(t)' => Live(t) /\ t # old
        /\ \A i : Answered(i)' = Answered(i)
    BY <2>1 DEF Issued, Live, Answered
  <2>3. \A i \in Issues : parent[i] # old
    BY <2>1 DEF LinesExist
  \* No exchange under way is of the token or, if it is a refresh token, of its
  \* line, which has no other live one and none that a logout has entered.
  <2>4. \A q \in Requests : At(q, "issue") =>
            /\ call[q].token # old
            /\ call[q].token.kind = "refresh" /\ old.kind = "refresh" =>
                  line[call[q].token.issue] # line[old.issue]
    BY <2>1 DEF ExchangeIsExclusive
  <2>5. \A i \in Issues : old.kind = "refresh" /\ line[i] = line[old.issue] =>
            /\ ~ Live(Refresh(i))'
            /\ Refresh(i) \notin ended
    <3> SUFFICES ASSUME NEW i \in Issues, old.kind = "refresh", line[i] = line[old.issue]
                 PROVE  ~ Live(Refresh(i))' /\ Refresh(i) \notin ended
      OBVIOUS
    <3>1. old = Refresh(old.issue) /\ old.issue \in Issues
      BY <2>1
    <3> QED
      BY <2>1, <2>2, <3>1 DEF OneLivePerLine, LogoutEndsTheLine
  <2>6. \/ call'[r].pc = "issue" /\ call'[r].token = old /\ ended' = ended
        \/ call'[r].pc = "idle" /\ ended' = ended \cup {old}
    BY <1>6 DEF Revoke, Blocklist, Go, Finish, TypeOK, Idle
  <2> HIDE DEF old
  <2>7. TypeOK' /\ EndedAreIssued'
    BY <2>1, <2>2 DEF TypeOK, EndedAreIssued, Live
  <2>8. LinesExist'
    <3>1. \A i \in Issues : Answered(i)' => line'[i] \in Issues /\ Answered(line[i])'
      BY <2>1, <2>2 DEF LinesExist
    <3>2. \A q \in Requests : ~ At(q, "idle")' =>
             call'[q].token \in Tokens /\ Issued(call[q].token)'
      BY <2>1, <2>2, <2>6 DEF LinesExist, At, Live, Issued, Answered
    <3>3. \A i \in Issues : parent'[i] # NoToken => Answered(i)' /\ parent'[i] \in revoked' \ ended'
      BY <2>1, <2>2, <2>3 DEF LinesExist
    <3>4. \A q \in Requests, i \in Issues : At(q, "issue")' => parent'[i] # call'[q].token
      BY <2>1, <2>3, <2>6 DEF LinesExist, At
    <3> QED
      BY <3>1, <3>2, <3>3, <3>4 DEF LinesExist
  <2>9. ExchangeIsExclusive'
    <3>1. \A q \in Requests : At(q, "issue")' =>
             call'[q].token \in revoked' \ ended' /\ Issued(call[q].token)'
      <4> SUFFICES ASSUME NEW q \in Requests, At(q, "issue")'
                   PROVE  call'[q].token \in revoked' \ ended' /\ Issued(call[q].token)'
        OBVIOUS
      <4>1. CASE q = r
        BY <2>1, <2>2, <2>6, <4>1 DEF At, EndedAreIssued, Live, Issued, Answered
      <4>2. CASE q # r
        BY <2>1, <2>2, <2>4, <4>2 DEF At, ExchangeIsExclusive, Issued, Answered
      <4> QED
        BY <4>1, <4>2
    <3>2. ASSUME NEW q \in Requests, NEW i \in Issues,
                 At(q, "issue")', call'[q].token.kind = "refresh",
                 line[i] = line[call'[q].token.issue]
          PROVE  ~ Live(Refresh(i))' /\ Refresh(i) \notin ended'
      <4>1. CASE q = r
        BY <2>5, <2>6, <3>2, <4>1 DEF At
      <4>2. CASE q # r
        <5>1. At(q, "issue") /\ call'[q] = call[q]
          BY <2>1, <3>2, <4>2 DEF At
        <5>2. ~ Live(Refresh(i)) /\ Refresh(i) \notin ended
          BY <3>2, <5>1 DEF ExchangeIsExclusive
        <5>3. Refresh(i) # old
          BY <2>1, <5>2
        <5> QED
          BY <2>1, <2>2, <5>2, <5>3
      <4> QED
        BY <4>1, <4>2
    <3>3. ASSUME NEW p \in Requests, NEW q \in Requests, At(p, "issue")', At(q, "issue")',
                 \/ call'[p].token = call'[q].token
                 \/ /\ call'[p].token.kind = "refresh" /\ call'[q].token.kind = "refresh"
                    /\ line[call'[p].token.issue] = line[call'[q].token.issue]
          PROVE  p = q
      <4>1. CASE p # r /\ q # r
        BY <2>1, <3>3, <4>1 DEF At, ExchangeIsExclusive
      <4>2. CASE p = r /\ q # r
        BY <2>1, <2>4, <2>6, <3>3, <4>2 DEF At
      <4>3. CASE p # r /\ q = r
        BY <2>1, <2>4, <2>6, <3>3, <4>3 DEF At
      <4> QED
        BY <4>1, <4>2, <4>3
    <3> QED
      BY <2>1, <3>1, <3>2, <3>3 DEF ExchangeIsExclusive
  <2>10. OneLivePerLine' /\ OneSuccessor'
    BY <2>1, <2>2 DEF OneLivePerLine, OneSuccessor
  <2>11. LogoutEndsTheLine'
    <3>1. \A i \in Issues : parent'[i] \notin ended'
      BY <2>1, <2>3 DEF LogoutEndsTheLine
    <3>2. \A i, j \in Issues :
             Refresh(i) \in ended' /\ line'[j] = line'[i] => ~ Live(Refresh(j))'
      <4> SUFFICES ASSUME NEW i \in Issues, NEW j \in Issues,
                          Refresh(i) \in ended', line[j] = line[i]
                   PROVE  ~ Live(Refresh(j))'
        BY <2>1
      <4>1. CASE Refresh(i) = old
        BY <2>5, <4>1
      <4>2. CASE Refresh(i) \in ended
        BY <2>2, <4>2 DEF LogoutEndsTheLine
      <4> QED
        BY <2>1, <4>1, <4>2
    <3> QED
      BY <3>1, <3>2 DEF LogoutEndsTheLine
  <2> QED
    BY <2>7, <2>8, <2>9, <2>10, <2>11
<1>7. ASSUME Restart PROVE SessionsInv'
  <2>1. /\ \A r \in Requests : call'[r] = Idle
        /\ call' \in [Requests -> Local]
        /\ UNCHANGED <<line, parent, revoked, ended>>
    BY <1>7 DEF Restart, Idle, Local
  <2>2. \A r \in Requests : At(r, "idle")' /\ ~ At(r, "issue")'
    BY <2>1 DEF At, Idle
  <2> QED
    BY <2>1, <2>2
    DEF TypeOK, EndedAreIssued, LinesExist, ExchangeIsExclusive, OneLivePerLine,
        LogoutEndsTheLine, OneSuccessor, Issued, Live, Answered
<1>8. ASSUME UNCHANGED vars PROVE SessionsInv'
  BY <1>8
  DEF vars, TypeOK, EndedAreIssued, LinesExist, ExchangeIsExclusive, OneLivePerLine,
      LogoutEndsTheLine, OneSuccessor, Issued, Live, Answered, At
<1> QED
  BY <1>1, <1>2, <1>3, <1>4, <1>5, <1>6, <1>7, <1>8 DEF Next

THEOREM Lines == Spec => []SessionsInv
<1>1. Init => SessionsInv
  BY SessionsInit
<1>2. SessionsInv /\ [Next]_vars => SessionsInv'
  BY SessionsStep
<1> QED
  BY <1>1, <1>2, PTL DEF Spec

\* Refresh tokens that go back to one another by exchanges are live one at a
\* time, whatever refreshes and logouts race, and whatever other tokens of the
\* same answers are exchanged (refresh_token and logout of auth.py over the
\* unique column jti).
THEOREM SoleLiveToken == Spec => []OneLivePerLine
<1>1. SessionsInv => OneLivePerLine
  BY DEF SessionsInv
<1> QED
  BY <1>1, Lines, PTL

\* No token, of whatever kind, is exchanged twice by refresh_token.
THEOREM SoleSuccessor == Spec => []OneSuccessor
<1>1. SessionsInv => OneSuccessor
  BY DEF SessionsInv
<1> QED
  BY <1>1, Lines, PTL

\* A token that logout entered into revoked_tokens is never exchanged, and a
\* refresh token so entered is the last of its line.
THEOREM LogoutIsFinal == Spec => []LogoutEndsTheLine
<1>1. SessionsInv => LogoutEndsTheLine
  BY DEF SessionsInv
<1> QED
  BY <1>1, Lines, PTL

\* Clients that present nothing but refresh tokens begin a line with each login
\* only, so that a login has one live refresh token: the other lines come from
\* the kinds that refresh_token does not tell apart.
THEOREM OnlyOtherKindsBranch ==
    ASSUME Presented = {"refresh"}
    PROVE  Spec => []OnlyLoginsBeginLines
<1> DEFINE Refreshing == \A r \in Requests : At(r, "revoke") \/ At(r, "issue") =>
                            call[r].token.kind = "refresh"
           Branch == SessionsInv /\ Refreshing /\ OnlyLoginsBeginLines
<1>1. Init => Branch
  BY SessionsInit DEF Init, OnlyLoginsBeginLines, At, Idle
<1>2. ASSUME Branch, [Next]_vars PROVE Branch'
  <2> USE <1>2
  <2>0. SessionsInv'
    BY SessionsStep
  <2>1. ASSUME NEW i \in Issues, OpenSession(i) PROVE Refreshing' /\ OnlyLoginsBeginLines'
    <3>1. parent[i] = NoToken
      BY <2>1 DEF OpenSession, NextAnswer, SessionsInv, LinesExist
    <3> QED
      BY <2>1, <3>1 DEF OpenSession, OnlyLoginsBeginLines, At, SessionsInv, TypeOK
  <2>2. ASSUME NEW r \in Requests, NEW i \in Issues, IssueTokens(r, i)
        PROVE  Refreshing' /\ OnlyLoginsBeginLines'
    <3> DEFINE old == call[r].token
    <3>1. /\ At(r, "issue") /\ ~ Answered(i) /\ old.kind = "refresh"
          /\ line' = [line EXCEPT ![i] = line[old.issue]]
          /\ parent' = [parent EXCEPT ![i] = old]
          /\ call' = [call EXCEPT ![r] = Idle]
      BY <2>2 DEF IssueTokens, NextAnswer, Finish
    <3>2. old \in Tokens /\ Answered(old.issue)
      BY <3>1 DEF SessionsInv, LinesExist, Issued, At
    <3>3. line[old.issue] # i
      BY <3>1, <3>2, TokenFacts DEF SessionsInv, LinesExist
    <3>4. OnlyLoginsBeginLines'
      BY <3>1, <3>3 DEF OnlyLoginsBeginLines, SessionsInv, TypeOK
    <3>5. Refreshing'
      BY <3>1 DEF At, Idle, SessionsInv, TypeOK
    <3> QED
      BY <3>4, <3>5
  <2>3. ASSUME UNCHANGED <<line, parent>>,
               \A r \in Requests :
                  \/ call'[r] = call[r]
                  \/ call'[r].pc \in {"idle", "blocklist"}
                  \/ call'[r].token.kind = "refresh"
                  \/ call'[r].token = call[r].token /\ At(r, "revoke")
        PROVE  Refreshing' /\ OnlyLoginsBeginLines'
    BY <2>3 DEF OnlyLoginsBeginLines, At
  <2>4. ASSUME NEW r \in Requests, NEW t \in Tokens, StartRefresh(r, t) \/ StartLogout(r, t)
        PROVE  Refreshing' /\ OnlyLoginsBeginLines'
    BY <2>3, <2>4 DEF StartRefresh, StartLogout, Go, SessionsInv, TypeOK
  <2>5. ASSUME NEW r \in Requests,
               Revoke(r) \/ RevokeFails(r) \/ Blocklist(r) \/ BlocklistFails(r)
        PROVE  Refreshing' /\ OnlyLoginsBeginLines'
    BY <2>3, <2>5
    DEF Revoke, RevokeFails, Blocklist, BlocklistFails, Go, Finish, Idle, SessionsInv, TypeOK
  <2>6. ASSUME Restart \/ UNCHANGED vars PROVE Refreshing' /\ OnlyLoginsBeginLines'
    BY <2>3, <2>6 DEF Restart, vars, Idle
  <2> QED
    BY <2>0, <2>1, <2>2, <2>4, <2>5, <2>6 DEF Next
<1>3. Branch => OnlyLoginsBeginLines
  OBVIOUS
<1> HIDE DEF Branch
<1> QED
  BY <1>1, <1>2, <1>3, PTL DEF Spec
=============================================================================
