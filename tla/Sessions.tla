------------------------------- MODULE Sessions -------------------------------
(***************************************************************************)
(* Tokens: their exchange, their revocation and the logout of              *)
(* src/app/routes/auth.py over the table revoked_tokens.                   *)
(*                                                                         *)
(* A login is answered with three tokens, an exchange with two.  Each has  *)
(* a jti of its own, all are signed alike, and neither /auth/refresh nor   *)
(* /auth/logout looks at the type or the expiry of what it is given: any   *)
(* token ever issued may be presented at any time.  A token is looked up   *)
(* in the table in one step and entered into it in a later one; what       *)
(* decides between two handlers of the same token is the unique index on   *)
(* the column jti.                                                         *)
(***************************************************************************)
EXTENDS Naturals

CONSTANTS
    Requests,    \* handlers that may run at the same time
    MaxIssues,   \* bound: answers with tokens
    Presented,   \* the kinds of tokens clients present in this instance
    MayFail      \* whether a commit may fail for reasons outside this table

Kinds == {"access", "refresh", "sos"}

ASSUME SessionAssumption ==
    MaxIssues \in Nat /\ Presented \subseteq Kinds /\ MayFail \in BOOLEAN

\* A token is of the answer it was issued in; 0 is the answer not given yet.
Issues == 1 .. MaxIssues
Tokens == [issue : Issues, kind : Kinds]
NoToken == [issue |-> 0, kind |-> "none"]
Refresh(i) == [issue |-> i, kind |-> "refresh"]

VARIABLES
    line,       \* observed: the answer whose refresh token that of this answer goes
                \* back to, by exchanges of refresh tokens; 0 if not given
    parent,     \* observed: the token that was exchanged for this answer, or NoToken
    revoked,    \* table revoked_tokens
    call,       \* handlers: where they are and the token they were given
    ended       \* observed: tokens that a logout entered into the table

vars == <<line, parent, revoked, call, ended>>

Idle == [pc |-> "idle", token |-> NoToken]
Local == [pc : {"idle", "revoke", "issue", "blocklist"}, token : Tokens \cup {NoToken}]

TypeOK ==
    /\ line \in [Issues -> Issues \cup {0}]
    /\ parent \in [Issues -> Tokens \cup {NoToken}]
    /\ revoked \subseteq Tokens
    /\ call \in [Requests -> Local]
    /\ ended \subseteq Tokens

Init ==
    /\ line = [i \in Issues |-> 0]
    /\ parent = [i \in Issues |-> NoToken]
    /\ revoked = {}
    /\ call = [r \in Requests |-> Idle]
    /\ ended = {}

Answered(i) == line[i] # 0

\* Answers are numbered in the order in which they are given.
NextAnswer(i) == ~ Answered(i) /\ \A j \in Issues : j < i => Answered(j)

\* The sos token made for an exchange is left out of its answer.
Issued(t) == Answered(t.issue) /\ (t.kind = "sos" => parent[t.issue] = NoToken)
Live(t) == Issued(t) /\ t \notin revoked

At(r, p) == call[r].pc = p
Go(r, p, t) == call' = [call EXCEPT ![r] = [pc |-> p, token |-> t]]
Finish(r) == call' = [call EXCEPT ![r] = Idle]

-----------------------------------------------------------------------------

\* A login, or the verification of a number.
OpenSession(i) ==
    /\ NextAnswer(i)
    /\ line' = [line EXCEPT ![i] = i]
    /\ UNCHANGED <<parent, revoked, call, ended>>

\* POST /auth/refresh finds the token, whatever its kind, not revoked.
StartRefresh(r, t) ==
    /\ At(r, "idle")
    /\ t.kind \in Presented /\ Live(t)
    /\ Go(r, "revoke", t)
    /\ UNCHANGED <<line, parent, revoked, ended>>

\* Mutant: no constraint on the column.
RevokeUnconstrained(r) ==
    /\ At(r, "revoke")
    /\ revoked' = revoked \cup {call[r].token}
    /\ Go(r, "issue", call[r].token)
    /\ UNCHANGED <<line, parent, ended>>

\* The token is entered, unless another handler was faster.
Revoke(r) ==
    /\ At(r, "revoke") /\ call[r].token \notin revoked
    /\ revoked' = revoked \cup {call[r].token}
    /\ Go(r, "issue", call[r].token)
    /\ UNCHANGED <<line, parent, ended>>

\* The commit violates the unique index or fails: an error answer.
RevokeFails(r) ==
    /\ At(r, "revoke")
    /\ call[r].token \in revoked \/ MayFail
    /\ Finish(r)
    /\ UNCHANGED <<line, parent, revoked, ended>>

\* _make_tokens, after the commit.  A refresh token goes on in the place of the
\* one it was exchanged for; for any other token a line of its own begins.
IssueTokens(r, i) ==
    LET old == call[r].token
    IN /\ At(r, "issue") /\ NextAnswer(i)
       /\ line' = [line EXCEPT ![i] = IF old.kind = "refresh" THEN line[old.issue] ELSE i]
       /\ parent' = [parent EXCEPT ![i] = old]
       /\ Finish(r)
       /\ UNCHANGED <<revoked, ended>>

\* POST /auth/logout; a token already in the table is answered at once.
StartLogout(r, t) ==
    /\ At(r, "idle")
    /\ t.kind \in Presented /\ Issued(t)
    /\ IF t \in revoked THEN UNCHANGED call ELSE Go(r, "blocklist", t)
    /\ UNCHANGED <<line, parent, revoked, ended>>

Blocklist(r) ==
    /\ At(r, "blocklist") /\ call[r].token \notin revoked
    /\ revoked' = revoked \cup {call[r].token}
    /\ ended' = ended \cup {call[r].token}
    /\ Finish(r)
    /\ UNCHANGED <<line, parent>>

\* Every exception of a logout is swallowed.
BlocklistFails(r) ==
    /\ At(r, "blocklist")
    /\ call[r].token \in revoked \/ MayFail
    /\ Finish(r)
    /\ UNCHANGED <<line, parent, revoked, ended>>

\* The table survives a restart, handlers do not.
Restart ==
    /\ call' = [r \in Requests |-> Idle]
    /\ UNCHANGED <<line, parent, revoked, ended>>

Next ==
    \/ \E i \in Issues : OpenSession(i) \/ \E r \in Requests : IssueTokens(r, i)
    \/ \E r \in Requests, t \in Tokens : StartRefresh(r, t) \/ StartLogout(r, t)
    \/ \E r \in Requests :
         Revoke(r) \/ RevokeFails(r) \/ Blocklist(r) \/ BlocklistFails(r)
    \/ Restart

Spec == Init /\ [][Next]_vars

-----------------------------------------------------------------------------
(* Properties                                                              *)

\* However many refreshes and logouts race for it, a token of any kind is
\* exchanged once at most.
OneSuccessor ==
    \A i, j \in Issues : parent[i] = parent[j] /\ parent[i] # NoToken => i = j

\* "rotated on every /refresh": refresh tokens that go back to one another are
\* not live at the same time.
OneLivePerLine ==
    \A i, j \in Issues :
        Live(Refresh(i)) /\ Live(Refresh(j)) /\ line[i] = line[j] => i = j

\* "blocklisted on logout": a token that a logout entered into the table was not
\* exchanged before nor is it later, and if it was a refresh token, its line has
\* no live refresh token any more, whatever was under way when it was entered.
LogoutEndsTheLine ==
    /\ \A i \in Issues : parent[i] \notin ended
    /\ \A i, j \in Issues :
         Refresh(i) \in ended /\ line[j] = line[i] => ~ Live(Refresh(j))

\* What makes them inductive: a line whose refresh token is being exchanged has
\* no live refresh token, no other exchange, and none that a logout has entered.
ExchangeIsExclusive ==
    /\ \A r \in Requests : At(r, "issue") =>
          call[r].token \in revoked \ ended /\ Issued(call[r].token)
    /\ \A r \in Requests, i \in Issues :
          At(r, "issue") /\ call[r].token.kind = "refresh" /\ line[i] = line[call[r].token.issue]
            => ~ Live(Refresh(i)) /\ Refresh(i) \notin ended
    /\ \A q, r \in Requests :
          /\ At(q, "issue") /\ At(r, "issue")
          /\ \/ call[q].token = call[r].token
             \/ /\ call[q].token.kind = "refresh" /\ call[r].token.kind = "refresh"
                /\ line[call[q].token.issue] = line[call[r].token.issue]
          => q = r

\* When a logout is answered its token is revoked.
LoggedOutIsRevoked ==
    [][\A r \in Requests :
          Blocklist(r) \/ BlocklistFails(r) => call[r].token \in revoked']_vars

\* "Stores JTIs of refresh tokens", and the other kinds are good for nothing but
\* requests: only a login begins a line.
OnlyLoginsBeginLines ==
    \A i \in Issues : line[i] = i => parent[i] = NoToken
=============================================================================
