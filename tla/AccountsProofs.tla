---------------------------- MODULE AccountsProofs ----------------------------
(***************************************************************************)
(* What number and purpose alone keep true of codes and accounts, for any  *)
(* number of handlers, codes and failures.                                 *)
(***************************************************************************)
EXTENDS Accounts, FiniteSetTheorems, TLAPS

\* A code is of a number and a purpose from the commit that creates it.
CodesInOrder ==
    \A c \in Codes :
        /\ c > issued => ~ code[c].used /\ issuer[c] = {} /\ uses[c] = 0
        /\ ~ code[c].used => uses[c] = 0

\* A handler that checks holds a code of the number and purpose it was called
\* for, spent from the moment it goes on to grant.
ChecksHoldTheirCode ==
    \A r \in Requests :
        /\ ~ At(r, "idle") => call[r].phone \in Phones
        /\ At(r, "invalidate") => call[r].job \in {"resend", "forgot"}
        /\ At(r, "issue") =>
              /\ call[r].job \in {"register", "resend", "forgot"}
              /\ call[r].marked \subseteq 1 .. issued
        /\ call[r].pc \in {"reject", "spend", "grant"} =>
              /\ call[r].job \in {"verify", "reset"}
              /\ call[r].record \in 1 .. issued
              /\ code[call[r].record].phone = call[r].phone
              /\ code[call[r].record].purpose = PurposeOf(call[r].job)
        /\ At(r, "reject") => call[r].tries < MaxAttempts
        /\ At(r, "grant") => code[call[r].record].used

\* A handler about to issue a code will mark every usable code it issued
\* before for that number and purpose.
IssuersMarkTheirOwn ==
    \A r \in Requests : At(r, "issue") =>
        \A c \in Unused(call[r].phone, PurposeOf(call[r].job)) :
            issuer[c] = {r} => c \in call[r].marked

\* An unused code has one issuer.
UnusedHasIssuer ==
    \A c \in Codes : c <= issued /\ ~ code[c].used =>
        \E r \in Requests : issuer[c] = {r}

\* The handlers that have read a code as right and not yet spent it.
Spenders(c) == {r \in Requests : At(r, "spend") /\ call[r].record = c}

\* Every acceptance has been or will be made by a handler of its own.
AcceptancesCounted ==
    \A c \in Codes : uses[c] + Cardinality(Spenders(c)) <= Cardinality(Requests)

AccountsInv ==
    /\ TypeOK
    /\ CodesInOrder
    /\ ChecksHoldTheirCode
    /\ IssuersMarkTheirOwn
    /\ UnusedHasIssuer
    /\ OneLiveCodePerHandler
    /\ GrantedByRegisteredNumber

\* The local state of a handler that starts.
LEMMA CallRecord ==
  ASSUME NEW pc \in {"idle", "invalidate", "issue", "reject", "spend", "grant"},
         NEW job \in Jobs \cup {"none"}, NEW p \in Phones \cup {"none"},
         NEW c \in Codes \cup {NoCode}, NEW tries \in 0 .. MaxAttempts,
         NEW marked \in SUBSET Codes
  PROVE  [pc |-> pc, job |-> job, phone |-> p, record |-> c, tries |-> tries,
          marked |-> marked] \in Call
BY DEF Call

LEMMA Bounds ==
  /\ MaxAttempts \in Nat /\ MaxCodes \in Nat /\ 0 \in 0 .. MaxAttempts
  /\ {} \in SUBSET Codes /\ NoCode \in Codes \cup {NoCode}
  /\ \A c \in Codes : c \in Nat /\ c # NoCode
BY AccountsAssumption DEF Codes, NoCode

LEMMA AccountsInit == Init => AccountsInv /\ AcceptancesCounted
<1> SUFFICES ASSUME Init PROVE AccountsInv /\ AcceptancesCounted
  OBVIOUS
<1>1. TypeOK
  BY AccountsAssumption
  DEF Init, TypeOK, Account, Code, Call, NoAccount, NotIssued, NewCode, Idle, Holding, NoCode,
      Codes
<1>2. CodesInOrder /\ ChecksHoldTheirCode /\ IssuersMarkTheirOwn /\ UnusedHasIssuer
  BY AccountsAssumption
  DEF Init, CodesInOrder, ChecksHoldTheirCode, IssuersMarkTheirOwn, UnusedHasIssuer,
      NotIssued, NewCode, Idle, Holding, At, Codes
<1>3. OneLiveCodePerHandler /\ GrantedByRegisteredNumber
  BY AccountsAssumption
  DEF Init, OneLiveCodePerHandler, GrantedByRegisteredNumber, Unused, Live, NoAccount, Codes
<1>4. AcceptancesCounted
  <2>1. \A c \in Codes : Spenders(c) = {}
    BY DEF Init, Spenders, At, Idle, Holding
  <2>2. Cardinality({}) = 0 /\ Cardinality(Requests) \in Nat
    BY FS_EmptySet, FS_CardinalityType, AccountsAssumption
  <2> QED
    <3> SUFFICES ASSUME NEW c \in Codes
                 PROVE  uses[c] + Cardinality(Spenders(c)) <= Cardinality(Requests)
      BY DEF AcceptancesCounted
    <3>1. uses[c] = 0 /\ Cardinality(Spenders(c)) = 0
      BY <2>1, <2>2 DEF Init
    <3> QED
      BY <2>2, <3>1
<1> QED
  BY <1>1, <1>2, <1>3, <1>4 DEF AccountsInv

\* The invariant does not depend on how handlers are called: one that goes
\* back to idle disturbs nothing.
LEMMA HandlerEnds ==
  ASSUME AccountsInv, NEW r \in Requests, Hold(r, Idle),
         UNCHANGED <<account, code, issued, observed>>
  PROVE  AccountsInv'
<1> USE AccountsAssumption DEF AccountsInv, Hold, observed
<1>1. TypeOK'
  BY DEF TypeOK, Call, Idle, Holding, NoCode
<1>2. CodesInOrder' /\ UnusedHasIssuer'
  BY DEF CodesInOrder, UnusedHasIssuer
<1>3. ChecksHoldTheirCode'
  BY DEF TypeOK, ChecksHoldTheirCode, Idle, Holding, At
<1>4. IssuersMarkTheirOwn'
  BY DEF TypeOK, IssuersMarkTheirOwn, Idle, Holding, At, Unused
<1>5. OneLiveCodePerHandler' /\ GrantedByRegisteredNumber'
  BY DEF OneLiveCodePerHandler, GrantedByRegisteredNumber, Unused, Live
<1> QED
  BY <1>1, <1>2, <1>3, <1>4, <1>5

\* Nor does one that only moves on within its own state.
LEMMA HandlerMoves ==
  ASSUME AccountsInv, NEW r \in Requests, NEW local \in Call, Hold(r, local),
         UNCHANGED <<account, code, issued, observed>>,
         local.phone \in Phones,
         local.pc = "invalidate" => local.job \in {"resend", "forgot"},
         local.pc = "issue" =>
            /\ local.job \in {"register", "resend", "forgot"}
            /\ local.marked = Unused(local.phone, PurposeOf(local.job)),
         local.pc \in {"reject", "spend"} =>
            /\ local.job \in {"verify", "reset"}
            /\ local.record \in Unused(local.phone, PurposeOf(local.job)),
         local.pc = "reject" => local.tries < MaxAttempts,
         local.pc # "grant"
  PROVE  AccountsInv'
<1> USE AccountsAssumption DEF AccountsInv, Hold, observed
<1>1. TypeOK'
  BY DEF TypeOK
<1>2. CodesInOrder' /\ UnusedHasIssuer'
  BY DEF CodesInOrder, UnusedHasIssuer
<1>3. ChecksHoldTheirCode'
  BY DEF TypeOK, ChecksHoldTheirCode, At, Unused, Codes
<1>4. IssuersMarkTheirOwn'
  BY DEF TypeOK, IssuersMarkTheirOwn, At, Unused
<1>5. OneLiveCodePerHandler' /\ GrantedByRegisteredNumber'
  BY DEF OneLiveCodePerHandler, GrantedByRegisteredNumber, Unused, Live
<1> QED
  BY <1>1, <1>2, <1>3, <1>4, <1>5

\* What the other handlers hold stays true of codes that only change from
\* unused to used.
LEMMA OthersKeepTheirState ==
  ASSUME TypeOK, ChecksHoldTheirCode, NEW r \in Requests, NEW local,
         call' = [call EXCEPT ![r] = local], issued' = issued,
         \A d \in Codes : /\ code'[d].phone = code[d].phone
                          /\ code'[d].purpose = code[d].purpose
                          /\ code[d].used => code'[d].used,
         \/ local = Idle
         \/ /\ local.pc = "grant" /\ local.job \in {"verify", "reset"}
            /\ local.phone \in Phones /\ local.record \in 1 .. issued
            /\ code[local.record].phone = local.phone
            /\ code[local.record].purpose = PurposeOf(local.job)
            /\ code'[local.record].used
  PROVE  ChecksHoldTheirCode'
<1>1. /\ \A q \in Requests : q # r => call'[q] = call[q]
      /\ call'[r] = local /\ \A n \in 1 .. issued : n \in Codes
  BY Bounds DEF TypeOK, Codes
<1> SUFFICES ASSUME NEW q \in Requests
             PROVE  /\ ~ At(q, "idle")' => call'[q].phone \in Phones
                    /\ At(q, "invalidate")' => call'[q].job \in {"resend", "forgot"}
                    /\ At(q, "issue")' =>
                          /\ call'[q].job \in {"register", "resend", "forgot"}
                          /\ call'[q].marked \subseteq 1 .. issued
                    /\ call'[q].pc \in {"reject", "spend", "grant"} =>
                          /\ call'[q].job \in {"verify", "reset"}
                          /\ call'[q].record \in 1 .. issued
                          /\ code'[call'[q].record].phone = call'[q].phone
                          /\ code'[call'[q].record].purpose = PurposeOf(call'[q].job)
                    /\ At(q, "reject")' => call'[q].tries < MaxAttempts
                    /\ At(q, "grant")' => code'[call'[q].record].used
  BY DEF ChecksHoldTheirCode
<1>2. CASE q # r
  BY <1>1, <1>2 DEF ChecksHoldTheirCode, At
<1>3. CASE q = r
  BY <1>1, <1>3 DEF At, Idle, Holding
<1> QED
  BY <1>2, <1>3

\* Nor do handlers about to issue have more to mark.
LEMMA OthersMarkTheirOwn ==
  ASSUME TypeOK, ChecksHoldTheirCode, IssuersMarkTheirOwn, NEW r \in Requests, NEW local,
         call' = [call EXCEPT ![r] = local], local.pc # "issue",
         \A q \in Phones, u \in Purposes : Unused(q, u)' \subseteq Unused(q, u),
         \A d \in Codes : \A q \in Requests : issuer'[d] = {q} => issuer[d] = {q}
  PROVE  IssuersMarkTheirOwn'
<1> SUFFICES ASSUME NEW q \in Requests, call'[q].pc = "issue",
                    NEW d \in Unused(call[q].phone, PurposeOf(call[q].job))',
                    issuer'[d] = {q}
             PROVE  d \in call'[q].marked
  BY DEF IssuersMarkTheirOwn, At
<1>1. q # r /\ call'[q] = call[q]
  BY DEF TypeOK
<1>2. call[q].phone \in Phones /\ PurposeOf(call[q].job) \in Purposes
  BY <1>1 DEF ChecksHoldTheirCode, At, PurposeOf, Purposes
<1>3. d \in Unused(call[q].phone, PurposeOf(call[q].job)) /\ d \in Codes
  BY <1>1, <1>2 DEF Unused
<1> QED
  BY <1>1, <1>3 DEF IssuersMarkTheirOwn, At

\* What was granted stays granted by codes that only change from unused to used.
LEMMA GrantsKept ==
  ASSUME TypeOK, GrantedByRegisteredNumber, UNCHANGED <<account, proof>>,
         \A d \in Codes : /\ code'[d].phone = code[d].phone
                          /\ code'[d].purpose = code[d].purpose
                          /\ code[d].used => code'[d].used
  PROVE  GrantedByRegisteredNumber'
<1>1. \A a \in Live : /\ account[a].password \in Codes \cup {NoCode}
                      /\ proof[a] \in Codes \cup {NoCode}
  BY DEF TypeOK, Account, Live
<1> QED
  BY <1>1 DEF GrantedByRegisteredNumber, Live

LEMMA AccountsStep == AccountsInv /\ [Next]_vars => AccountsInv'
<1> SUFFICES ASSUME AccountsInv, [Next]_vars PROVE AccountsInv'
  OBVIOUS
<1> USE AccountsAssumption DEF AccountsInv
<1>1. ASSUME NEW r \in Requests, NEW p \in Phones, StartRegister(r, p)
      PROVE  AccountsInv'
  <2> DEFINE local == [pc |-> "issue", job |-> "register", phone |-> p, record |-> NoCode,
                       tries |-> 0, marked |-> Unused(p, "phone_verification")]
  <2>1. Hold(r, local) /\ UNCHANGED <<account, code, issued, observed>>
    <3> DEFINE raw == [Holding("issue", "register", p, NoCode, 0)
                         EXCEPT !.marked = Unused(p, "phone_verification")]
    <3>1. raw = local
      BY DEF Holding
    <3>2. Hold(r, raw) /\ UNCHANGED <<account, code, issued, observed>>
      BY <1>1 DEF StartRegister, Begin
    <3> HIDE DEF raw, local
    <3> QED
      BY <3>1, <3>2
  <2>2. Unused(p, "phone_verification") \in SUBSET Codes
    BY DEF Unused
  <2>3. local \in Call
    BY <2>2, CallRecord, Bounds DEF Jobs
  <2>4. PurposeOf("register") = "phone_verification"
    BY DEF PurposeOf
  <2>5. /\ local.pc = "issue" /\ local.job = "register" /\ local.phone = p
        /\ local.marked = Unused(p, PurposeOf(local.job))
    BY <2>4
  <2> HIDE DEF local
  <2> QED
    BY <2>1, <2>3, <2>5, HandlerMoves
<1>2. ASSUME NEW r \in Requests, NEW p \in Phones, NEW job \in Jobs, StartResend(r, job, p)
      PROVE  AccountsInv'
  <2> DEFINE local == [pc |-> "invalidate", job |-> job, phone |-> p, record |-> NoCode,
                       tries |-> 0, marked |-> {}]
  <2>1. /\ job \in {"resend", "forgot"}
        /\ Hold(r, local) /\ UNCHANGED <<account, code, issued, observed>>
    BY <1>2 DEF StartResend, Begin, Holding
  <2>2. local \in Call
    BY CallRecord, Bounds
  <2>3. local.pc = "invalidate" /\ local.job = job /\ local.phone = p
    OBVIOUS
  <2> HIDE DEF local
  <2> QED
    BY <2>1, <2>2, <2>3, HandlerMoves
<1>3. ASSUME NEW r \in Requests, NEW p \in Phones, NEW job \in Jobs, NEW c \in Codes,
             NEW right \in BOOLEAN, StartCheck(r, job, p, c, right)
      PROVE  AccountsInv'
  <2> DEFINE pc == IF right THEN "spend" ELSE "reject"
             local == [pc |-> pc, job |-> job, phone |-> p, record |-> c,
                       tries |-> code[c].attempts, marked |-> {}]
  <2>1. /\ job \in {"verify", "reset"} /\ c \in Unused(p, PurposeOf(job))
        /\ code[c].attempts < MaxAttempts
        /\ Hold(r, local) /\ UNCHANGED <<account, code, issued, observed>>
    BY <1>3 DEF StartCheck, Begin, Holding, Latest
  <2>2. code[c].attempts \in 0 .. MaxAttempts
    BY DEF TypeOK, Code
  <2>3. /\ local \in Call /\ local.phone = p /\ local.pc \in {"spend", "reject"}
        /\ local.job = job /\ local.record = c /\ local.tries = code[c].attempts
    <3>1. pc \in {"spend", "reject"}
      OBVIOUS
    <3> HIDE DEF pc
    <3>2. local \in Call
      BY <2>2, <3>1, CallRecord, Bounds
    <3> QED
      BY <3>1, <3>2
  <2> HIDE DEF local
  <2> QED
    BY <2>1, <2>3, HandlerMoves
<1>4. ASSUME NEW r \in Requests, Invalidate(r) PROVE AccountsInv'
  <2> DEFINE local == [call[r] EXCEPT !.pc = "issue",
                         !.marked = Unused(call[r].phone, PurposeOf(call[r].job))]
  <2>1. At(r, "invalidate") /\ Hold(r, local) /\ UNCHANGED <<account, code, issued, observed>>
    BY <1>4 DEF Invalidate
  <2>2. call[r] \in Call /\ call[r].phone \in Phones /\ call[r].job \in {"resend", "forgot"}
    BY <2>1 DEF TypeOK, ChecksHoldTheirCode, At
  <2>3. /\ local \in Call /\ local.phone \in Phones /\ local.pc = "issue"
        /\ local.job \in {"resend", "forgot"}
        /\ local.marked = Unused(local.phone, PurposeOf(local.job))
    BY <2>2 DEF Call, Unused
  <2> HIDE DEF local
  <2> QED
    BY <2>1, <2>3, HandlerMoves
<1>5. ASSUME NEW r \in Requests, IssueCode(r) PROVE AccountsInv'
  <2> DEFINE c == issued + 1
             p == call[r].phone
             purpose == PurposeOf(call[r].job)
  <2>1. /\ At(r, "issue") /\ issued' = c /\ c \in Codes /\ issued \in Nat /\ p \in Phones
        /\ purpose \in Purposes /\ call[r].job \in {"register", "resend", "forgot"}
        /\ UNCHANGED <<proof, uses, wrong>>
        /\ call' = [call EXCEPT ![r] = Idle]
    <3>1. At(r, "issue") /\ issued < MaxCodes /\ issued' = c /\ UNCHANGED <<proof, uses, wrong>>
          /\ call' = [call EXCEPT ![r] = Idle]
      BY <1>5 DEF IssueCode, Hold
    <3>2. issued \in Nat /\ c \in Codes
      BY <3>1, Bounds DEF TypeOK, Codes
    <3>3. p \in Phones /\ call[r].job \in {"register", "resend", "forgot"}
      BY <3>1 DEF ChecksHoldTheirCode, At
    <3> QED
      BY <3>1, <3>2, <3>3 DEF PurposeOf, Purposes
  <2>2. /\ code' = [d \in Codes |->
                      IF d = c THEN [phone |-> p, purpose |-> purpose, used |-> FALSE,
                                     attempts |-> 0]
                      ELSE [code[d] EXCEPT !.used = @ \/ d \in call[r].marked]]
        /\ issuer' = [d \in Codes |-> IF d = c THEN {r}
                                      ELSE IF d \in call[r].marked THEN {} ELSE issuer[d]]
        /\ account' = IF call[r].job = "register"
                        THEN [account EXCEPT ![p] = NewAccount(p)] ELSE account
    <3>1. code' = [d \in Codes |->
                     IF d = c THEN NewCode(p, purpose)
                     ELSE [code[d] EXCEPT !.used = @ \/ d \in call[r].marked]]
      BY <1>5 DEF IssueCode
    <3>2. issuer' = [d \in Codes |-> IF d = c THEN {r}
                                      ELSE IF d \in call[r].marked THEN {} ELSE issuer[d]]
      BY <1>5 DEF IssueCode
    <3>3. account' = IF call[r].job = "register"
                        THEN [account EXCEPT ![p] = NewAccount(p)] ELSE account
      BY <1>5 DEF IssueCode
    <3> QED
      BY <3>1, <3>2, <3>3 DEF NewCode
  <2>3. \A d \in Codes : d # c =>
           /\ code'[d].phone = code[d].phone /\ code'[d].purpose = code[d].purpose
           /\ code'[d].used = (code[d].used \/ d \in call[r].marked)
           /\ code'[d].attempts = code[d].attempts
    BY <2>2 DEF TypeOK, Code
  <2>0. c = issued + 1 /\ p = call[r].phone /\ purpose = PurposeOf(call[r].job)
    OBVIOUS
  <2> HIDE DEF c, p, purpose
  <2>4. TypeOK'
    <3>1. \A d \in Codes : code'[d] \in Code
      <4> SUFFICES ASSUME NEW d \in Codes PROVE code'[d] \in Code
        OBVIOUS
      <4>1. CASE d = c
        BY <2>1, <2>0, <2>2, <4>1, Bounds DEF Code
      <4>2. CASE d # c
        BY <2>2, <4>2 DEF TypeOK, Code
      <4> QED
        BY <4>1, <4>2
    <3>2. NewAccount(p) \in Account
      BY <2>1, <2>0 DEF NewAccount, NoAccount, Account, NoCode
    <3>3. Idle \in Call
      BY DEF Idle, Holding, Call, NoCode
    <3> QED
      <4>1. issued' \in 0 .. MaxCodes /\ r \in Requests
        BY <2>1, <2>0, Bounds DEF Codes
      <4>2. issuer' \in [Codes -> SUBSET Requests] /\ call' \in [Requests -> Call]
        BY <2>1, <2>0, <2>2, <3>3 DEF TypeOK
      <4>3. code' \in [Codes -> Code] /\ account' \in [Phones -> Account]
        BY <2>1, <2>0, <2>2, <3>1, <3>2 DEF TypeOK
      <4> QED
        BY <2>1, <2>0, <4>1, <4>2, <4>3 DEF TypeOK
  <2>5. CodesInOrder'
    <3>1. call[r].marked \subseteq 1 .. issued
      BY <2>1, <2>0 DEF ChecksHoldTheirCode
    <3>2. \A d \in Codes : d # c /\ ~ code'[d].used => ~ code[d].used
      BY <2>3
    <3>3. uses[c] = 0
      BY <2>1, <2>0 DEF CodesInOrder
    <3> QED
      <4> SUFFICES ASSUME NEW d \in Codes
                   PROVE  /\ d > issued' => ~ code'[d].used /\ issuer'[d] = {} /\ uses'[d] = 0
                          /\ ~ code'[d].used => uses'[d] = 0
        BY DEF CodesInOrder
      <4>1. CASE d = c
        BY <2>1, <2>0, <3>3, <4>1, Bounds
      <4>2. CASE d # c
        <5>1. ~ code'[d].used => uses'[d] = 0
          BY <2>1, <3>2, <4>2 DEF CodesInOrder
        <5>2. d > issued' => d > issued /\ d \notin call[r].marked
          <6>1. d \in Nat /\ issued' = issued + 1
            BY <2>1, <2>0, Bounds
          <6> QED
            BY <2>1, <3>1, <6>1
        <5>3. d > issued => ~ code[d].used /\ issuer[d] = {} /\ uses[d] = 0
          BY DEF CodesInOrder
        <5>4. d \notin call[r].marked => issuer'[d] = issuer[d]
          BY <2>2, <4>2
        <5> QED
          BY <2>1, <2>3, <4>2, <5>1, <5>2, <5>3, <5>4
      <4> QED
        BY <4>1, <4>2
  <2>6. ChecksHoldTheirCode'
    <3>1. \A q \in Requests : q # r => call'[q] = call[q]
      BY <2>1, <2>0 DEF TypeOK
    <3>2. At(r, "idle")'
      BY <2>1, <2>0 DEF TypeOK, At, Idle, Holding
    <3>3. ASSUME NEW q \in Requests, q # r, call[q].pc \in {"reject", "spend", "grant"}
          PROVE  /\ call[q].record \in 1 .. issued'
                 /\ code'[call[q].record].phone = code[call[q].record].phone
                 /\ code'[call[q].record].purpose = code[call[q].record].purpose
                 /\ code[call[q].record].used => code'[call[q].record].used
      <4>1. call[q].record \in 1 .. issued /\ call[q].record \in Codes
        BY <2>1, <2>0, <3>3 DEF ChecksHoldTheirCode, Codes
      <4> QED
        BY <2>1, <2>0, <2>3, <4>1 DEF TypeOK, Code
    <3>4. \A q \in Requests : At(q, "issue") /\ q # r => call[q].marked \subseteq 1 .. issued'
      BY <2>1, <2>0 DEF ChecksHoldTheirCode
    <3> QED
      BY <3>1, <3>2, <3>3, <3>4 DEF ChecksHoldTheirCode, At
  <2>7. /\ \A q \in Phones, u \in Purposes :
              Unused(q, u)' \subseteq Unused(q, u) \cup {c}
        /\ \A q \in Phones, u \in Purposes : \A d \in Unused(q, u)' :
              d # c => d \notin call[r].marked
        /\ \A q \in Phones, u \in Purposes :
              c \in Unused(q, u)' => q = p /\ u = purpose
    <3>1. code'[c].phone = p /\ code'[c].purpose = purpose
      BY <2>1, <2>0, <2>2
    <3>2. call[r].marked \subseteq 1 .. issued
      BY <2>1, <2>0 DEF ChecksHoldTheirCode
    <3> QED
      <4> SUFFICES ASSUME NEW q \in Phones, NEW u \in Purposes, NEW d \in Unused(q, u)'
                   PROVE  /\ d \in Unused(q, u) \cup {c}
                          /\ d # c => d \notin call[r].marked
                          /\ d = c => q = p /\ u = purpose
        BY <2>1
      <4>1. /\ d \in Codes /\ d <= issued' /\ ~ code'[d].used
            /\ code'[d].phone = q /\ code'[d].purpose = u
        BY DEF Unused
      <4>2. CASE d = c
        BY <3>1, <4>1, <4>2
      <4>3. CASE d # c
        <5>1. d <= issued
          BY <2>1, <2>0, <4>1, <4>3, Bounds
        <5>2. /\ ~ code[d].used /\ code[d].phone = q /\ code[d].purpose = u
              /\ d \notin call[r].marked
          BY <2>3, <4>1, <4>3
        <5> QED
          BY <4>1, <4>3, <5>1, <5>2 DEF Unused
      <4> QED
        BY <4>2, <4>3
  <2>8. \A q \in Phones, u \in Purposes : \A d \in Unused(q, u)' :
           d # c => d \in Unused(q, u) /\ issuer'[d] = issuer[d]
    <3> SUFFICES ASSUME NEW q \in Phones, NEW u \in Purposes, NEW d \in Unused(q, u)', d # c
                 PROVE  d \in Unused(q, u) /\ issuer'[d] = issuer[d]
      OBVIOUS
    <3>1. d \in Codes /\ ~ code'[d].used
      BY DEF Unused
    <3> QED
      BY <2>2, <2>3, <2>7, <2>0, <3>1
  <2>9. IssuersMarkTheirOwn'
    <3> SUFFICES ASSUME NEW q \in Requests, q # r, At(q, "issue"),
                        NEW d \in Unused(call[q].phone, PurposeOf(call[q].job))',
                        issuer'[d] = {q}
                 PROVE  d \in call[q].marked
      BY <2>1, <2>0 DEF IssuersMarkTheirOwn, At, Idle, Holding, TypeOK, PurposeOf
    <3>1. call[q].phone \in Phones /\ PurposeOf(call[q].job) \in Purposes /\ call'[q] = call[q]
      BY <2>1, <2>0 DEF TypeOK, ChecksHoldTheirCode, PurposeOf, Purposes, At
    <3>2. d # c
      BY <2>1, <2>0, <2>2
    <3>3. d \in Unused(call[q].phone, PurposeOf(call[q].job)) /\ issuer[d] = {q}
      BY <2>0, <2>8, <3>1, <3>2
    <3> QED
      BY <3>3 DEF IssuersMarkTheirOwn
  <2>10. UnusedHasIssuer'
    <3> SUFFICES ASSUME NEW d \in Codes, d <= issued', ~ code'[d].used
                 PROVE  \E q \in Requests : issuer'[d] = {q}
      BY DEF UnusedHasIssuer
    <3>1. CASE d = c
      BY <2>1, <2>2, <3>1
    <3>2. CASE d # c
      <4>1. d <= issued
        BY <2>1, <2>0, <3>2, Bounds
      <4>2. ~ code[d].used /\ d \notin call[r].marked
        BY <2>3, <3>2
      <4>3. issuer'[d] = issuer[d]
        BY <2>2, <3>2, <4>2
      <4> QED
        BY <4>1, <4>2, <4>3 DEF UnusedHasIssuer
    <3> QED
      BY <3>1, <3>2
  <2>11. OneLiveCodePerHandler'
    <3> SUFFICES ASSUME NEW q \in Phones, NEW u \in Purposes,
                        NEW d \in Unused(q, u)', NEW e \in Unused(q, u)',
                        issuer'[d] = issuer'[e]
                 PROVE  d = e
      BY DEF OneLiveCodePerHandler
    <3>1. CASE d # c /\ e # c
      BY <2>0, <2>8, <3>1 DEF OneLiveCodePerHandler
    <3>2. ASSUME NEW x \in Unused(q, u)', x # c, c \in Unused(q, u)', issuer'[x] = {r}
          PROVE  FALSE
      <4>1. q = p /\ u = purpose
        BY <2>0, <2>7, <3>2
      <4>2. x \in Unused(p, purpose) /\ issuer[x] = {r}
        BY <2>0, <2>8, <3>2, <4>1
      <4>3. x \in call[r].marked
        BY <2>1, <2>0, <4>2 DEF IssuersMarkTheirOwn
      <4> QED
        BY <2>0, <2>7, <3>2, <4>1, <4>3
    <3>3. issuer'[c] = {r}
      BY <2>1, <2>0, <2>2
    <3> QED
      BY <3>1, <3>2, <3>3
  <2>12. GrantedByRegisteredNumber'
    <3> SUFFICES ASSUME NEW a \in Phones, account'[a].live
                 PROVE  /\ account'[a].verified =>
                             /\ proof[a] # NoCode
                             /\ code'[proof[a]].used
                             /\ code'[proof[a]].phone = a
                             /\ code'[proof[a]].purpose = "phone_verification"
                        /\ account'[a].password # NoCode =>
                             /\ code'[account'[a].password].used
                             /\ code'[account'[a].password].phone = a
                             /\ code'[account'[a].password].purpose = "reset_password"
      BY <2>1, <2>0 DEF GrantedByRegisteredNumber, Live
    <3>1. CASE account'[a] = NewAccount(p)
      BY <3>1 DEF NewAccount, NoAccount
    <3>2. CASE account'[a] = account[a]
      <4>1. ~ code[c].used
        BY <2>1, <2>0 DEF CodesInOrder
      <4>2. \A d \in Codes : code[d].used =>
               /\ code'[d].used /\ code'[d].phone = code[d].phone
               /\ code'[d].purpose = code[d].purpose
        BY <2>1, <2>0, <2>3, <4>1
      <4>3. proof[a] \in Codes \cup {NoCode} /\ account[a].password \in Codes \cup {NoCode}
        BY DEF TypeOK, Account
      <4> QED
        BY <3>2, <4>2, <4>3 DEF GrantedByRegisteredNumber, Live
    <3> QED
      BY <2>2, <3>1, <3>2 DEF TypeOK
  <2> QED
    BY <2>4, <2>5, <2>6, <2>9, <2>10, <2>11, <2>12
<1>6. ASSUME NEW r \in Requests, Reject(r) PROVE AccountsInv'
  <2> DEFINE c == call[r].record
  <2>1. /\ code' = [code EXCEPT ![c].attempts = call[r].tries + 1]
        /\ wrong' = [wrong EXCEPT ![c] = @ + 1]
        /\ call' = [call EXCEPT ![r] = Idle]
        /\ UNCHANGED <<account, issued, proof, uses, issuer>>
    BY <1>6 DEF Reject, Hold
  <2>2. c \in Codes /\ call[r].tries + 1 \in 0 .. MaxAttempts
    <3>1. call[r] \in Call /\ call[r].tries < MaxAttempts /\ c \in 1 .. issued
      BY <1>6 DEF Reject, TypeOK, ChecksHoldTheirCode, At
    <3> QED
      BY <3>1, Bounds DEF TypeOK, Call, Codes
  <2>3. \A d \in Codes : /\ code'[d].used = code[d].used /\ code'[d].phone = code[d].phone
                         /\ code'[d].purpose = code[d].purpose
    BY <2>1, <2>2 DEF TypeOK, Code
  <2>4. TypeOK'
    BY <2>1, <2>2 DEF TypeOK, Code, Call, Idle, Holding, NoCode
  <2>5. \A q \in Phones, u \in Purposes : Unused(q, u)' = Unused(q, u)
    BY <2>1, <2>3 DEF Unused
  <2>6. CodesInOrder' /\ UnusedHasIssuer' /\ OneLiveCodePerHandler'
    BY <2>1, <2>3, <2>5 DEF CodesInOrder, UnusedHasIssuer, OneLiveCodePerHandler
  <2>7. ChecksHoldTheirCode' /\ IssuersMarkTheirOwn'
    <3>1. Idle.pc # "issue"
      BY DEF Idle, Holding
    <3>2. ChecksHoldTheirCode'
      BY <2>1, <2>3, OthersKeepTheirState
    <3>3. IssuersMarkTheirOwn'
      BY <2>1, <2>5, <3>1, OthersMarkTheirOwn
    <3> QED
      BY <3>2, <3>3
  <2>8. GrantedByRegisteredNumber'
    BY <2>1, <2>3, GrantsKept
  <2> QED
    BY <2>4, <2>6, <2>7, <2>8
<1>7. ASSUME NEW r \in Requests, Spend(r) PROVE AccountsInv'
  <2> DEFINE c == call[r].record
             local == [call[r] EXCEPT !.pc = "grant"]
  <2>1. /\ code' = [code EXCEPT ![c].used = TRUE]
        /\ uses' = [uses EXCEPT ![c] = @ + 1]
        /\ issuer' = [issuer EXCEPT ![c] = {}]
        /\ call' = [call EXCEPT ![r] = local]
        /\ UNCHANGED <<account, issued, proof, wrong>>
    BY <1>7 DEF Spend, Hold
  <2>2. /\ call[r] \in Call /\ c \in 1 .. issued /\ c \in Codes
        /\ call[r].phone \in Phones /\ call[r].job \in {"verify", "reset"}
        /\ code[c].phone = call[r].phone /\ code[c].purpose = PurposeOf(call[r].job)
    <3>1. At(r, "spend")
      BY <1>7 DEF Spend
    <3> QED
      BY <3>1 DEF TypeOK, ChecksHoldTheirCode, At, Codes
  <2>3. /\ \A d \in Codes : /\ code'[d].phone = code[d].phone
                            /\ code'[d].purpose = code[d].purpose
                            /\ code[d].used => code'[d].used
        /\ code'[c].used
        /\ \A d \in Codes : d # c => code'[d] = code[d]
    BY <2>1, <2>2 DEF TypeOK, Code
  <2>4. /\ local.pc = "grant" /\ local.phone = call[r].phone /\ local.job = call[r].job
        /\ local.record = c /\ local \in Call
    BY <2>2 DEF Call
  <2> HIDE DEF local
  <2>5. TypeOK'
    <3>1. code' \in [Codes -> Code]
      <4>1. [code[c] EXCEPT !.used = TRUE] \in Code
        BY <2>2 DEF TypeOK, Code
      <4> QED
        BY <2>1, <2>2, <4>1 DEF TypeOK
    <3>2. uses' \in [Codes -> Nat] /\ issuer' \in [Codes -> SUBSET Requests]
      BY <2>1, <2>2 DEF TypeOK
    <3>3. call' \in [Requests -> Call]
      BY <2>1, <2>4 DEF TypeOK
    <3> QED
      BY <2>1, <3>1, <3>2, <3>3 DEF TypeOK
  <2>6. \A q \in Phones, u \in Purposes :
           Unused(q, u)' \subseteq Unused(q, u) \ {c}
    BY <2>1, <2>3 DEF Unused
  <2>7. CodesInOrder' /\ UnusedHasIssuer'
    BY <2>1, <2>2, <2>3, Bounds DEF CodesInOrder, UnusedHasIssuer, TypeOK
  <2>8. \A d \in Codes : d # c => issuer'[d] = issuer[d]
    BY <2>1 DEF TypeOK
  <2>9. OneLiveCodePerHandler'
    <3> SUFFICES ASSUME NEW q \in Phones, NEW u \in Purposes, NEW d \in Unused(q, u)',
                        NEW e \in Unused(q, u)', issuer'[d] = issuer'[e]
                 PROVE  d = e
      BY DEF OneLiveCodePerHandler
    <3>1. /\ d \in Unused(q, u) /\ e \in Unused(q, u) /\ d # c /\ e # c
          /\ d \in Codes /\ e \in Codes
      BY <2>6 DEF Unused
    <3> QED
      BY <2>8, <3>1 DEF OneLiveCodePerHandler
  <2>10. IssuersMarkTheirOwn'
    <3>1. \A d \in Codes : \A q \in Requests : issuer'[d] = {q} => issuer[d] = {q}
      BY <2>1, <2>2 DEF TypeOK
    <3> QED
      BY <2>1, <2>4, <2>6, <3>1, OthersMarkTheirOwn
  <2>11. ChecksHoldTheirCode'
    BY <2>1, <2>2, <2>3, <2>4, OthersKeepTheirState
  <2>12. GrantedByRegisteredNumber'
    BY <2>1, <2>3, GrantsKept
  <2> QED
    BY <2>5, <2>7, <2>9, <2>10, <2>11, <2>12
<1>8. ASSUME NEW r \in Requests, Verify(r) \/ SetPassword(r) PROVE AccountsInv'
  <2>1. PICK a \in Live :
           /\ a = call[r].phone /\ a \in Phones
           /\ \/ /\ call[r].job = "verify" /\ account' = [account EXCEPT ![a].verified = TRUE]
                 /\ proof' = [proof EXCEPT ![a] = call[r].record]
              \/ /\ call[r].job = "reset" /\ proof' = proof
                 /\ account' = [account EXCEPT ![a].password = call[r].record]
    BY <1>8 DEF Verify, SetPassword, Holder, Live, observed
  <2>2. /\ At(r, "grant") /\ call' = [call EXCEPT ![r] = Idle]
        /\ UNCHANGED <<code, issued, uses, wrong, issuer>>
    BY <1>8 DEF Verify, SetPassword, Hold, observed
  <2>3. /\ call[r].record \in Codes /\ code[call[r].record].used
        /\ code[call[r].record].phone = a
        /\ code[call[r].record].purpose = PurposeOf(call[r].job)
    <3>1. call[r].record \in 1 .. issued
      BY <2>2 DEF ChecksHoldTheirCode, At
    <3> QED
      BY <2>1, <2>2, <3>1, Bounds DEF ChecksHoldTheirCode, At, TypeOK, Codes
  <2>4. TypeOK'
    <3>1. Idle \in Call
      BY DEF Idle, Holding, Call, NoCode
    <3>2. account' \in [Phones -> Account] /\ proof' \in [Phones -> Codes \cup {NoCode}]
      <4> DEFINE n == call[r].record
      <4>1. account[a] \in Account
        BY <2>1 DEF TypeOK
      <4>2. [account[a] EXCEPT !.verified = TRUE] \in Account
        BY <4>1 DEF Account
      <4>3. [account[a] EXCEPT !.password = n] \in Account
        BY <2>3, <4>1 DEF Account
      <4>4. CASE call[r].job = "verify"
        BY <2>1, <2>3, <4>2, <4>4 DEF TypeOK
      <4>5. CASE call[r].job = "reset"
        BY <2>1, <2>3, <4>3, <4>5 DEF TypeOK
      <4> QED
        BY <2>1, <4>4, <4>5
    <3> QED
      BY <2>2, <3>1, <3>2 DEF TypeOK
  <2>5. CodesInOrder' /\ UnusedHasIssuer' /\ OneLiveCodePerHandler'
    BY <2>2 DEF CodesInOrder, UnusedHasIssuer, OneLiveCodePerHandler, Unused
  <2>6. \A q \in Phones, u \in Purposes : Unused(q, u)' = Unused(q, u)
    BY <2>2 DEF Unused
  <2>7. ChecksHoldTheirCode' /\ IssuersMarkTheirOwn'
    <3>1. Idle.pc # "issue"
      BY DEF Idle, Holding
    <3>2. ChecksHoldTheirCode'
      BY <2>2, OthersKeepTheirState
    <3>3. IssuersMarkTheirOwn'
      BY <2>2, <2>6, <3>1, OthersMarkTheirOwn
    <3> QED
      BY <3>2, <3>3
  <2>8. GrantedByRegisteredNumber'
    <3>1. /\ \A b \in Phones : account'[b].live = account[b].live
          /\ \A b \in Phones \ {a} : account'[b] = account[b] /\ proof'[b] = proof[b]
      BY <2>1 DEF TypeOK, Account
    <3>2. CASE call[r].job = "verify"
      <4>1. /\ account'[a].password = account[a].password /\ proof'[a] = call[r].record
        BY <2>1, <3>2 DEF TypeOK, Account
      <4> QED
        BY <2>1, <2>2, <2>3, <3>1, <3>2, <4>1, Bounds DEF GrantedByRegisteredNumber, Live, PurposeOf
    <3>3. CASE call[r].job = "reset"
      <4>1. /\ account'[a].verified = account[a].verified /\ proof'[a] = proof[a]
            /\ account'[a].password = call[r].record
        BY <2>1, <3>3 DEF TypeOK, Account
      <4> QED
        BY <2>1, <2>2, <2>3, <3>1, <3>3, <4>1, Bounds DEF GrantedByRegisteredNumber, Live, PurposeOf
    <3> QED
      BY <2>1, <3>2, <3>3
  <2> QED
    BY <2>4, <2>5, <2>7, <2>8
<1>9. ASSUME NEW a \in Live,
             DeleteAccount(a) \/ \E p \in NewPhones : UpdateProfile(a, p)
      PROVE  AccountsInv'
  <2>1. UNCHANGED <<code, issued, call, uses, wrong, issuer>>
    BY <1>9 DEF DeleteAccount, UpdateProfile, observed
  <2>2. CodesInOrder' /\ UnusedHasIssuer' /\ OneLiveCodePerHandler'
    BY <2>1 DEF CodesInOrder, UnusedHasIssuer, OneLiveCodePerHandler, Unused
  <2>3. ChecksHoldTheirCode' /\ IssuersMarkTheirOwn'
    BY <2>1 DEF ChecksHoldTheirCode, IssuersMarkTheirOwn, At, Unused
  <2>4. CASE DeleteAccount(a)
    <3>1. TypeOK'
      BY <2>1, <2>4 DEF DeleteAccount, TypeOK, NoAccount, Account, NoCode, Live
    <3>2. GrantedByRegisteredNumber'
      BY <2>1, <2>4 DEF DeleteAccount, GrantedByRegisteredNumber, Live, NoAccount, TypeOK
    <3> QED
      BY <2>2, <2>3, <3>1, <3>2
  <2>5. ASSUME NEW p \in NewPhones, UpdateProfile(a, p) PROVE AccountsInv'
    <3>1. account' = [account EXCEPT ![a].phone = p] /\ proof' = proof /\ a \in Phones
      BY <2>5 DEF UpdateProfile, observed, Live
    <3>2. TypeOK'
      BY <2>1, <3>1 DEF TypeOK, Account
    <3>3. \A b \in Phones : /\ account'[b].live = account[b].live
                            /\ account'[b].verified = account[b].verified
                            /\ account'[b].password = account[b].password
      BY <3>1 DEF TypeOK, Account
    <3>4. GrantedByRegisteredNumber'
      BY <2>1, <3>1, <3>3 DEF GrantedByRegisteredNumber, Live
    <3> QED
      BY <2>2, <2>3, <3>2, <3>4
  <2> QED
    BY <1>9, <2>4, <2>5
<1>10. CASE UNCHANGED vars
  BY <1>10 DEF vars, TypeOK, CodesInOrder, ChecksHoldTheirCode, IssuersMarkTheirOwn,
      UnusedHasIssuer, OneLiveCodePerHandler, GrantedByRegisteredNumber, At, Unused, Live
<1>11. ASSUME NEW r \in Requests, Refuse(r) \/ Fail(r) PROVE AccountsInv'
  BY <1>11, HandlerEnds DEF Refuse, Fail
<1>12. ASSUME NEW a \in Phones, DeleteAccount(a) \/ \E p \in NewPhones : UpdateProfile(a, p)
       PROVE  AccountsInv'
  BY <1>9, <1>12 DEF DeleteAccount, UpdateProfile
<1> QED
  BY <1>1, <1>2, <1>3, <1>4, <1>5, <1>6, <1>7, <1>8, <1>10, <1>11, <1>12 DEF Next, Handle

-----------------------------------------------------------------------------

THEOREM AccountsInvariant == Spec => []AccountsInv
<1>1. Init => AccountsInv
  BY AccountsInit
<1> QED
  BY <1>1, AccountsStep, PTL DEF Spec

\* Type correctness: every value the handlers and the routes store.
THEOREM AccountsTypes == Spec => []TypeOK
<1>1. AccountsInv => TypeOK
  BY DEF AccountsInv
<1> QED
  BY <1>1, AccountsInvariant, PTL

\* However many handlers ask for codes of a number at once, fail or follow one
\* another, one handler never leaves two codes good for one purpose: what
\* store_otp invalidates and issues belongs together.
THEOREM OneLiveCode == Spec => []OneLiveCodePerHandler
<1>1. AccountsInv => OneLiveCodePerHandler
  BY DEF AccountsInv
<1> QED
  BY <1>1, AccountsInvariant, PTL

\* verify_phone_otp and reset_password grant to the account registered with a number
\* what a spent code sent to that number for that purpose allows, whatever became
\* of the account meanwhile.  The number a profile was given since is not asked.
THEOREM GrantsNeedTheirCode == Spec => []GrantedByRegisteredNumber
<1>1. AccountsInv => GrantedByRegisteredNumber
  BY DEF AccountsInv
<1> QED
  BY <1>1, AccountsInvariant, PTL

\* Where codes change, handlers only take right codes that were never accepted.
LEMMA NewSpenders ==
  ASSUME AccountsInv, [Next]_vars, NEW c \in Codes
  PROVE  \/ uses'[c] = uses[c] /\ Spenders(c)' \subseteq Spenders(c)
         \/ uses'[c] = uses[c] /\ uses[c] = 0
         \/ \E r \in Spenders(c) : /\ uses'[c] = uses[c] + 1
                                   /\ Spenders(c)' \subseteq Spenders(c) \ {r}
<1> USE DEF AccountsInv
<1>1. ASSUME NEW r \in Requests, NEW local, call' = [call EXCEPT ![r] = local],
             uses' = uses, local.pc # "spend"
      PROVE  uses'[c] = uses[c] /\ Spenders(c)' \subseteq Spenders(c)
  BY <1>1 DEF TypeOK, Spenders, At
<1>2. ASSUME NEW r \in Requests, NEW p \in Phones,
             StartRegister(r, p) \/ \E job \in Jobs : StartResend(r, job, p)
      PROVE  uses'[c] = uses[c] /\ Spenders(c)' \subseteq Spenders(c)
  <2>1. ASSUME NEW local, Hold(r, local), observed' = observed, local.pc # "spend"
        PROVE  uses'[c] = uses[c] /\ Spenders(c)' \subseteq Spenders(c)
    BY <1>1, <2>1 DEF Hold, observed
  <2>2. CASE StartRegister(r, p)
    <3>1. [Holding("issue", "register", p, NoCode, 0)
             EXCEPT !.marked = Unused(p, "phone_verification")].pc # "spend"
      BY DEF Holding
    <3> QED
      BY <2>1, <2>2, <3>1 DEF StartRegister, Begin
  <2>3. ASSUME NEW job \in Jobs, StartResend(r, job, p)
        PROVE  uses'[c] = uses[c] /\ Spenders(c)' \subseteq Spenders(c)
    <3>1. Holding("invalidate", job, p, NoCode, 0).pc # "spend"
      BY DEF Holding
    <3> QED
      BY <2>1, <2>3, <3>1 DEF StartResend, Begin
  <2> QED
    BY <1>2, <2>2, <2>3
<1>3. ASSUME NEW r \in Requests, NEW p \in Phones, NEW job \in Jobs, NEW d \in Codes,
             NEW right \in BOOLEAN, StartCheck(r, job, p, d, right)
      PROVE  /\ uses'[c] = uses[c]
             /\ Spenders(c)' \subseteq Spenders(c) \/ uses[c] = 0
  <2> DEFINE local == Holding(IF right THEN "spend" ELSE "reject", job, p, d, code[d].attempts)
  <2>1. /\ call' = [call EXCEPT ![r] = local] /\ uses' = uses /\ ~ code[d].used
    BY <1>3 DEF StartCheck, Begin, Hold, Latest, Unused, observed
  <2>2. local.record = d
    BY DEF Holding
  <2> HIDE DEF local
  <2>3. CASE c = d
    BY <2>1, <2>3 DEF CodesInOrder
  <2>4. CASE c # d
    BY <2>1, <2>2, <2>4 DEF TypeOK, Spenders, At
  <2> QED
    BY <2>1, <2>3, <2>4
<1>4. ASSUME NEW r \in Requests, Handle(r), ~ Spend(r)
      PROVE  uses'[c] = uses[c] /\ Spenders(c)' \subseteq Spenders(c)
  <2>1. /\ uses' = uses
        /\ \/ call' = [call EXCEPT ![r] = Idle]
           \/ call' = [call EXCEPT ![r] = [call[r] EXCEPT !.pc = "issue",
                         !.marked = Unused(call[r].phone, PurposeOf(call[r].job))]]
    BY <1>4 DEF Handle, Invalidate, IssueCode, Reject, Verify, SetPassword, Refuse, Fail, Hold,
        observed
  <2>2. /\ Idle.pc # "spend"
        /\ [call[r] EXCEPT !.pc = "issue",
              !.marked = Unused(call[r].phone, PurposeOf(call[r].job))].pc # "spend"
    BY DEF Idle, Holding, TypeOK, Call
  <2> QED
    BY <1>1, <2>1, <2>2
<1>5. ASSUME NEW r \in Requests, Spend(r)
      PROVE  \/ uses'[c] = uses[c] /\ Spenders(c)' \subseteq Spenders(c)
             \/ r \in Spenders(c) /\ uses'[c] = uses[c] + 1
                  /\ Spenders(c)' \subseteq Spenders(c) \ {r}
  <2>1. /\ At(r, "spend") /\ uses' = [uses EXCEPT ![call[r].record] = @ + 1]
        /\ call' = [call EXCEPT ![r] = [call[r] EXCEPT !.pc = "grant"]]
    BY <1>5 DEF Spend, Hold
  <2>2. [call[r] EXCEPT !.pc = "grant"].pc = "grant"
    BY DEF TypeOK, Call
  <2>3. CASE call[r].record = c
    BY <2>1, <2>2, <2>3 DEF TypeOK, Spenders, At
  <2>4. CASE call[r].record # c
    BY <2>1, <2>2, <2>4 DEF TypeOK, Spenders, At
  <2> QED
    BY <2>3, <2>4
<1>6. ASSUME NEW a \in Phones, DeleteAccount(a) \/ \E p \in NewPhones : UpdateProfile(a, p)
      PROVE  uses'[c] = uses[c] /\ Spenders(c)' \subseteq Spenders(c)
  BY <1>6 DEF DeleteAccount, UpdateProfile, observed, Spenders, At
<1>7. CASE UNCHANGED vars
  BY <1>7 DEF vars, Spenders, At
<1> QED
  BY <1>2, <1>3, <1>4, <1>5, <1>6, <1>7 DEF Next

LEMMA AcceptancesStep == AccountsInv /\ AcceptancesCounted /\ [Next]_vars => AcceptancesCounted'
<1> SUFFICES ASSUME AccountsInv, AcceptancesCounted, [Next]_vars, NEW c \in Codes
             PROVE  uses'[c] + Cardinality(Spenders(c)') <= Cardinality(Requests)
  BY DEF AcceptancesCounted
<1>1. /\ uses[c] \in Nat /\ uses[c] + Cardinality(Spenders(c)) <= Cardinality(Requests)
  BY DEF AccountsInv, TypeOK, AcceptancesCounted
<1>2. /\ IsFiniteSet(Spenders(c)) /\ Cardinality(Spenders(c)) \in Nat
      /\ Cardinality(Requests) \in Nat
  BY FS_Subset, FS_CardinalityType, AccountsAssumption DEF Spenders
<1>3. /\ IsFiniteSet(Spenders(c)') /\ Cardinality(Spenders(c)') \in Nat
      /\ Cardinality(Spenders(c)') <= Cardinality(Requests)
  <2>1. Spenders(c)' \subseteq Requests
    BY DEF Spenders
  <2> QED
    BY <2>1, FS_Subset, FS_CardinalityType, AccountsAssumption
<1>4. CASE uses'[c] = uses[c] /\ Spenders(c)' \subseteq Spenders(c)
  <2>1. Cardinality(Spenders(c)') <= Cardinality(Spenders(c))
    BY <1>2, <1>4, FS_Subset
  <2> QED
    BY <1>1, <1>2, <1>3, <1>4, <2>1
<1>5. CASE uses'[c] = uses[c] /\ uses[c] = 0
  BY <1>3, <1>5
<1>6. ASSUME NEW r \in Spenders(c), uses'[c] = uses[c] + 1,
             Spenders(c)' \subseteq Spenders(c) \ {r}
      PROVE  uses'[c] + Cardinality(Spenders(c)') <= Cardinality(Requests)
  <2>1. /\ IsFiniteSet(Spenders(c) \ {r})
        /\ Cardinality(Spenders(c) \ {r}) = Cardinality(Spenders(c)) - 1
    BY <1>2, <1>6, FS_RemoveElement
  <2>2. Cardinality(Spenders(c)') <= Cardinality(Spenders(c) \ {r})
    BY <1>6, <2>1, FS_Subset
  <2> QED
    BY <1>1, <1>2, <1>3, <1>6, <2>1, <2>2
<1> QED
  BY <1>4, <1>5, <1>6, NewSpenders

\* A code of otp_records is accepted at most once by every handler that may run
\* at the same time, over all calls there ever are.
THEOREM AcceptancesBounded == Spec => []AcceptedOncePerHandler
<1>1. Init => AccountsInv /\ AcceptancesCounted
  BY AccountsInit
<1>2. AccountsInv /\ AcceptancesCounted => AcceptedOncePerHandler
  <2> SUFFICES ASSUME AccountsInv, AcceptancesCounted, NEW c \in Codes
               PROVE  uses[c] <= Cardinality(Requests)
    BY DEF AcceptedOncePerHandler
  <2>1. uses[c] \in Nat /\ uses[c] + Cardinality(Spenders(c)) <= Cardinality(Requests)
    BY DEF AccountsInv, TypeOK, AcceptancesCounted
  <2>2. Cardinality(Spenders(c)) \in Nat /\ Cardinality(Requests) \in Nat
    BY FS_Subset, FS_CardinalityType, AccountsAssumption DEF Spenders
  <2> QED
    BY <2>1, <2>2
<1>3. AccountsInv /\ AcceptancesCounted /\ [Next]_vars => (AccountsInv /\ AcceptancesCounted)'
  BY AccountsStep, AcceptancesStep
<1> QED
  BY <1>1, <1>2, <1>3, PTL DEF Spec

\* A code once used, replaced or spent, is not written back as unused by
\* verify_otp's late count of an attempt, nor by anything else.
THEOREM SpentCodesStay == Spec => SpentStaysSpent
<1> DEFINE Kept == \A c \in Codes : code[c].used => code'[c].used
<1>1. ASSUME AccountsInv, [Next]_vars PROVE Kept
  <2> USE <1>1 DEF AccountsInv
  <2> SUFFICES ASSUME NEW c \in Codes, code[c].used PROVE code'[c].used
    OBVIOUS
  <2>1. ASSUME NEW r \in Requests, NEW p \in Phones,
               \/ StartRegister(r, p)
               \/ \E job \in Jobs : StartResend(r, job, p)
               \/ \E job \in Jobs, d \in Codes, right \in BOOLEAN :
                     StartCheck(r, job, p, d, right)
        PROVE  code'[c].used
    BY <2>1 DEF StartRegister, StartResend, StartCheck, Begin
  <2>2. ASSUME NEW r \in Requests, IssueCode(r) PROVE code'[c].used
    <3>1. c # issued + 1
      <4>1. issued \in Nat
        BY Bounds DEF TypeOK
      <4> QED
        BY <4>1 DEF CodesInOrder
    <3>2. code'[c] = [code[c] EXCEPT !.used = @ \/ c \in call[r].marked]
      BY <2>2, <3>1 DEF IssueCode
    <3> QED
      BY <3>2 DEF TypeOK, Code
  <2>3. ASSUME NEW r \in Requests, Reject(r) PROVE code'[c].used
    BY <2>3 DEF Reject, TypeOK, Code
  <2>4. ASSUME NEW r \in Requests, Spend(r) PROVE code'[c].used
    BY <2>4 DEF Spend, TypeOK, Code
  <2>5. ASSUME NEW r \in Requests,
               Invalidate(r) \/ Verify(r) \/ SetPassword(r) \/ Refuse(r) \/ Fail(r)
        PROVE  code'[c].used
    BY <2>5 DEF Invalidate, Verify, SetPassword, Refuse, Fail
  <2>6. ASSUME NEW a \in Phones, DeleteAccount(a) \/ \E p \in NewPhones : UpdateProfile(a, p)
        PROVE  code'[c].used
    BY <2>6 DEF DeleteAccount, UpdateProfile
  <2>7. CASE UNCHANGED vars
    BY <2>7 DEF vars
  <2> QED
    BY <2>1, <2>2, <2>3, <2>4, <2>5, <2>6, <2>7 DEF Next, Handle
<1>2. AccountsInv /\ [Next]_vars => [Kept]_vars
  BY <1>1
<1> QED
  BY <1>2, AccountsInvariant, PTL DEF SpentStaysSpent, Spec

-----------------------------------------------------------------------------
(* The wrong guesses of a code, for any number of handlers                 *)

\* The count a handler may make the next guess from: a slow one goes on from
\* what it read, any other from what is in the table.
Level(c, r) ==
    IF At(r, "reject") /\ call[r].record = c /\ call[r].tries < code[c].attempts
      THEN call[r].tries ELSE code[c].attempts

\* The limits that matter, and how the handlers are spread over the counts.
Counts == 0 .. MaxAttempts - 1
AtOrBelow(c, i) == {r \in Requests : Level(c, r) <= i}
Spread(c) == [i \in Counts |-> Cardinality(AtOrBelow(c, i))]

\* A spread is behind another when fewer stand low in the other one, at the
\* first count where they differ.
Before(g, f) == \E j \in Counts : f[j] < g[j] /\ \A i \in 0 .. j - 1 : f[i] <= g[i]
Behind(f) == {g \in Spreads : Before(g, f)}

\* There were no more wrong guesses than there are spreads to leave behind.
GuessesCounted == \A c \in Codes : wrong[c] <= Cardinality(Behind(Spread(c)))

LEMMA SpreadsFinite == IsFiniteSet(Spreads)
<1> DEFINE n == Cardinality(Requests)
           Pairs == Counts \X (0 .. n)
           graph == [f \in Spreads |-> {x \in Pairs : x[2] = f[x[1]]}]
<1>1. IsFiniteSet(SUBSET Pairs)
  <2>1. n \in Nat /\ MaxAttempts \in Nat
    BY FS_CardinalityType, AccountsAssumption
  <2>2. IsFiniteSet(Counts) /\ IsFiniteSet(0 .. n)
    BY <2>1, FS_Interval DEF Counts
  <2> QED
    BY <2>2, FS_Product, FS_SUBSET
<1>2. graph \in [Spreads -> SUBSET Pairs]
  OBVIOUS
<1>3. ASSUME NEW f \in Spreads, NEW g \in Spreads, graph[f] = graph[g] PROVE f = g
  <2>1. f \in [Counts -> 0 .. n] /\ g \in [Counts -> 0 .. n]
    BY DEF Spreads, Counts
  <2>2. ASSUME NEW i \in Counts PROVE f[i] = g[i]
    <3>1. <<i, f[i]>> \in graph[f]
      BY <2>1
    <3>2. <<i, f[i]>> \in graph[g]
      BY <1>3, <3>1
    <3> QED
      BY <3>2
  <2> QED
    BY <2>1, <2>2
<1>4. graph \in Injection(Spreads, SUBSET Pairs)
  BY <1>2, <1>3 DEF Injection, IsInjective
<1> QED
  BY <1>1, <1>4, FS_Injection

\* The spread of a code is one of those counted.
LEMMA SpreadIsOne ==
  ASSUME AccountsInv, NEW c \in Codes
  PROVE  Spread(c) \in Spreads
<1> DEFINE n == Cardinality(Requests)
<1>1. ASSUME NEW i \in Counts
      PROVE  Cardinality(AtOrBelow(c, i)) \in 0 .. n
  <2>1. AtOrBelow(c, i) \subseteq Requests
    BY DEF AtOrBelow
  <2> QED
    BY <2>1, FS_Subset, FS_CardinalityType, AccountsAssumption
<1>2. ASSUME NEW i \in Counts, NEW j \in Counts, i <= j
      PROVE  Cardinality(AtOrBelow(c, i)) <= Cardinality(AtOrBelow(c, j))
  <2>1. ASSUME NEW r \in Requests PROVE Level(c, r) \in Nat
    BY Bounds DEF AccountsInv, TypeOK, Call, Code, Level
  <2>2. AtOrBelow(c, i) \subseteq AtOrBelow(c, j)
    BY <1>2, <2>1, Bounds DEF AtOrBelow, Counts
  <2>3. IsFiniteSet(AtOrBelow(c, j))
    BY FS_Subset, AccountsAssumption DEF AtOrBelow
  <2> QED
    BY <2>2, <2>3, FS_Subset
<1>3. Spread(c) \in [Counts -> 0 .. n]
  BY <1>1 DEF Spread
<1> QED
  BY <1>2, <1>3 DEF Spread, Spreads, Counts

LEMMA SpreadsStayCounted ==
  AccountsInv' => \A c \in Codes : Spread(c)' \in Spreads
<1>1. AccountsInv => \A c \in Codes : Spread(c) \in Spreads
  BY SpreadIsOne
<1>2. AccountsInv' => (\A c \in Codes : Spread(c) \in Spreads)'
  BY <1>1, PTL
<1> QED
  BY <1>2 DEF Codes, Spreads

\* Handlers that move up leave no fewer spreads behind.
LEMMA BehindGrows ==
  ASSUME NEW f \in Spreads, NEW h \in Spreads, \A i \in Counts : h[i] <= f[i]
  PROVE  Behind(f) \subseteq Behind(h)
<1>1. ASSUME NEW g \in Spreads, Before(g, f) PROVE Before(g, h)
  <2>1. PICK j \in Counts : f[j] < g[j] /\ \A i \in 0 .. j - 1 : f[i] <= g[i]
    BY <1>1 DEF Before
  <2>2. ASSUME NEW i \in Counts
        PROVE  f[i] \in Nat /\ g[i] \in Nat /\ h[i] \in Nat /\ h[i] <= f[i]
    BY FS_CardinalityType, AccountsAssumption DEF Spreads, Counts
  <2>3. h[j] < g[j]
    BY <2>1, <2>2
  <2>4. ASSUME NEW i \in 0 .. j - 1 PROVE h[i] <= g[i]
    <3>1. i \in Counts /\ f[i] <= g[i]
      BY <2>1, Bounds DEF Counts
    <3> QED
      BY <2>2, <3>1
  <2> QED
    BY <2>3, <2>4 DEF Before
<1> QED
  BY <1>1 DEF Behind

\* One that leaves a count where nobody moved down below leaves its spread
\* behind as well.
LEMMA OneMoreBehind ==
  ASSUME NEW f \in Spreads, NEW h \in Spreads, NEW k \in Counts, h[k] < f[k],
         \A i \in 0 .. k - 1 : h[i] <= f[i]
  PROVE  Behind(f) \cup {f} \subseteq Behind(h) /\ f \notin Behind(f)
<1>1. ASSUME NEW s \in Spreads, NEW i \in Counts PROVE s[i] \in Nat
  BY FS_CardinalityType, AccountsAssumption DEF Spreads, Counts
<1>2. ASSUME NEW g \in Spreads, Before(g, f) PROVE Before(g, h)
  <2>1. PICK j \in Counts : f[j] < g[j] /\ \A i \in 0 .. j - 1 : f[i] <= g[i]
    BY <1>2 DEF Before
  <2>2. \A i \in Counts : f[i] \in Nat /\ g[i] \in Nat /\ h[i] \in Nat
    BY <1>1
  <2>3. MaxAttempts \in Nat /\ j \in Nat /\ k \in Nat
    BY Bounds DEF Counts
  <2>4. CASE j < k
    <3>1. h[j] <= f[j] /\ \A i \in 0 .. j - 1 : i \in Counts /\ h[i] <= f[i] /\ f[i] <= g[i]
      BY <2>1, <2>3, <2>4 DEF Counts
    <3>2. h[j] < g[j] /\ \A i \in 0 .. j - 1 : h[i] <= g[i]
      BY <2>1, <2>2, <3>1
    <3> QED
      BY <3>2 DEF Before
  <2>5. CASE k <= j
    <3>1. f[k] <= g[k]
      BY <2>1, <2>2, <2>3, <2>5
    <3>2. \A i \in 0 .. k - 1 : i \in Counts /\ h[i] <= f[i] /\ f[i] <= g[i]
      BY <2>1, <2>3, <2>5 DEF Counts
    <3>3. h[k] < g[k] /\ \A i \in 0 .. k - 1 : h[i] <= g[i]
      BY <2>2, <3>1, <3>2
    <3> QED
      BY <3>3 DEF Before
  <2> QED
    BY <2>3, <2>4, <2>5
<1>3. Before(f, h)
  BY DEF Before
<1>4. ~ Before(f, f)
  BY <1>1 DEF Before
<1> QED
  BY <1>2, <1>3, <1>4 DEF Behind

\* A code has no attempts before it is issued.
FreshUncounted == \A c \in Codes : c > issued => code[c].attempts = 0

LEMMA FreshStep == AccountsInv /\ FreshUncounted /\ [Next]_vars => FreshUncounted'
<1> SUFFICES ASSUME AccountsInv, FreshUncounted, [Next]_vars, NEW c \in Codes, c > issued'
             PROVE  code'[c].attempts = 0
  BY DEF FreshUncounted
<1> USE DEF AccountsInv
<1>1. /\ issued \in Nat /\ c \in Nat /\ code[c] \in Code
      /\ \A d \in Codes : code[d] \in Code
  BY Bounds DEF TypeOK
<1>2. CASE issued' = issued /\ code' = code
  BY <1>2 DEF FreshUncounted
<1>3. ASSUME NEW r \in Requests, IssueCode(r) PROVE code'[c].attempts = 0
  <2>1. c # issued + 1 /\ c > issued
    BY <1>1, <1>3 DEF IssueCode
  <2>2. code'[c] = [code[c] EXCEPT !.used = @ \/ c \in call[r].marked]
    BY <1>3, <2>1 DEF IssueCode
  <2> QED
    BY <1>1, <2>1, <2>2 DEF FreshUncounted, Code
<1>4. ASSUME NEW r \in Requests, Reject(r) \/ Spend(r) PROVE code'[c].attempts = 0
  <2>1. call[r].record \in 1 .. issued /\ issued' = issued
    BY <1>4 DEF Reject, Spend, ChecksHoldTheirCode, At
  <2>2. c # call[r].record /\ c > issued
    BY <1>1, <2>1
  <2>3. code'[c] = code[c]
    BY <1>4, <2>2 DEF Reject, Spend, TypeOK
  <2> QED
    BY <2>2, <2>3 DEF FreshUncounted
<1>5. ASSUME NEW r \in Requests, Handle(r), ~ (IssueCode(r) \/ Reject(r) \/ Spend(r))
      PROVE  issued' = issued /\ code' = code
  BY <1>5 DEF Handle, Invalidate, Verify, SetPassword, Refuse, Fail
<1>6. ASSUME NEW r \in Requests, NEW p \in Phones,
             \/ StartRegister(r, p)
             \/ \E job \in Jobs : StartResend(r, job, p)
             \/ \E job \in Jobs, d \in Codes, right \in BOOLEAN :
                   StartCheck(r, job, p, d, right)
      PROVE  issued' = issued /\ code' = code
  BY <1>6 DEF StartRegister, StartResend, StartCheck, Begin
<1>7. ASSUME NEW a \in Phones, DeleteAccount(a) \/ \E p \in NewPhones : UpdateProfile(a, p)
      PROVE  issued' = issued /\ code' = code
  BY <1>7 DEF DeleteAccount, UpdateProfile
<1>8. CASE UNCHANGED vars
  BY <1>2, <1>8 DEF vars
<1> QED
  BY <1>2, <1>3, <1>4, <1>5, <1>6, <1>7, <1>8 DEF Next

\* A handler that does not go on to reject, or only now read the count, lets
\* nobody down.
LEMMA LevelsHold ==
  ASSUME AccountsInv, NEW c \in Codes, NEW r \in Requests, NEW local,
         call' = [call EXCEPT ![r] = local], code'[c].attempts = code[c].attempts,
         local.pc = "reject" /\ local.record = c => ~ (local.tries < code[c].attempts),
         NEW i \in Counts
  PROVE  AtOrBelow(c, i)' \subseteq AtOrBelow(c, i)
<1>1. ASSUME NEW q \in Requests PROVE Level(c, q) \in Nat /\ Level(c, q) <= code[c].attempts
  BY Bounds DEF AccountsInv, TypeOK, Call, Code, Level
<1>2. ASSUME NEW q \in Requests PROVE Level(c, q)' = Level(c, q) \/ Level(c, q)' = code[c].attempts
  <2>1. CASE q = r
    BY <2>1 DEF AccountsInv, TypeOK, Level, At
  <2>2. CASE q # r
    BY <2>2 DEF AccountsInv, TypeOK, Level, At
  <2> QED
    BY <2>1, <2>2
<1>3. code[c].attempts \in Nat /\ i \in Nat
  BY Bounds DEF AccountsInv, TypeOK, Code, Counts
<1> QED
  BY <1>1, <1>2, <1>3 DEF AtOrBelow

\* A rejected guess leaves the count its handler stood at, and nobody comes
\* down to that count or below.
LEMMA LevelsRise ==
  ASSUME AccountsInv, NEW r \in Requests, Reject(r), NEW c \in Codes, c = call[r].record
  PROVE  \E k \in Counts :
            /\ r \in AtOrBelow(c, k) /\ r \notin AtOrBelow(c, k)'
            /\ \A i \in 0 .. k : AtOrBelow(c, i)' \subseteq AtOrBelow(c, i)
<1> DEFINE v == code[c].attempts
<1>1. /\ At(r, "reject") /\ call' = [call EXCEPT ![r] = Idle]
      /\ code' = [code EXCEPT ![c].attempts = call[r].tries + 1]
  BY DEF Reject, Hold
<1>2. call[r].tries \in Nat /\ call[r].tries < MaxAttempts /\ v \in Nat /\ MaxAttempts \in Nat
  BY <1>1, Bounds DEF AccountsInv, TypeOK, Call, Code, ChecksHoldTheirCode
<1>3. code'[c].attempts = call[r].tries + 1
  BY <1>1 DEF AccountsInv, TypeOK, Code
<1>4. PICK k : k = Level(c, r) /\ k = IF call[r].tries < v THEN call[r].tries ELSE v
  BY <1>1 DEF Level
<1>5. k \in Nat /\ k <= call[r].tries /\ k <= v /\ k < MaxAttempts
  BY <1>2, <1>4
<1>6. Level(c, r)' = call[r].tries + 1
  BY <1>1, <1>3 DEF Level, At, Idle, Holding, AccountsInv, TypeOK
<1>7. ASSUME NEW q \in Requests, q # r, NEW i \in 0 .. k, Level(c, q)' <= i
      PROVE  Level(c, q) <= i
  <2>1. call'[q] = call[q] /\ call[q].tries \in Nat
    BY <1>1, <1>7, Bounds DEF AccountsInv, TypeOK, Call
  <2>2. Level(c, q)' = IF call[q].pc = "reject" /\ call[q].record = c
                            /\ call[q].tries < call[r].tries + 1
                         THEN call[q].tries ELSE call[r].tries + 1
    BY <1>3, <2>1 DEF Level, At
  <2>3. call[q].pc = "reject" /\ call[q].record = c /\ call[q].tries <= i
    BY <1>2, <1>5, <1>7, <2>1, <2>2
  <2>4. Level(c, q) = IF call[q].tries < v THEN call[q].tries ELSE v
    BY <2>3 DEF Level, At
  <2> QED
    BY <1>2, <1>5, <2>1, <2>3, <2>4
<1>8. k \in Counts
  BY <1>2, <1>5 DEF Counts
<1>9. ASSUME NEW i \in 0 .. k PROVE r \notin AtOrBelow(c, i)'
  BY <1>2, <1>5, <1>6 DEF AtOrBelow
<1>10. r \in AtOrBelow(c, k) /\ r \notin AtOrBelow(c, k)'
  <2>1. Level(c, r) <= k
    BY <1>4, <1>5
  <2> QED
    BY <1>5, <1>9, <2>1 DEF AtOrBelow
<1>11. ASSUME NEW i \in 0 .. k PROVE AtOrBelow(c, i)' \subseteq AtOrBelow(c, i)
  BY <1>7, <1>9 DEF AtOrBelow
<1> QED
  BY <1>8, <1>10, <1>11

\* What a step does to the spread of a code.
LEMMA NewLevels ==
  ASSUME AccountsInv, FreshUncounted, [Next]_vars, NEW c \in Codes
  PROVE  \/ /\ wrong'[c] = wrong[c]
            /\ \A i \in Counts : AtOrBelow(c, i)' \subseteq AtOrBelow(c, i)
         \/ /\ wrong'[c] = wrong[c] + 1
            /\ \E k \in Counts : \E r \in AtOrBelow(c, k) :
                  /\ r \notin AtOrBelow(c, k)'
                  /\ \A i \in 0 .. k : AtOrBelow(c, i)' \subseteq AtOrBelow(c, i)
<1> USE DEF AccountsInv
<1> DEFINE Quiet == /\ wrong'[c] = wrong[c]
                    /\ \A i \in Counts : AtOrBelow(c, i)' \subseteq AtOrBelow(c, i)
<1>1. ASSUME NEW r \in Requests, NEW local, call' = [call EXCEPT ![r] = local],
             code'[c].attempts = code[c].attempts, wrong'[c] = wrong[c],
             local.pc = "reject" /\ local.record = c => ~ (local.tries < code[c].attempts)
      PROVE  Quiet
  BY <1>1, LevelsHold
<1>2. ASSUME NEW r \in Requests, NEW p \in Phones, StartRegister(r, p) PROVE Quiet
  <2> DEFINE local == [Holding("issue", "register", p, NoCode, 0)
                         EXCEPT !.marked = Unused(p, "phone_verification")]
  <2>1. local.pc # "reject"
    BY DEF Holding
  <2>2. call' = [call EXCEPT ![r] = local] /\ code' = code /\ wrong' = wrong
    BY <1>2 DEF StartRegister, Begin, Hold, observed
  <2> QED
    BY <1>1, <2>1, <2>2
<1>3. ASSUME NEW r \in Requests, NEW p \in Phones, NEW job \in Jobs, StartResend(r, job, p)
      PROVE  Quiet
  <2>1. Holding("invalidate", job, p, NoCode, 0).pc # "reject"
    BY DEF Holding
  <2>2. /\ call' = [call EXCEPT ![r] = Holding("invalidate", job, p, NoCode, 0)]
        /\ code' = code /\ wrong' = wrong
    BY <1>3 DEF StartResend, Begin, Hold, observed
  <2> QED
    BY <1>1, <2>1, <2>2
<1>4. ASSUME NEW r \in Requests, NEW p \in Phones, NEW job \in Jobs, NEW d \in Codes,
             NEW right \in BOOLEAN, StartCheck(r, job, p, d, right)
      PROVE  Quiet
  <2> DEFINE local == Holding(IF right THEN "spend" ELSE "reject", job, p, d, code[d].attempts)
  <2>1. local.record = d /\ local.tries = code[d].attempts /\ code[d].attempts \in Nat
    BY Bounds DEF Holding, TypeOK, Code
  <2>2. call' = [call EXCEPT ![r] = local] /\ code' = code /\ wrong' = wrong
    BY <1>4 DEF StartCheck, Begin, Hold, observed
  <2> HIDE DEF local
  <2>3. local.record = c => ~ (local.tries < code[c].attempts)
    BY <2>1
  <2> QED
    BY <1>1, <2>2, <2>3
<1>5. /\ Idle.pc # "reject"
      /\ \A r \in Requests :
            /\ [call[r] EXCEPT !.pc = "grant"].pc # "reject"
            /\ [call[r] EXCEPT !.pc = "issue",
                  !.marked = Unused(call[r].phone, PurposeOf(call[r].job))].pc # "reject"
  BY DEF Idle, Holding, TypeOK, Call
<1>6. ASSUME NEW r \in Requests, IssueCode(r) PROVE Quiet
  <2>1. call' = [call EXCEPT ![r] = Idle] /\ wrong' = wrong
    BY <1>6 DEF IssueCode, Hold
  <2>2. CASE c = issued + 1
    <3>1. code'[c].attempts = 0
      BY <1>6, <2>2 DEF IssueCode, NewCode
    <3>2. code[c].attempts = 0
      BY <2>2, Bounds DEF FreshUncounted, TypeOK
    <3> QED
      BY <1>1, <1>5, <2>1, <3>1, <3>2
  <2>3. CASE c # issued + 1
    <3>1. code'[c] = [code[c] EXCEPT !.used = @ \/ c \in call[r].marked]
      BY <1>6, <2>3 DEF IssueCode
    <3>2. code'[c].attempts = code[c].attempts
      BY <3>1 DEF TypeOK, Code
    <3> QED
      BY <1>1, <1>5, <2>1, <3>2
  <2> QED
    BY <2>2, <2>3
<1>7. ASSUME NEW r \in Requests, Spend(r) PROVE Quiet
  <2>1. /\ call' = [call EXCEPT ![r] = [call[r] EXCEPT !.pc = "grant"]] /\ wrong' = wrong
        /\ code' = [code EXCEPT ![call[r].record].used = TRUE]
    BY <1>7 DEF Spend, Hold
  <2>2. code'[c].attempts = code[c].attempts
    BY <2>1 DEF TypeOK, Code
  <2> QED
    BY <1>1, <1>5, <2>1, <2>2
<1>8. ASSUME NEW r \in Requests,
             Invalidate(r) \/ Verify(r) \/ SetPassword(r) \/ Refuse(r) \/ Fail(r)
      PROVE  Quiet
  <2>1. /\ code' = code /\ wrong' = wrong
        /\ \/ call' = [call EXCEPT ![r] = Idle]
           \/ call' = [call EXCEPT ![r] = [call[r] EXCEPT !.pc = "issue",
                         !.marked = Unused(call[r].phone, PurposeOf(call[r].job))]]
    BY <1>8 DEF Invalidate, Verify, SetPassword, Refuse, Fail, Hold, observed
  <2> QED
    BY <1>1, <1>5, <2>1
<1>9. ASSUME NEW r \in Requests, Reject(r), c # call[r].record PROVE Quiet
  <2>1. /\ call' = [call EXCEPT ![r] = Idle]
        /\ code' = [code EXCEPT ![call[r].record].attempts = call[r].tries + 1]
        /\ wrong' = [wrong EXCEPT ![call[r].record] = @ + 1]
    BY <1>9 DEF Reject, Hold
  <2>2. code'[c] = code[c] /\ wrong'[c] = wrong[c]
    BY <1>9, <2>1 DEF TypeOK
  <2> QED
    BY <1>1, <1>5, <2>1, <2>2
<1>10. ASSUME NEW r \in Requests, Reject(r), c = call[r].record
       PROVE  /\ wrong'[c] = wrong[c] + 1
              /\ \E k \in Counts : \E q \in AtOrBelow(c, k) :
                    /\ q \notin AtOrBelow(c, k)'
                    /\ \A i \in 0 .. k : AtOrBelow(c, i)' \subseteq AtOrBelow(c, i)
  <2>1. wrong'[c] = wrong[c] + 1
    BY <1>10 DEF Reject, TypeOK
  <2> QED
    BY <1>10, <2>1, LevelsRise
<1>11. ASSUME UNCHANGED <<call, code, wrong>> PROVE Quiet
  BY <1>11 DEF AtOrBelow, Level, At
<1>12. ASSUME NEW a \in Phones, DeleteAccount(a) \/ \E p \in NewPhones : UpdateProfile(a, p)
       PROVE  Quiet
  BY <1>11, <1>12 DEF DeleteAccount, UpdateProfile, observed
<1>13. ASSUME UNCHANGED vars PROVE Quiet
  BY <1>11, <1>13 DEF vars
<1> HIDE DEF Quiet
<1>14. ASSUME NEW r \in Requests, Handle(r)
       PROVE  Quiet \/ (Reject(r) /\ c = call[r].record)
  BY <1>6, <1>7, <1>8, <1>9, <1>14 DEF Handle
<1>15. Quiet \/ \E r \in Requests : Reject(r) /\ c = call[r].record
  <2>1. CASE Next
    <3>1. CASE \E r \in Requests, p \in Phones :
                 \/ StartRegister(r, p)
                 \/ \E job \in Jobs : StartResend(r, job, p)
                 \/ \E job \in Jobs, d \in Codes, right \in BOOLEAN :
                       StartCheck(r, job, p, d, right)
      BY <1>2, <1>3, <1>4, <3>1
    <3>2. CASE \E r \in Requests : Handle(r)
      BY <1>14, <3>2
    <3>3. CASE \E a \in Phones : DeleteAccount(a) \/ \E p \in NewPhones : UpdateProfile(a, p)
      BY <1>12, <3>3
    <3> QED
      BY <2>1, <3>1, <3>2, <3>3 DEF Next
  <2> QED
    BY <1>13, <2>1
<1> QED
  BY <1>10, <1>15 DEF Quiet

LEMMA GuessesStep ==
  AccountsInv /\ FreshUncounted /\ GuessesCounted /\ [Next]_vars => GuessesCounted'
<1> SUFFICES ASSUME AccountsInv, FreshUncounted, GuessesCounted, [Next]_vars, NEW c \in Codes
             PROVE  wrong'[c] <= Cardinality(Behind(Spread(c)'))
  BY DEF GuessesCounted, Behind, Before, Counts, Spreads
<1> DEFINE f == Spread(c)
           h == Spread(c)'
<1>1. f \in Spreads /\ h \in Spreads
  <2>1. AccountsInv'
    BY AccountsStep
  <2> QED
    BY <2>1, SpreadIsOne, SpreadsStayCounted
<1>2. /\ IsFiniteSet(Behind(f)) /\ IsFiniteSet(Behind(h))
      /\ Cardinality(Behind(f)) \in Nat /\ Cardinality(Behind(h)) \in Nat
  BY SpreadsFinite, FS_Subset, FS_CardinalityType DEF Behind
<1>3. /\ wrong[c] \in Nat /\ wrong[c] <= Cardinality(Behind(f))
  BY DEF AccountsInv, TypeOK, GuessesCounted
<1>4. ASSUME NEW i \in Counts
      PROVE  /\ f[i] = Cardinality(AtOrBelow(c, i)) /\ h[i] = Cardinality(AtOrBelow(c, i)')
             /\ IsFiniteSet(AtOrBelow(c, i))
             /\ AtOrBelow(c, i)' \subseteq AtOrBelow(c, i) => h[i] <= f[i]
  <2>1. f[i] = Cardinality(AtOrBelow(c, i)) /\ h[i] = Cardinality(AtOrBelow(c, i)')
    BY DEF Spread
  <2>2. IsFiniteSet(AtOrBelow(c, i))
    BY FS_Subset, AccountsAssumption DEF AtOrBelow
  <2> QED
    BY <2>1, <2>2, FS_Subset
<1> HIDE DEF f, h
<1>5. CASE /\ wrong'[c] = wrong[c]
           /\ \A i \in Counts : AtOrBelow(c, i)' \subseteq AtOrBelow(c, i)
  <2>1. Behind(f) \subseteq Behind(h)
    BY <1>1, <1>4, <1>5, BehindGrows
  <2>2. Cardinality(Behind(f)) <= Cardinality(Behind(h))
    BY <1>2, <2>1, FS_Subset
  <2> QED
    BY <1>2, <1>3, <1>5, <2>2 DEF h
<1>6. ASSUME wrong'[c] = wrong[c] + 1, NEW k \in Counts, NEW r \in AtOrBelow(c, k),
             r \notin AtOrBelow(c, k)',
             \A i \in 0 .. k : AtOrBelow(c, i)' \subseteq AtOrBelow(c, i)
      PROVE  wrong'[c] <= Cardinality(Behind(h))
  <2>1. k \in Nat /\ MaxAttempts \in Nat /\ \A i \in 0 .. k : i \in Counts
    BY Bounds DEF Counts
  <2>2. h[k] < f[k]
    <3>1. AtOrBelow(c, k)' \subseteq AtOrBelow(c, k) \ {r}
      BY <1>6, <2>1
    <3>2. /\ IsFiniteSet(AtOrBelow(c, k) \ {r})
          /\ Cardinality(AtOrBelow(c, k) \ {r}) = f[k] - 1
      BY <1>4, <1>6, FS_RemoveElement
    <3>3. h[k] <= f[k] - 1
      BY <1>4, <3>1, <3>2, FS_Subset
    <3>4. f[k] \in Nat /\ h[k] \in Nat
      BY <1>1, FS_CardinalityType, AccountsAssumption DEF Spreads, Counts
    <3> QED
      BY <3>3, <3>4
  <2>3. \A i \in 0 .. k - 1 : h[i] <= f[i]
    BY <1>4, <1>6, <2>1
  <2>4. Behind(f) \cup {f} \subseteq Behind(h) /\ f \notin Behind(f)
    BY <1>1, <2>2, <2>3, OneMoreBehind
  <2>5. Cardinality(Behind(f) \cup {f}) = Cardinality(Behind(f)) + 1
    BY <1>2, <2>4, FS_AddElement
  <2>6. Cardinality(Behind(f) \cup {f}) <= Cardinality(Behind(h))
    BY <1>2, <2>4, FS_Subset
  <2> QED
    BY <1>2, <1>3, <1>6, <2>5, <2>6
<1> QED
  BY <1>5, <1>6, NewLevels DEF h

\* However many handlers check guesses of one code at a time, read its attempts
\* before others write them, fail and start again, verify_otp answers fewer
\* guesses as wrong than there are ways to spread the handlers over the counts.
THEOREM FewGuesses == Spec => []GuessesBounded
<1>1. Init => FreshUncounted /\ GuessesCounted
  <2> SUFFICES ASSUME Init PROVE FreshUncounted /\ GuessesCounted
    OBVIOUS
  <2>1. FreshUncounted
    BY DEF Init, FreshUncounted, NotIssued, NewCode
  <2>2. ASSUME NEW c \in Codes PROVE wrong[c] <= Cardinality(Behind(Spread(c)))
    <3>1. Cardinality(Behind(Spread(c))) \in Nat
      BY SpreadsFinite, FS_Subset, FS_CardinalityType DEF Behind
    <3> QED
      BY <3>1 DEF Init
  <2> QED
    BY <2>1, <2>2 DEF GuessesCounted
<1>2. AccountsInv /\ GuessesCounted => GuessesBounded
  <2> SUFFICES ASSUME AccountsInv, GuessesCounted, NEW c \in Codes
               PROVE  wrong[c] < Cardinality(Spreads)
    BY DEF GuessesBounded
  <2>1. Spread(c) \in Spreads
    BY SpreadIsOne
  <2>2. Spread(c) \notin Behind(Spread(c))
    <3>1. \A i \in Counts : Spread(c)[i] \in Nat
      BY <2>1, FS_CardinalityType, AccountsAssumption DEF Spreads, Counts
    <3> QED
      BY <3>1 DEF Behind, Before
  <2>3. /\ IsFiniteSet(Behind(Spread(c))) /\ Cardinality(Behind(Spread(c))) \in Nat
        /\ Cardinality(Spreads) \in Nat
        /\ Cardinality(Behind(Spread(c))) <= Cardinality(Spreads)
        /\ Cardinality(Behind(Spread(c))) # Cardinality(Spreads)
    BY <2>1, <2>2, SpreadsFinite, FS_Subset, FS_CardinalityType DEF Behind
  <2>4. wrong[c] \in Nat /\ wrong[c] <= Cardinality(Behind(Spread(c)))
    BY DEF AccountsInv, TypeOK, GuessesCounted
  <2> QED
    BY <2>3, <2>4
<1>3. AccountsInv /\ FreshUncounted /\ GuessesCounted /\ [Next]_vars
        => (FreshUncounted /\ GuessesCounted)'
  BY FreshStep, GuessesStep
<1> QED
  BY <1>1, <1>2, <1>3, AccountsInvariant, PTL DEF Spec

-----------------------------------------------------------------------------
(* Handlers that come one at a time                                        *)

Lone == \A q, r \in Requests : q = r

\* What the one handler read is still in the table when it writes.
CountsAreCurrent ==
    /\ \A r \in Requests : At(r, "reject") => call[r].tries = code[call[r].record].attempts
    /\ \A c \in Codes : wrong[c] <= code[c].attempts

LEMMA CurrentStep ==
  ASSUME Lone
  PROVE  AccountsInv /\ FreshUncounted /\ CountsAreCurrent /\ [Next]_vars => CountsAreCurrent'
<1> SUFFICES ASSUME AccountsInv, FreshUncounted, CountsAreCurrent, [Next]_vars
             PROVE  CountsAreCurrent'
  OBVIOUS
<1> USE DEF AccountsInv
<1>1. ASSUME NEW c \in Codes
      PROVE  code[c].attempts \in Nat /\ wrong[c] \in Nat /\ wrong[c] <= code[c].attempts
  BY Bounds DEF TypeOK, Code, CountsAreCurrent
\* A step that leaves the counts alone, and after which the handler rejects
\* only what it has just read.
<1>2. ASSUME NEW r \in Requests, NEW local, call' = [call EXCEPT ![r] = local], wrong' = wrong,
             \A c \in Codes : code'[c].attempts = code[c].attempts,
             local.pc = "reject" => local.record \in Codes
                                      /\ local.tries = code[local.record].attempts
      PROVE  CountsAreCurrent'
  <2>1. call'[r] = local /\ \A q \in Requests : q = r
    BY <1>2 DEF TypeOK, Lone
  <2>2. \A q \in Requests : At(q, "reject")' =>
            call'[q].tries = code'[call'[q].record].attempts
    BY <1>2, <2>1 DEF At
  <2>3. \A c \in Codes : wrong'[c] <= code'[c].attempts
    BY <1>1, <1>2
  <2> QED
    BY <2>2, <2>3 DEF CountsAreCurrent, Codes
<1>3. ASSUME NEW r \in Requests, NEW p \in Phones, StartRegister(r, p)
      PROVE  CountsAreCurrent'
  <2>1. [Holding("issue", "register", p, NoCode, 0)
           EXCEPT !.marked = Unused(p, "phone_verification")].pc # "reject"
    BY DEF Holding
  <2> QED
    BY <1>2, <1>3, <2>1 DEF StartRegister, Begin, Hold, observed
<1>4. ASSUME NEW r \in Requests, NEW p \in Phones, NEW job \in Jobs, StartResend(r, job, p)
      PROVE  CountsAreCurrent'
  <2>1. Holding("invalidate", job, p, NoCode, 0).pc # "reject"
    BY DEF Holding
  <2> QED
    BY <1>2, <1>4, <2>1 DEF StartResend, Begin, Hold, observed
<1>5. ASSUME NEW r \in Requests, NEW p \in Phones, NEW job \in Jobs, NEW c \in Codes,
             NEW right \in BOOLEAN, StartCheck(r, job, p, c, right)
      PROVE  CountsAreCurrent'
  <2> DEFINE local == Holding(IF right THEN "spend" ELSE "reject", job, p, c, code[c].attempts)
  <2>1. local.record = c /\ local.tries = code[c].attempts
    BY DEF Holding
  <2>2. call' = [call EXCEPT ![r] = local] /\ code' = code /\ wrong' = wrong
    BY <1>5 DEF StartCheck, Begin, Hold, observed
  <2> HIDE DEF local
  <2> QED
    BY <1>2, <2>1, <2>2
<1>6. /\ Idle.pc # "reject"
      /\ \A r \in Requests :
            /\ [call[r] EXCEPT !.pc = "grant"].pc # "reject"
            /\ [call[r] EXCEPT !.pc = "issue",
                  !.marked = Unused(call[r].phone, PurposeOf(call[r].job))].pc # "reject"
  BY DEF Idle, Holding, TypeOK, Call
<1>7. ASSUME NEW r \in Requests, IssueCode(r) PROVE CountsAreCurrent'
  <2>1. ASSUME NEW c \in Codes PROVE code'[c].attempts = code[c].attempts
    <3>1. CASE c = issued + 1
      <4>1. code'[c].attempts = 0
        BY <1>7, <3>1 DEF IssueCode, NewCode
      <4>2. code[c].attempts = 0
        BY <3>1, Bounds DEF FreshUncounted, TypeOK
      <4> QED
        BY <4>1, <4>2
    <3>2. CASE c # issued + 1
      <4>1. code'[c] = [code[c] EXCEPT !.used = @ \/ c \in call[r].marked]
        BY <1>7, <3>2 DEF IssueCode
      <4> QED
        BY <4>1 DEF TypeOK, Code
    <3> QED
      BY <3>1, <3>2
  <2>2. call' = [call EXCEPT ![r] = Idle] /\ wrong' = wrong
    BY <1>7 DEF IssueCode, Hold
  <2> QED
    BY <1>2, <1>6, <2>1, <2>2
<1>8. ASSUME NEW r \in Requests, Spend(r) PROVE CountsAreCurrent'
  <2>1. /\ call' = [call EXCEPT ![r] = [call[r] EXCEPT !.pc = "grant"]] /\ wrong' = wrong
        /\ code' = [code EXCEPT ![call[r].record].used = TRUE]
    BY <1>8 DEF Spend, Hold
  <2>2. \A c \in Codes : code'[c].attempts = code[c].attempts
    BY <2>1 DEF TypeOK, Code
  <2> QED
    BY <1>2, <1>6, <2>1, <2>2
<1>9. ASSUME NEW r \in Requests,
             Invalidate(r) \/ Verify(r) \/ SetPassword(r) \/ Refuse(r) \/ Fail(r)
      PROVE  CountsAreCurrent'
  <2>1. /\ code' = code /\ wrong' = wrong
        /\ \/ call' = [call EXCEPT ![r] = Idle]
           \/ call' = [call EXCEPT ![r] = [call[r] EXCEPT !.pc = "issue",
                         !.marked = Unused(call[r].phone, PurposeOf(call[r].job))]]
    BY <1>9 DEF Invalidate, Verify, SetPassword, Refuse, Fail, Hold, observed
  <2> QED
    BY <1>2, <1>6, <2>1
<1>10. ASSUME NEW r \in Requests, Reject(r) PROVE CountsAreCurrent'
  <2> DEFINE d == call[r].record
  <2>1. /\ At(r, "reject") /\ call' = [call EXCEPT ![r] = Idle]
        /\ code' = [code EXCEPT ![d].attempts = call[r].tries + 1]
        /\ wrong' = [wrong EXCEPT ![d] = @ + 1]
    BY <1>10 DEF Reject, Hold
  <2>2. d \in Codes /\ call[r].tries = code[d].attempts
    <3>1. \A n \in 1 .. issued : n \in Codes
      BY Bounds DEF TypeOK, Codes
    <3>2. d \in 1 .. issued
      BY <2>1 DEF ChecksHoldTheirCode, At
    <3> QED
      BY <2>1, <3>1, <3>2 DEF CountsAreCurrent
  <2>3. ASSUME NEW q \in Requests PROVE ~ At(q, "reject")'
    BY <1>6, <2>1 DEF Lone, At, TypeOK
  <2>4. code'[d].attempts = code[d].attempts + 1 /\ wrong'[d] = wrong[d] + 1
    BY <2>1, <2>2 DEF TypeOK, Code
  <2>5. ASSUME NEW c \in Codes, c # d
        PROVE  code'[c] = code[c] /\ wrong'[c] = wrong[c]
    BY <2>1, <2>5 DEF TypeOK
  <2> HIDE DEF d
  <2>6. ASSUME NEW c \in Codes PROVE wrong'[c] <= code'[c].attempts
    BY <1>1, <2>2, <2>4, <2>5
  <2> QED
    BY <2>3, <2>6 DEF CountsAreCurrent, Codes
<1>11. ASSUME UNCHANGED <<call, code, wrong>> PROVE CountsAreCurrent'
  BY <1>11 DEF CountsAreCurrent, At, Codes
<1>12. ASSUME NEW a \in Phones, DeleteAccount(a) \/ \E p \in NewPhones : UpdateProfile(a, p)
       PROVE  CountsAreCurrent'
  BY <1>11, <1>12 DEF DeleteAccount, UpdateProfile, observed
<1>13. CASE UNCHANGED vars
  BY <1>11, <1>13 DEF vars
<1>14. ASSUME NEW r \in Requests, Handle(r) PROVE CountsAreCurrent'
  BY <1>7, <1>8, <1>9, <1>10, <1>14 DEF Handle
<1>15. CASE Next
  <2>1. CASE \E r \in Requests, p \in Phones :
               \/ StartRegister(r, p)
               \/ \E job \in Jobs : StartResend(r, job, p)
               \/ \E job \in Jobs, c \in Codes, right \in BOOLEAN :
                     StartCheck(r, job, p, c, right)
    BY <1>3, <1>4, <1>5, <2>1
  <2> QED
    BY <1>12, <1>14, <1>15, <2>1 DEF Next
<1> QED
  BY <1>13, <1>15

\* MAX_OTP_ATTEMPTS is kept when handlers come one at a time: verify_otp answers
\* no more guesses of a code as wrong.
THEOREM FewGuessesAlone ==
  ASSUME Lone
  PROVE  Spec => [](\A c \in Codes : wrong[c] <= MaxAttempts)
<1>1. Init => FreshUncounted /\ CountsAreCurrent
  BY DEF Init, FreshUncounted, CountsAreCurrent, NotIssued, NewCode, Idle, Holding, At
<1>2. AccountsInv /\ CountsAreCurrent => \A c \in Codes : wrong[c] <= MaxAttempts
  <2> SUFFICES ASSUME AccountsInv, CountsAreCurrent, NEW c \in Codes
               PROVE  wrong[c] <= MaxAttempts
    OBVIOUS
  <2>1. /\ code[c].attempts \in 0 .. MaxAttempts /\ wrong[c] \in Nat /\ MaxAttempts \in Nat
        /\ wrong[c] <= code[c].attempts
    BY Bounds DEF AccountsInv, TypeOK, Code, CountsAreCurrent
  <2> QED
    BY <2>1
<1>3. AccountsInv /\ FreshUncounted /\ CountsAreCurrent /\ [Next]_vars
        => (FreshUncounted /\ CountsAreCurrent)'
  BY FreshStep, CurrentStep
<1> QED
  BY <1>1, <1>2, <1>3, AccountsInvariant, PTL DEF Spec

\* "Previous codes become unusable", when handlers come one at a time: a number
\* has one usable code for a purpose at most.
THEOREM OneLiveCodeAlone ==
  ASSUME Lone
  PROVE  Spec => [](\A p \in Phones, purpose \in Purposes :
                       \A c, d \in Unused(p, purpose) : c = d)
<1>1. AccountsInv => \A p \in Phones, purpose \in Purposes :
                        \A c, d \in Unused(p, purpose) : c = d
  <2> SUFFICES ASSUME AccountsInv, NEW p \in Phones, NEW purpose \in Purposes,
                      NEW c \in Unused(p, purpose), NEW d \in Unused(p, purpose)
               PROVE  c = d
    OBVIOUS
  <2>1. PICK q \in Requests : issuer[c] = {q}
    BY DEF AccountsInv, UnusedHasIssuer, Unused
  <2>2. PICK r \in Requests : issuer[d] = {r}
    BY DEF AccountsInv, UnusedHasIssuer, Unused
  <2>3. issuer[c] = issuer[d]
    BY <2>1, <2>2 DEF Lone
  <2> QED
    BY <2>3 DEF AccountsInv, OneLiveCodePerHandler
<1> QED
  BY <1>1, AccountsInvariant, PTL

-----------------------------------------------------------------------------
(* What only a change of number, or a deletion, undoes                     *)

\* The steps that change accounts.
LEMMA AccountsChange ==
  ASSUME AccountsInv, [Next]_vars
  PROVE  \/ account' = account
         \/ \E r \in Requests : IssueCode(r) \/ Verify(r) \/ SetPassword(r)
         \/ \E a \in Phones : DeleteAccount(a) \/ \E p \in NewPhones : UpdateProfile(a, p)
BY DEF Next, Handle, StartRegister, StartResend, StartCheck, Begin, Invalidate, Reject, Spend,
       Refuse, Fail, vars

\* A handler adds the account it registers, with its number, and changes no
\* number of another one.
LEMMA HandlersKeepNumbers ==
  ASSUME AccountsInv, NEW r \in Requests, IssueCode(r) \/ Verify(r) \/ SetPassword(r)
  PROVE  \A a \in Phones :
            \/ account'[a].live = account[a].live /\ account'[a].phone = account[a].phone
            \/ account'[a].live /\ account'[a].phone = a
<1> USE DEF AccountsInv
<1> SUFFICES ASSUME NEW a \in Phones
             PROVE  \/ /\ account'[a].live = account[a].live
                       /\ account'[a].phone = account[a].phone
                    \/ account'[a].live /\ account'[a].phone = a
  OBVIOUS
<1>0. account[a] \in Account
  BY DEF TypeOK
<1>1. CASE IssueCode(r)
  <2>1. \/ account' = account
        \/ account' = [account EXCEPT ![call[r].phone] = NewAccount(call[r].phone)]
    BY <1>1 DEF IssueCode
  <2> QED
    BY <1>0, <2>1 DEF TypeOK, NewAccount, NoAccount
<1>2. CASE Verify(r)
  <2>1. PICK b : account' = [account EXCEPT ![b].verified = TRUE]
    BY <1>2 DEF Verify
  <2> QED
    BY <1>0, <2>1 DEF TypeOK, Account
<1>3. CASE SetPassword(r)
  <2>1. PICK b : account' = [account EXCEPT ![b].password = call[r].record]
    BY <1>3 DEF SetPassword
  <2> QED
    BY <1>0, <2>1 DEF TypeOK, Account
<1> QED
  BY <1>1, <1>2, <1>3

\* As long as nobody changes the number of a profile, the index finds every
\* account by the number it has, no two accounts have one number, and that number
\* is the one that answered for what was granted.
THEOREM OnlyProfilesUnlink ==
  ASSUME "profile" \notin Operations
  PROVE  Spec => [](FoundByItsNumber /\ NumberInUseOnce /\ GrantedByPresentNumber)
<1>1. Init => FoundByItsNumber
  BY DEF Init, FoundByItsNumber, Live, NoAccount
<1>2. AccountsInv /\ FoundByItsNumber /\ [Next]_vars => FoundByItsNumber'
  <2> SUFFICES ASSUME AccountsInv, FoundByItsNumber, [Next]_vars,
                      NEW a \in Phones, account'[a].live
               PROVE  account'[a].phone = a
    BY DEF FoundByItsNumber, Live
  <2>1. account[a].live => account[a].phone = a
    BY DEF FoundByItsNumber, Live
  <2>2. CASE account' = account
    BY <2>1, <2>2
  <2>3. ASSUME NEW r \in Requests, IssueCode(r) \/ Verify(r) \/ SetPassword(r)
        PROVE  account'[a].phone = a
    BY <2>1, <2>3, HandlersKeepNumbers
  <2>4. ASSUME NEW b \in Phones, DeleteAccount(b) PROVE account'[a].phone = a
    <3>1. /\ account' = [account EXCEPT ![b] = NoAccount]
          /\ account \in [Phones -> Account]
      BY <2>4 DEF DeleteAccount, AccountsInv, TypeOK
    <3> QED
      BY <2>1, <3>1 DEF NoAccount
  <2> QED
    BY <2>2, <2>3, <2>4, AccountsChange DEF UpdateProfile
<1>3. FoundByItsNumber => NumberInUseOnce
  BY DEF FoundByItsNumber, NumberInUseOnce
<1>4. AccountsInv /\ FoundByItsNumber => GrantedByPresentNumber
  BY DEF AccountsInv, FoundByItsNumber, GrantedByRegisteredNumber, GrantedByPresentNumber
<1> QED
  BY <1>1, <1>2, <1>3, <1>4, AccountsInvariant, PTL DEF Spec

\* Reset codes are for numbers that have an account, on their way and issued.
ResetsHaveAccounts ==
    /\ \A r \in Requests : call[r].job = "forgot" => call[r].phone \in Live
    /\ \A c \in Codes : c <= issued /\ code[c].purpose = "reset_password" =>
          code[c].phone \in Live

LEMMA ResetsStep ==
  ASSUME "delete" \notin Operations
  PROVE  AccountsInv /\ ResetsHaveAccounts /\ [Next]_vars => ResetsHaveAccounts'
<1> SUFFICES ASSUME AccountsInv, ResetsHaveAccounts, [Next]_vars PROVE ResetsHaveAccounts'
  OBVIOUS
<1>a. \A p \in Live : p \in Phones /\ p \in Live'
  <2> SUFFICES ASSUME NEW p \in Phones, account[p].live PROVE account'[p].live
    BY DEF Live
  <2>1. ASSUME NEW a \in Phones, NEW q \in NewPhones, UpdateProfile(a, q)
        PROVE  account'[p].live
    <3>1. account' = [account EXCEPT ![a].phone = q] /\ account \in [Phones -> Account]
      BY <2>1 DEF UpdateProfile, AccountsInv, TypeOK
    <3> QED
      BY <3>1 DEF Account
  <2> QED
    BY <2>1, AccountsChange, HandlersKeepNumbers DEF DeleteAccount
\* A handler starts or goes on, and no code is issued.
<1>b. ASSUME NEW r \in Requests, NEW local, Hold(r, local), UNCHANGED issued,
             local.job = "forgot" => local.phone \in Live,
             \A c \in Codes : /\ code'[c].purpose = code[c].purpose
                              /\ code'[c].phone = code[c].phone
      PROVE  ResetsHaveAccounts'
  <2>1. \A q \in Requests : call'[q] = IF q = r THEN local ELSE call[q]
    BY <1>b DEF Hold, AccountsInv, TypeOK
  <2> QED
    BY <1>a, <1>b, <2>1 DEF ResetsHaveAccounts
<1>c. Idle.job = "none" /\ \A c \in Codes : code[c] \in Code
  BY DEF Idle, Holding, AccountsInv, TypeOK
<1>d. ASSUME NEW r \in Requests, NEW local, local.job = call[r].job, local.phone = call[r].phone
      PROVE  local.job = "forgot" => local.phone \in Live
  BY <1>d DEF ResetsHaveAccounts
<1>1. ASSUME NEW r \in Requests, NEW p \in Phones, StartRegister(r, p) PROVE ResetsHaveAccounts'
  <2>1. [Holding("issue", "register", p, NoCode, 0)
           EXCEPT !.marked = Unused(p, "phone_verification")].job = "register"
    BY DEF Holding
  <2> QED
    BY <1>b, <1>1, <2>1 DEF StartRegister, Begin
<1>2. ASSUME NEW r \in Requests, NEW p \in Phones, NEW job \in Jobs, StartResend(r, job, p)
      PROVE  ResetsHaveAccounts'
  <2>1. p \in Live
    BY <1>2 DEF StartResend, Holder
  <2>2. Holding("invalidate", job, p, NoCode, 0).phone = p
    BY DEF Holding
  <2> QED
    BY <1>b, <1>2, <2>1, <2>2 DEF StartResend, Begin
<1>3. ASSUME NEW r \in Requests, NEW p \in Phones, NEW job \in Jobs, NEW c \in Codes,
             NEW right \in BOOLEAN, StartCheck(r, job, p, c, right)
      PROVE  ResetsHaveAccounts'
  <2> DEFINE local == Holding(IF right THEN "spend" ELSE "reject", job, p, c, code[c].attempts)
  <2>1. local.job # "forgot"
    BY <1>3 DEF Holding, StartCheck
  <2>2. Hold(r, local) /\ UNCHANGED <<code, issued>>
    BY <1>3 DEF StartCheck, Begin
  <2> HIDE DEF local
  <2> QED
    BY <1>b, <2>1, <2>2
<1>4. ASSUME NEW r \in Requests, Invalidate(r) PROVE ResetsHaveAccounts'
  <2> DEFINE local == [call[r] EXCEPT !.pc = "issue",
                         !.marked = Unused(call[r].phone, PurposeOf(call[r].job))]
  <2>1. local.job = call[r].job /\ local.phone = call[r].phone
    BY DEF AccountsInv, TypeOK, Call
  <2>2. Hold(r, local) /\ UNCHANGED <<code, issued>>
    BY <1>4 DEF Invalidate
  <2> HIDE DEF local
  <2> QED
    BY <1>b, <1>d, <2>1, <2>2
<1>5. ASSUME NEW r \in Requests, IssueCode(r) PROVE ResetsHaveAccounts'
  <2>1. \A q \in Requests : call'[q] = IF q = r THEN Idle ELSE call[q]
    BY <1>5 DEF IssueCode, Hold, AccountsInv, TypeOK
  <2>2. issued \in Nat /\ issued' = issued + 1
    BY <1>5, Bounds DEF IssueCode, AccountsInv, TypeOK
  <2>3. ASSUME NEW c \in Codes, c <= issued', code'[c].purpose = "reset_password"
        PROVE  code'[c].phone \in Live'
    <3>1. CASE c = issued + 1
      <4>1. code'[c] = NewCode(call[r].phone, PurposeOf(call[r].job))
        BY <1>5, <3>1 DEF IssueCode
      <4>2. PurposeOf(call[r].job) = "reset_password" /\ code'[c].phone = call[r].phone
        BY <2>3, <4>1 DEF NewCode
      <4>3. call[r].job = "forgot"
        BY <1>5, <4>2 DEF IssueCode, AccountsInv, ChecksHoldTheirCode, PurposeOf
      <4> QED
        BY <1>a, <4>2, <4>3 DEF ResetsHaveAccounts
    <3>2. CASE c # issued + 1
      <4>1. code'[c].phone = code[c].phone /\ code'[c].purpose = code[c].purpose
        BY <1>5, <1>c, <3>2 DEF IssueCode, Code
      <4>2. c <= issued
        BY <2>2, <2>3, <3>2, Bounds
      <4> QED
        BY <1>a, <2>3, <4>1, <4>2 DEF ResetsHaveAccounts
    <3> QED
      BY <3>1, <3>2
  <2> QED
    BY <1>a, <1>c, <2>1, <2>3 DEF ResetsHaveAccounts
<1>6. ASSUME NEW r \in Requests, Reject(r) PROVE ResetsHaveAccounts'
  <2>1. \A c \in Codes : code'[c].purpose = code[c].purpose /\ code'[c].phone = code[c].phone
    BY <1>6, <1>c DEF Reject, Code, AccountsInv, TypeOK
  <2> QED
    BY <1>b, <1>c, <1>6, <2>1 DEF Reject
<1>7. ASSUME NEW r \in Requests, Spend(r) PROVE ResetsHaveAccounts'
  <2>1. \A c \in Codes : code'[c].purpose = code[c].purpose /\ code'[c].phone = code[c].phone
    BY <1>7, <1>c DEF Spend, Code, AccountsInv, TypeOK
  <2>2. /\ [call[r] EXCEPT !.pc = "grant"].job = call[r].job
        /\ [call[r] EXCEPT !.pc = "grant"].phone = call[r].phone
    BY DEF AccountsInv, TypeOK, Call
  <2> QED
    BY <1>b, <1>d, <1>7, <2>1, <2>2 DEF Spend
<1>8. ASSUME NEW r \in Requests, Verify(r) \/ SetPassword(r) \/ Refuse(r) \/ Fail(r)
      PROVE  ResetsHaveAccounts'
  BY <1>b, <1>c, <1>8 DEF Verify, SetPassword, Refuse, Fail, observed
<1>9. ASSUME UNCHANGED <<code, issued, call>> PROVE ResetsHaveAccounts'
  BY <1>a, <1>9 DEF ResetsHaveAccounts
<1> QED
  BY <1>1, <1>2, <1>3, <1>4, <1>5, <1>6, <1>7, <1>8, <1>9
  DEF Next, Handle, DeleteAccount, UpdateProfile, vars

\* As long as nobody deletes an account, a registration finds no reset code
\* that could still be used for its number.
THEOREM OnlyDeletionsLeaveCodes ==
  ASSUME "delete" \notin Operations
  PROVE  Spec => RegistrationStartsClean
<1>1. Init => ResetsHaveAccounts
  BY Bounds DEF Init, ResetsHaveAccounts, Idle, Holding, NotIssued, NewCode
<1>2. ResetsHaveAccounts =>
         \A p \in Phones : p \notin Live => Unused(p, "reset_password") = {}
  BY DEF ResetsHaveAccounts, Unused
<1>3. AccountsInv /\ ResetsHaveAccounts /\ [Next]_vars => ResetsHaveAccounts'
  BY ResetsStep
<1>4. ResetsHaveAccounts /\ [Next]_vars
        => [\A p \in Phones : p \notin Live /\ p \in Live'
                                => Unused(p, "reset_password") = {}]_vars
  BY <1>2
<1> QED
  BY <1>1, <1>3, <1>4, AccountsInvariant, PTL DEF RegistrationStartsClean, Spec
=============================================================================
