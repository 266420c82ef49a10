------------------------- MODULE HandsetBindingProofs -------------------------
(***************************************************************************)
(* No race of logins brings a handset in before its delay is over, or      *)
(* leaves it with more delays running than there are handlers.             *)
(***************************************************************************)
EXTENDS HandsetBinding, SequenceTheorems, FiniteSetTheorems, TLAPS

\* A handler under way was given a handset.
HandlersNameAHandset ==
    \A r \in Requests : ~ At(r, "idle") => call[r].handset \in Handsets

RipeInv == TypeOK /\ HandlersNameAHandset /\ TransfersAreRipe

LEMMA ChangesTyped ==
    ASSUME TypeOK
    PROVE  /\ Len(change) \in Nat
           /\ DOMAIN change = 1 .. Len(change)
           /\ \A c \in DOMAIN change : change[c] \in Change
  BY ElementOfSeq DEF TypeOK

\* A request keeps its place, its handset and, once over, its delay.
LEMMA RequestsStay ==
    ASSUME TypeOK, [Next]_vars
    PROVE  \A c \in DOMAIN change :
             /\ c \in DOMAIN change'
             /\ change'[c].new = change[c].new
             /\ change[c].left = 0 => change'[c].left = 0
<1>0. /\ Len(change) \in Nat
      /\ DOMAIN change = 1 .. Len(change)
      /\ \A c \in DOMAIN change : change[c] \in Change
  BY ChangesTyped
<1>1. ASSUME NEW r \in Requests, Transfer(r)
      PROVE  \A c \in DOMAIN change :
               /\ c \in DOMAIN change'
               /\ change'[c].new = change[c].new
               /\ change'[c].left = change[c].left
  BY <1>0, <1>1 DEF Transfer, Change
<1>2. ASSUME NEW r \in Requests, Request(r)
      PROVE  \A c \in DOMAIN change : c \in DOMAIN change' /\ change'[c] = change[c]
  <2>1. PICK x : change' = Append(change, x)
    BY <1>2 DEF Request
  <2>2. change \in Seq(Change)
    BY DEF TypeOK
  <2>3. /\ DOMAIN change' = 1 .. Len(change) + 1
        /\ \A c \in 1 .. Len(change) : change'[c] = change[c]
    BY <2>1, <2>2
  <2> QED
    BY <1>0, <2>3
<1>3. ASSUME Tick
      PROVE  \A c \in DOMAIN change :
               /\ c \in DOMAIN change'
               /\ change'[c].new = change[c].new
               /\ change[c].left = 0 => change'[c].left = 0
  BY <1>0, <1>3 DEF Tick, Change
<1>4. ASSUME change' = change
      PROVE  \A c \in DOMAIN change :
               /\ c \in DOMAIN change'
               /\ change'[c].new = change[c].new
               /\ change[c].left = 0 => change'[c].left = 0
  BY <1>4
<1>5. \/ \E r \in Requests : Transfer(r) \/ Request(r)
      \/ Tick
      \/ change' = change
  BY DEF Next, vars, StartLogin, Bind, BindFails, GrantPending, DecideToRequest,
         RefuseUnconfirmed, FindTooEarly, RefuseTooEarly, RequestAgain
<1> QED
  BY <1>1, <1>2, <1>3, <1>4, <1>5

LEMMA TypePreserved ==
    ASSUME TypeOK, HandlersNameAHandset, [Next]_vars
    PROVE  TypeOK' /\ HandlersNameAHandset'
<1> USE HandsetAssumption DEF TypeOK, HandlersNameAHandset, At
<1>1. Idle \in Local /\ Idle.pc = "idle"
  BY DEF Idle, Local
<1>2. ASSUME NEW r \in Requests, NEW h \in Handsets, NEW confirm \in BOOLEAN,
             StartLogin(r, h, confirm)
      PROVE  TypeOK' /\ HandlersNameAHandset'
  <2>1. [pc |-> IF bound = NoHandset THEN "bind" ELSE "look",
         handset |-> h, confirm |-> confirm, record |-> 0] \in Local
    BY DEF Local
  <2> QED
    BY <1>2, <2>1 DEF StartLogin
<1>3. ASSUME NEW r \in Requests, ~ At(r, "idle"),
             NEW p \in {"transfer", "request", "recheck"}, NEW c \in Nat,
             Go(r, p, c), UNCHANGED <<bound, change>>
      PROVE  TypeOK' /\ HandlersNameAHandset'
  BY <1>3 DEF Go, Local
<1>4. ASSUME NEW r \in Requests, Finish(r)
      PROVE  call' \in [Requests -> Local] /\ HandlersNameAHandset'
  BY <1>1, <1>4 DEF Finish
<1>5. ASSUME NEW r \in Requests, BindFails(r) \/ RefuseUnconfirmed(r) \/ RefuseTooEarly(r)
      PROVE  TypeOK' /\ HandlersNameAHandset'
  BY <1>4, <1>5 DEF BindFails, RefuseUnconfirmed, RefuseTooEarly
<1>6. ASSUME NEW r \in Requests, Bind(r) PROVE TypeOK' /\ HandlersNameAHandset'
  BY <1>4, <1>6 DEF Bind
<1>7. ASSUME NEW r \in Requests, GrantPending(r) \/ FindTooEarly(r)
      PROVE  TypeOK' /\ HandlersNameAHandset'
  <2>1. PICK c \in DOMAIN change : Go(r, "transfer", c) \/ Go(r, "recheck", c)
    BY <1>7 DEF GrantPending, FindTooEarly
  <2>2. c \in Nat
    BY <2>1, ChangesTyped
  <2> QED
    BY <1>3, <1>7, <2>1, <2>2 DEF GrantPending, FindTooEarly
<1>8. ASSUME NEW r \in Requests, DecideToRequest(r) \/ RequestAgain(r)
      PROVE  TypeOK' /\ HandlersNameAHandset'
  BY <1>3, <1>8 DEF DecideToRequest, RequestAgain
<1>9. /\ Len(change) \in Nat
      /\ DOMAIN change = 1 .. Len(change)
      /\ \A c \in DOMAIN change : change[c] \in Change
  BY ChangesTyped
<1>10. ASSUME NEW r \in Requests, Transfer(r) PROVE TypeOK' /\ HandlersNameAHandset'
  <2>1. \A c \in DOMAIN change : [change[c] EXCEPT !.status = "completed"] \in Change
    BY <1>9 DEF Change
  <2>2. change' \in [1 .. Len(change) -> Change]
    BY <1>9, <1>10, <2>1 DEF Transfer
  <2>3. change' \in Seq(Change)
    BY <1>9, <2>2
  <2> QED
    BY <1>4, <1>10, <2>3 DEF Transfer
<1>11. ASSUME NEW r \in Requests, Request(r) PROVE TypeOK' /\ HandlersNameAHandset'
  <2>1. [new |-> call[r].handset, status |-> "pending", left |-> Delay] \in Change
    BY <1>11 DEF Request, Change
  <2> QED
    BY <1>4, <1>11, <2>1 DEF Request
<1>12. ASSUME Tick PROVE TypeOK' /\ HandlersNameAHandset'
  <2>1. \A c \in DOMAIN change :
          [change[c] EXCEPT !.left = IF @ > 0 THEN @ - 1 ELSE 0] \in Change
    <3>1. \A d \in 0 .. Delay : (IF d > 0 THEN d - 1 ELSE 0) \in 0 .. Delay
      OBVIOUS
    <3> QED
      BY <1>9, <3>1 DEF Change
  <2>2. change' \in [1 .. Len(change) -> Change]
    BY <1>9, <1>12, <2>1 DEF Tick
  <2>3. change' \in Seq(Change)
    BY <1>9, <2>2
  <2> QED
    BY <1>12, <2>3 DEF Tick
<1>13. CASE UNCHANGED vars
  BY <1>13 DEF vars
<1> QED
  BY <1>2, <1>5, <1>6, <1>7, <1>8, <1>10, <1>11, <1>12, <1>13 DEF Next

LEMMA RipePreserved == RipeInv /\ [Next]_vars => RipeInv'
<1> SUFFICES ASSUME RipeInv, [Next]_vars PROVE TransfersAreRipe'
  BY TypePreserved DEF RipeInv
<1> USE DEF RipeInv, TypeOK, At
<1>1. ASSUME NEW r \in Requests, At(r, "transfer")',
             ~ At(r, "transfer") \/ call'[r] # call[r]
      PROVE  GrantPending(r)
  <2>1. ASSUME NEW q \in Requests, NEW local, local.pc # "transfer",
               call' = [call EXCEPT ![q] = local]
        PROVE  FALSE
    BY <1>1, <2>1
  <2>2. ASSUME NEW q \in Requests, NEW h, NEW confirm, StartLogin(q, h, confirm)
        PROVE  FALSE
    <3>1. PICK p \in {"bind", "look"} :
            call' = [call EXCEPT ![q] = [pc |-> p, handset |-> h,
                                         confirm |-> confirm, record |-> 0]]
      BY <2>2 DEF StartLogin
    <3> QED
      BY <2>1, <3>1
  <2>3. ASSUME NEW q \in Requests, Finish(q) PROVE FALSE
    BY <2>1, <2>3 DEF Finish, Idle
  <2>4. ASSUME NEW q \in Requests,
               DecideToRequest(q) \/ FindTooEarly(q) \/ RequestAgain(q)
        PROVE  FALSE
    BY <1>1, <2>4 DEF DecideToRequest, FindTooEarly, RequestAgain, Go, Local
  <2>5. ASSUME NEW q \in Requests, GrantPending(q) PROVE q = r
    BY <1>1, <2>5 DEF GrantPending, Go, Local
  <2>6. call' # call
    BY <1>1
  <2> QED
    BY <2>2, <2>3, <2>4, <2>5, <2>6
    DEF Next, vars, Bind, BindFails, RefuseUnconfirmed, RefuseTooEarly, Transfer,
        Request, Tick
<1>2. ASSUME NEW r \in Requests, GrantPending(r)
      PROVE  /\ call'[r].record \in DOMAIN change'
             /\ change'[call'[r].record].new = call'[r].handset
             /\ change'[call'[r].record].left = 0
  <2>1. PICK c \in DOMAIN change :
          Latest(c, call[r].handset) /\ change[c].left = 0 /\ Go(r, "transfer", c)
    BY <1>2 DEF GrantPending
  <2>2. call'[r].record = c /\ call'[r].handset = call[r].handset
    BY <2>1 DEF Go, Local
  <2>3. change[c].new = call[r].handset
    BY <2>1 DEF Latest, Pending
  <2> QED
    BY <1>2, <2>1, <2>2, <2>3 DEF GrantPending
<1>3. ASSUME NEW r \in Requests, At(r, "transfer"), call'[r] = call[r]
      PROVE  /\ call'[r].record \in DOMAIN change'
             /\ change'[call'[r].record].new = call'[r].handset
             /\ change'[call'[r].record].left = 0
  BY <1>3, RequestsStay DEF TransfersAreRipe
<1> QED
  BY <1>1, <1>2, <1>3 DEF TransfersAreRipe

(* Every variable keeps its type, and what a transfer holds stays ripe.    *)
THEOREM RipeTransfers == Spec => []TransfersAreRipe
<1>1. Init => RipeInv
  BY HandsetAssumption
  DEF Init, RipeInv, TypeOK, HandlersNameAHandset, TransfersAreRipe, Idle, Local, At
<1>2. RipeInv => TransfersAreRipe
  BY DEF RipeInv
<1> QED
  BY <1>1, <1>2, RipePreserved, PTL DEF Spec

(* login_phone lets no handset replace another before the delay of its own *)
(* request is over, however many logins race.                              *)
THEOREM DelayIsKept == Spec => TransferWaits
<1> DEFINE Waited == bound # NoHandset /\ bound' # bound =>
                       \E c \in DOMAIN change :
                          change[c].new = bound' /\ change[c].left = 0
<1>1. TransfersAreRipe /\ [Next]_vars => [Waited]_vars
  <2> SUFFICES ASSUME TransfersAreRipe, Next, bound # NoHandset, bound' # bound
               PROVE  Waited
    OBVIOUS
  <2>1. PICK r \in Requests : Transfer(r)
    BY DEF Next, StartLogin, Bind, BindFails, GrantPending, DecideToRequest,
         RefuseUnconfirmed, FindTooEarly, RefuseTooEarly, RequestAgain,
           Request, Tick
  <2> QED
    BY <2>1 DEF Transfer, TransfersAreRipe
<1> QED
  BY <1>1, RipeTransfers, PTL DEF Spec, TransferWaits
-----------------------------------------------------------------------------
(* How many delays can run                                                 *)

\* A request that is looked at a second time exists.
RecheckedExist == \A r \in Requests : At(r, "recheck") => call[r].record \in DOMAIN change

\* All delays are the same, so a later request is eligible later.
LaterIsLonger == \A c, d \in DOMAIN change : c < d => change[c].left <= change[d].left

\* The delays of h that began after request k.
Running(h, k) == {c \in Pending(h) : change[c].left > 0 /\ c > k}

\* The handlers that make another request for h, or will when request k, which
\* they hold or which is later than theirs, turns out to be over.
Asking(h, k) ==
    {r \in Requests : /\ call[r].handset = h
                      /\ \/ At(r, "request")
                         \/ At(r, "recheck") /\ call[r].record <= k}

\* DelaysBounded alone does not survive a request.  A handler that asks again
\* found request k over; all earlier ones are over then too, and whoever made a
\* later one is no longer asking.
AskingBounded ==
    \A h \in Handsets, k \in Nat :
        Cardinality(Running(h, k)) + Cardinality(Asking(h, k)) <= Cardinality(Requests)

DelaysInv == TypeOK /\ HandlersNameAHandset /\ RecheckedExist /\ LaterIsLonger /\ AskingBounded

\* Sizes of sets that shrink.
LEMMA FewerBounded ==
    ASSUME NEW n \in Nat, NEW A, NEW B, IsFiniteSet(A), IsFiniteSet(B),
           Cardinality(A) + Cardinality(B) <= n,
           NEW C \in SUBSET A, NEW D \in SUBSET B
    PROVE  Cardinality(C) + Cardinality(D) <= n
<1>1. Cardinality(C) <= Cardinality(A) /\ Cardinality(D) <= Cardinality(B)
  BY FS_Subset
<1>2. /\ Cardinality(A) \in Nat /\ Cardinality(B) \in Nat
      /\ Cardinality(C) \in Nat /\ Cardinality(D) \in Nat
  BY FS_Subset, FS_CardinalityType
<1> QED
  BY <1>1, <1>2

\* What leaves one set for the other is not counted twice.
LEMMA MovedBounded ==
    ASSUME NEW n \in Nat, NEW A, NEW B, IsFiniteSet(A), IsFiniteSet(B),
           Cardinality(A) + Cardinality(B) <= n, NEW b \in B, NEW a,
           NEW C \in SUBSET (A \cup {a}), NEW D \in SUBSET (B \ {b})
    PROVE  Cardinality(C) + Cardinality(D) <= n
<1>a. Cardinality(A) \in Nat /\ Cardinality(B) \in Nat
  BY FS_CardinalityType
<1>b. IsFiniteSet(A \cup {a}) /\ Cardinality(A \cup {a}) <= Cardinality(A) + 1
  <2>1. Cardinality(A \cup {a}) = IF a \in A THEN Cardinality(A) ELSE Cardinality(A) + 1
    BY FS_AddElement
  <2> QED
    BY <1>a, <2>1, FS_AddElement
<1>c. IsFiniteSet(B \ {b}) /\ Cardinality(B \ {b}) = Cardinality(B) - 1
  BY FS_RemoveElement
<1>1. /\ IsFiniteSet(A \cup {a}) /\ Cardinality(A \cup {a}) <= Cardinality(A) + 1
      /\ IsFiniteSet(B \ {b}) /\ Cardinality(B \ {b}) = Cardinality(B) - 1
      /\ Cardinality(A) \in Nat /\ Cardinality(B) \in Nat
  BY <1>a, <1>b, <1>c
<1>2. Cardinality(A \cup {a}) \in Nat /\ Cardinality(B \ {b}) \in Nat
  BY <1>1, FS_CardinalityType
<1>3. Cardinality(A \cup {a}) + Cardinality(B \ {b}) <= n
  BY <1>1, <1>2
<1> QED
  BY <1>1, <1>3, FewerBounded

LEMMA CountedAreFinite ==
    ASSUME TypeOK, NEW h, NEW k \in Nat
    PROVE  IsFiniteSet(Running(h, k)) /\ IsFiniteSet(Asking(h, k))
<1>1. /\ Len(change) \in Int
      /\ DOMAIN change = 1 .. Len(change)
  BY ChangesTyped
<1>2. Running(h, k) \in SUBSET (1 .. Len(change))
  BY <1>1 DEF Running, Pending
<1>3. IsFiniteSet(1 .. Len(change))
  BY <1>1, FS_Interval
<1>4. Asking(h, k) \in SUBSET Requests
  BY DEF Asking
<1>5. IsFiniteSet(Requests)
  BY HandsetAssumption
<1>6. IsFiniteSet(Running(h, k))
  BY <1>2, <1>3, FS_Subset
<1>7. IsFiniteSet(Asking(h, k))
  BY <1>4, <1>5, FS_Subset
<1> QED
  BY <1>6, <1>7

LEMMA RecheckedStay ==
    ASSUME TypeOK, RecheckedExist, [Next]_vars
    PROVE  RecheckedExist'
<1> USE DEF TypeOK, At
<1>1. ASSUME NEW r \in Requests, At(r, "recheck")', call'[r] = call[r]
      PROVE  call'[r].record \in DOMAIN change'
  BY <1>1, RequestsStay DEF RecheckedExist
<1>2. ASSUME NEW r \in Requests, At(r, "recheck")', call'[r] # call[r]
      PROVE  FindTooEarly(r)
  <2>1. ASSUME NEW q \in Requests, NEW local, local.pc # "recheck",
               call' = [call EXCEPT ![q] = local]
        PROVE  FALSE
    BY <1>2, <2>1
  <2>2. ASSUME NEW q \in Requests, NEW h, NEW confirm, StartLogin(q, h, confirm)
        PROVE  FALSE
    <3>1. PICK p \in {"bind", "look"} :
            call' = [call EXCEPT ![q] = [pc |-> p, handset |-> h,
                                         confirm |-> confirm, record |-> 0]]
      BY <2>2 DEF StartLogin
    <3> QED
      BY <2>1, <3>1
  <2>3. ASSUME NEW q \in Requests, Finish(q) PROVE FALSE
    BY <2>1, <2>3 DEF Finish, Idle
  <2>4. ASSUME NEW q \in Requests,
               DecideToRequest(q) \/ GrantPending(q) \/ RequestAgain(q)
        PROVE  FALSE
    BY <1>2, <2>4 DEF DecideToRequest, GrantPending, RequestAgain, Go, Local
  <2>5. ASSUME NEW q \in Requests, FindTooEarly(q) PROVE q = r
    BY <1>2, <2>5 DEF FindTooEarly, Go, Local
  <2>6. call' # call
    BY <1>2
  <2> QED
    BY <2>2, <2>3, <2>4, <2>5, <2>6
    DEF Next, vars, Bind, BindFails, RefuseUnconfirmed, RefuseTooEarly, Transfer,
        Request, Tick
<1>3. ASSUME NEW r \in Requests, FindTooEarly(r)
      PROVE  call'[r].record \in DOMAIN change'
  BY <1>3 DEF FindTooEarly, Go, Local
<1> QED
  BY <1>1, <1>2, <1>3 DEF RecheckedExist

LEMMA LaterStaysLonger ==
    ASSUME TypeOK, LaterIsLonger, [Next]_vars
    PROVE  LaterIsLonger'
<1>0. /\ Len(change) \in Nat
      /\ DOMAIN change = 1 .. Len(change)
      /\ \A c \in DOMAIN change : change[c] \in Change
  BY ChangesTyped
<1>1. ASSUME NEW r \in Requests, Transfer(r) PROVE LaterIsLonger'
  <2>1. /\ DOMAIN change' = DOMAIN change
        /\ \A c \in DOMAIN change : change'[c].left = change[c].left
    BY <1>0, <1>1 DEF Transfer, Change
  <2> QED
    BY <2>1 DEF LaterIsLonger
<1>2. ASSUME NEW r \in Requests, Request(r) PROVE LaterIsLonger'
  <2>1. PICK x : change' = Append(change, x) /\ x.left = Delay
    BY <1>2 DEF Request
  <2>2. /\ DOMAIN change' = 1 .. Len(change) + 1
        /\ \A c \in 1 .. Len(change) : change'[c] = change[c]
        /\ change'[Len(change) + 1] = x
    BY <2>1 DEF TypeOK
  <2>3. \A c \in DOMAIN change : change[c].left <= Delay
    BY <1>0, HandsetAssumption DEF Change
  <2>4. ASSUME NEW c \in DOMAIN change', NEW d \in DOMAIN change', c < d
        PROVE  change'[c].left <= change'[d].left
    <3>1. c \in 1 .. Len(change)
      BY <1>0, <2>2, <2>4
    <3>2. CASE d \in 1 .. Len(change)
      BY <1>0, <2>2, <2>4, <3>1, <3>2 DEF LaterIsLonger
    <3>3. CASE d = Len(change) + 1
      BY <1>0, <2>1, <2>2, <2>3, <3>1, <3>3
    <3> QED
      BY <1>0, <2>2, <3>2, <3>3
  <2> QED
    BY <2>4 DEF LaterIsLonger
<1>3. ASSUME Tick PROVE LaterIsLonger'
  <2>1. /\ DOMAIN change' = DOMAIN change
        /\ \A c \in DOMAIN change :
              change'[c].left = IF change[c].left > 0 THEN change[c].left - 1 ELSE 0
    BY <1>0, <1>3 DEF Tick, Change
  <2>2. \A c \in DOMAIN change : change[c].left \in Nat
    BY <1>0, HandsetAssumption DEF Change
  <2> QED
    BY <2>1, <2>2 DEF LaterIsLonger
<1>4. CASE change' = change
  BY <1>4 DEF LaterIsLonger
<1> QED
  BY <1>1, <1>2, <1>3, <1>4
  DEF Next, vars, StartLogin, Bind, BindFails, GrantPending, DecideToRequest,
      RefuseUnconfirmed, FindTooEarly, RefuseTooEarly, RequestAgain

LEMMA AskingStaysBounded ==
    ASSUME DelaysInv, [Next]_vars
    PROVE  AskingBounded'
<1> SUFFICES ASSUME NEW h \in Handsets, NEW k \in Nat
             PROVE  Cardinality(Running(h, k)') + Cardinality(Asking(h, k)')
                      <= Cardinality(Requests)
  BY DEF AskingBounded
<1> DEFINE Goal == Cardinality(Running(h, k)') + Cardinality(Asking(h, k)')
                     <= Cardinality(Requests)
<1> HIDE DEF Goal
<1>0. /\ Len(change) \in Nat
      /\ DOMAIN change = 1 .. Len(change)
      /\ \A c \in DOMAIN change : change[c] \in Change /\ change[c].left \in Nat
  BY ChangesTyped, HandsetAssumption DEF DelaysInv, Change
<1>n. Cardinality(Requests) \in Nat
  BY HandsetAssumption, FS_CardinalityType
<1>t. call \in [Requests -> Local]
  BY DEF DelaysInv, TypeOK
<1>a. ASSUME Running(h, k)' \subseteq Running(h, k), Asking(h, k)' \subseteq Asking(h, k)
      PROVE  Goal
  <2>1. IsFiniteSet(Running(h, k)) /\ IsFiniteSet(Asking(h, k))
    BY CountedAreFinite DEF DelaysInv
  <2>2. Cardinality(Running(h, k)) + Cardinality(Asking(h, k)) <= Cardinality(Requests)
    BY DEF DelaysInv, AskingBounded
  <2> QED
    BY <1>a, <1>n, <2>1, <2>2, FewerBounded DEF Goal
<1>b. ASSUME Running(h, k)' = {} PROVE Goal
  <2>1. Asking(h, k)' \in SUBSET Requests
    BY DEF Asking
  <2>2. /\ IsFiniteSet(Asking(h, k)')
        /\ Cardinality(Asking(h, k)') <= Cardinality(Requests)
    BY <2>1, HandsetAssumption, FS_Subset
  <2>3. Cardinality(Asking(h, k)') \in Nat
    BY <2>2, FS_CardinalityType
  <2> QED
    BY <1>b, <1>n, <2>2, <2>3, FS_EmptySet DEF Goal
<1>c. ASSUME change' = change PROVE Running(h, k)' = Running(h, k)
  BY <1>c DEF Running, Pending
<1>d. ASSUME call' = call PROVE Asking(h, k)' = Asking(h, k)
  BY <1>d DEF Asking, At
<1>e. ASSUME NEW r \in Requests, NEW local, call' = [call EXCEPT ![r] = local],
             local.pc \notin {"request", "recheck"}
      PROVE  Asking(h, k)' \subseteq Asking(h, k) \ {r}
  BY <1>e, <1>t DEF Asking, At
<1>f. ASSUME NEW r \in Requests, Finish(r)
      PROVE  Asking(h, k)' \subseteq Asking(h, k) \ {r}
  BY <1>e, <1>f DEF Finish, Idle
<1>g. ASSUME NEW r \in Requests, NEW p, NEW c, Go(r, p, c)
      PROVE  /\ call'[r].pc = p /\ call'[r].record = c
             /\ call'[r].handset = call[r].handset
             /\ \A q \in Requests : q # r => call'[q] = call[q]
  BY <1>g, <1>t DEF Go, Local
<1>1. ASSUME NEW r \in Requests, NEW g, NEW confirm, StartLogin(r, g, confirm) PROVE Goal
  <2>1. PICK p \in {"bind", "look"} :
          call' = [call EXCEPT ![r] = [pc |-> p, handset |-> g,
                                       confirm |-> confirm, record |-> 0]]
    BY <1>1 DEF StartLogin
  <2>2. Asking(h, k)' \subseteq Asking(h, k)
    BY <1>e, <2>1
  <2>3. change' = change
    BY <1>1 DEF StartLogin
  <2> QED
    BY <1>a, <1>c, <2>2, <2>3
<1>2. ASSUME NEW r \in Requests,
             Bind(r) \/ BindFails(r) \/ RefuseUnconfirmed(r) \/ RefuseTooEarly(r)
      PROVE  Goal
  <2>1. Finish(r) /\ change' = change
    BY <1>2 DEF Bind, BindFails, RefuseUnconfirmed, RefuseTooEarly
  <2> QED
    BY <1>a, <1>c, <1>f, <2>1
<1>3. ASSUME NEW r \in Requests, GrantPending(r) PROVE Goal
  <2>1. PICK c : Go(r, "transfer", c) /\ change' = change
    BY <1>3 DEF GrantPending
  <2>2. Asking(h, k)' \subseteq Asking(h, k)
    BY <1>g, <2>1 DEF Asking, At
  <2> QED
    BY <1>a, <1>c, <2>1, <2>2
<1>4. ASSUME NEW r \in Requests, DecideToRequest(r) PROVE Goal
  <2>1. Go(r, "request", 0) /\ change' = change /\ Pending(call[r].handset) = {}
    BY <1>4 DEF DecideToRequest, NeedsRequest
  <2>2. CASE h = call[r].handset
    <3>1. Running(h, k) = {}
      BY <2>1, <2>2 DEF Running
    <3> QED
      BY <1>b, <1>c, <2>1, <3>1
  <2>3. CASE h # call[r].handset
    <3>1. Asking(h, k)' \subseteq Asking(h, k)
      BY <1>g, <2>1, <2>3 DEF Asking, At
    <3> QED
      BY <1>a, <1>c, <2>1, <3>1
  <2> QED
    BY <2>2, <2>3
<1>5. ASSUME NEW r \in Requests, FindTooEarly(r) PROVE Goal
  <2>1. PICK c \in DOMAIN change : /\ Latest(c, call[r].handset)
                                   /\ Go(r, "recheck", c) /\ change' = change
    BY <1>5 DEF FindTooEarly
  <2>2. CASE h = call[r].handset /\ c <= k
    <3>1. \A d \in Pending(h) : d <= k
      BY <1>0, <2>1, <2>2 DEF Latest, Pending
    <3>2. Running(h, k) = {}
      BY <1>0, <3>1 DEF Running, Pending
    <3> QED
      BY <1>b, <1>c, <2>1, <3>2
  <2>3. CASE ~ (h = call[r].handset /\ c <= k)
    <3>1. Asking(h, k)' \subseteq Asking(h, k)
      BY <1>g, <2>1, <2>3 DEF Asking, At
    <3> QED
      BY <1>a, <1>c, <2>1, <3>1
  <2> QED
    BY <2>2, <2>3
<1>6. ASSUME NEW r \in Requests, RequestAgain(r) PROVE Goal
  <2> DEFINE j == call[r].record
  <2>1. /\ At(r, "recheck") /\ Go(r, "request", 0) /\ change' = change
        /\ j \in DOMAIN change /\ change[j].left = 0
    BY <1>6 DEF RequestAgain, DelaysInv, RecheckedExist
  <2>2. CASE h # call[r].handset \/ j <= k
    <3>1. Asking(h, k)' \subseteq Asking(h, k)
      BY <1>g, <2>1, <2>2 DEF Asking, At
    <3> QED
      BY <1>a, <1>c, <2>1, <3>1
  <2>3. CASE h = call[r].handset /\ k < j
    <3>1. j \in Nat
      BY <1>0, <2>1
    <3>2. Running(h, k)' \subseteq Running(h, j)
      <4> SUFFICES ASSUME NEW c \in Running(h, k) PROVE c > j
        BY <1>c, <2>1 DEF Running
      <4>1. c \in DOMAIN change /\ change[c].left > 0
        BY DEF Running, Pending
      <4>2. CASE c < j
        BY <1>0, <2>1, <4>1, <4>2 DEF DelaysInv, LaterIsLonger
      <4>3. c # j
        BY <2>1, <4>1
      <4> QED
        BY <1>0, <2>1, <4>1, <4>2, <4>3
    <3>3. Asking(h, k)' \subseteq Asking(h, j)
      <4> SUFFICES ASSUME NEW q \in Requests, q \in Asking(h, k)' PROVE q \in Asking(h, j)
        BY DEF Asking
      <4>1. CASE q = r
        BY <2>1, <2>3, <3>1, <4>1 DEF Asking, At
      <4>2. CASE q # r
        BY <1>g, <1>t, <2>1, <2>3, <3>1, <4>2 DEF Asking, At, Local
      <4> QED
        BY <4>1, <4>2
    <3>4. IsFiniteSet(Running(h, j)) /\ IsFiniteSet(Asking(h, j))
      BY <3>1, CountedAreFinite DEF DelaysInv
    <3>5. Cardinality(Running(h, j)) + Cardinality(Asking(h, j)) <= Cardinality(Requests)
      BY <3>1 DEF DelaysInv, AskingBounded
    <3> QED
      BY <1>n, <3>2, <3>3, <3>4, <3>5, FewerBounded DEF Goal
  <2> QED
    BY <1>0, <2>1, <2>2, <2>3
<1>7. ASSUME NEW r \in Requests, Transfer(r) PROVE Goal
  <2>1. /\ DOMAIN change' = DOMAIN change
        /\ \A c \in DOMAIN change : /\ change'[c].left = change[c].left
                                    /\ change'[c].new = change[c].new
                                    /\ \/ change'[c].status = change[c].status
                                       \/ change'[c].status = "completed"
    BY <1>0, <1>7 DEF Transfer, Change
  <2>2. Running(h, k)' \subseteq Running(h, k)
    BY <2>1 DEF Running, Pending
  <2> QED
    BY <1>a, <1>f, <1>7, <2>2 DEF Transfer
<1>8. ASSUME NEW r \in Requests, Request(r) PROVE Goal
  <2>1. PICK x : change' = Append(change, x) /\ x.new = call[r].handset
    BY <1>8 DEF Request
  <2>2. /\ DOMAIN change' = 1 .. Len(change) + 1
        /\ \A c \in 1 .. Len(change) : change'[c] = change[c]
        /\ change'[Len(change) + 1] = x
    BY <2>1 DEF DelaysInv, TypeOK
  <2>3. Asking(h, k)' \subseteq Asking(h, k) \ {r}
    BY <1>f, <1>8 DEF Request
  <2>4. CASE h # call[r].handset
    <3>1. Running(h, k)' \subseteq Running(h, k)
      BY <1>0, <2>1, <2>2, <2>4 DEF Running, Pending
    <3> QED
      BY <1>a, <2>3, <3>1
  <2>5. CASE h = call[r].handset
    <3>1. Running(h, k)' \subseteq Running(h, k) \cup {Len(change) + 1}
      BY <1>0, <2>1, <2>2 DEF Running, Pending
    <3>2. r \in Asking(h, k)
      BY <1>8, <2>5 DEF Request, Asking
    <3>3. IsFiniteSet(Running(h, k)) /\ IsFiniteSet(Asking(h, k))
      BY CountedAreFinite DEF DelaysInv
    <3>4. Cardinality(Running(h, k)) + Cardinality(Asking(h, k)) <= Cardinality(Requests)
      BY DEF DelaysInv, AskingBounded
    <3> HIDE DEF Goal
    <3> QED
      BY <1>n, <2>3, <3>1, <3>2, <3>3, <3>4, MovedBounded DEF Goal
  <2> QED
    BY <2>4, <2>5
<1>9. ASSUME Tick PROVE Goal
  <2>1. /\ DOMAIN change' = DOMAIN change
        /\ \A c \in DOMAIN change :
              /\ change'[c].new = change[c].new /\ change'[c].status = change[c].status
              /\ change'[c].left = IF change[c].left > 0 THEN change[c].left - 1 ELSE 0
    BY <1>0, <1>9 DEF Tick, Change
  <2>2. Running(h, k)' \subseteq Running(h, k)
    BY <1>0, <2>1 DEF Running, Pending
  <2>3. call' = call
    BY <1>9 DEF Tick
  <2> QED
    BY <1>a, <1>d, <2>2, <2>3
<1>10. CASE UNCHANGED vars
  <2>1. change' = change /\ call' = call
    BY <1>10 DEF vars
  <2>2. Running(h, k)' \subseteq Running(h, k) /\ Asking(h, k)' \subseteq Asking(h, k)
    BY <1>c, <1>d, <2>1
  <2> QED
    BY <1>a, <2>2 DEF Goal
<1> QED
  BY <1>1, <1>2, <1>3, <1>4, <1>5, <1>6, <1>7, <1>8, <1>9, <1>10 DEF Next, Goal

(* However logins of a handset race and ask again, it has no more delays   *)
(* running than there are handlers (login_phone, which looks for a pending *)
(* request and makes one in separate steps).                               *)
THEOREM FewDelays == Spec => []DelaysBounded
<1>1. Init => DelaysInv
  <2> SUFFICES ASSUME Init PROVE DelaysInv
    OBVIOUS
  <2>1. TypeOK /\ HandlersNameAHandset /\ RecheckedExist /\ LaterIsLonger
    BY HandsetAssumption
    DEF Init, TypeOK, HandlersNameAHandset, RecheckedExist, LaterIsLonger, Idle, Local, At
  <2>2. \A h, k : Running(h, k) = {} /\ Asking(h, k) = {}
    BY DEF Init, Running, Pending, Asking, Idle, At
  <2>3. Cardinality({}) = 0 /\ Cardinality(Requests) \in Nat
    BY HandsetAssumption, FS_EmptySet, FS_CardinalityType
  <2>4. AskingBounded
    BY <2>2, <2>3 DEF AskingBounded
  <2> QED
    BY <2>1, <2>4 DEF DelaysInv
<1>2. DelaysInv /\ [Next]_vars => DelaysInv'
  <2> SUFFICES ASSUME DelaysInv, [Next]_vars PROVE DelaysInv'
    OBVIOUS
  <2>1. TypeOK' /\ HandlersNameAHandset'
    BY TypePreserved DEF DelaysInv
  <2>2. RecheckedExist' /\ LaterIsLonger'
    BY RecheckedStay, LaterStaysLonger DEF DelaysInv
  <2> QED
    BY <2>1, <2>2, AskingStaysBounded DEF DelaysInv
<1>3. DelaysInv => DelaysBounded
  <2> SUFFICES ASSUME DelaysInv, NEW h \in Handsets
               PROVE  Cardinality({c \in Pending(h) : change[c].left > 0})
                        <= Cardinality(Requests)
    BY DEF DelaysBounded
  <2>1. {c \in Pending(h) : change[c].left > 0} = Running(h, 0)
    BY ChangesTyped DEF DelaysInv, Running, Pending
  <2>2. IsFiniteSet(Running(h, 0)) /\ IsFiniteSet(Asking(h, 0))
    BY CountedAreFinite DEF DelaysInv
  <2>3. Cardinality(Running(h, 0)) + Cardinality(Asking(h, 0)) <= Cardinality(Requests)
    BY DEF DelaysInv, AskingBounded
  <2>4. /\ Cardinality(Running(h, 0)) \in Nat /\ Cardinality(Asking(h, 0)) \in Nat
        /\ Cardinality(Requests) \in Nat
    BY <2>2, HandsetAssumption, FS_CardinalityType
  <2>5. Cardinality(Running(h, 0)) <= Cardinality(Requests)
    BY <2>3, <2>4
  <2> QED
    BY <2>1, <2>5
<1> QED
  BY <1>1, <1>2, <1>3, PTL DEF Spec
=============================================================================
