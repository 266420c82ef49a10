---------------------------- MODULE HandsetBinding ----------------------------
(***************************************************************************)
(* The handset a user may log in from (POST /auth/login/phone with IMEI    *)
(* binding enabled, right credentials and a handset named; any other login *)
(* leaves these tables alone).  The first login binds its handset.         *)
(* Another handset has to ask to be bound instead and may come back after  *)
(* a delay.  One row per user is guaranteed by the unique constraint of    *)
(* user_device_bindings; nothing guards handset_change_requests.           *)
(***************************************************************************)
EXTENDS Naturals, Sequences, FiniteSets

CONSTANTS
    Handsets,
    NoHandset,
    Requests,     \* handlers that may run at the same time
    Delay,        \* the twelve hours of eligible_at
    MaxChanges    \* bound: change requests made

ASSUME HandsetAssumption ==
    /\ NoHandset \notin Handsets
    /\ Delay \in Nat \ {0} /\ MaxChanges \in Nat
    /\ IsFiniteSet(Requests)

VARIABLES
    bound,    \* user_device_bindings.device_imei of the user
    change,   \* table handset_change_requests, in the order of requested_at
    call      \* handlers: where they are and what they hold

vars == <<bound, change, call>>

Idle == [pc |-> "idle", handset |-> NoHandset, confirm |-> FALSE, record |-> 0]

\* left: the time until eligible_at.
Change == [new : Handsets, status : {"pending", "completed"}, left : 0 .. Delay]

Local == [pc : {"idle", "look", "recheck", "bind", "transfer", "request"},
          handset : Handsets \cup {NoHandset}, confirm : BOOLEAN, record : Nat]

TypeOK ==
    /\ bound \in Handsets \cup {NoHandset}
    /\ change \in Seq(Change)
    /\ call \in [Requests -> Local]

Init ==
    /\ bound = NoHandset
    /\ change = <<>>
    /\ call = [r \in Requests |-> Idle]

At(r, p) == call[r].pc = p
Go(r, p, c) == call' = [call EXCEPT ![r].pc = p, ![r].record = c]
Finish(r) == call' = [call EXCEPT ![r] = Idle]

Pending(h) == {c \in DOMAIN change : change[c].new = h /\ change[c].status = "pending"}
Latest(c, h) == c \in Pending(h) /\ \A d \in Pending(h) : d <= c

-----------------------------------------------------------------------------

\* The binding is read.  A login from the bound handset is granted and changes
\* nothing here.
StartLogin(r, h, confirm) ==
    /\ At(r, "idle") /\ bound # h
    /\ call' = [call EXCEPT ![r] =
                  [pc |-> IF bound = NoHandset THEN "bind" ELSE "look",
                   handset |-> h, confirm |-> confirm, record |-> 0]]
    /\ UNCHANGED <<bound, change>>

Bind(r) ==
    /\ At(r, "bind") /\ bound = NoHandset
    /\ bound' = call[r].handset
    /\ Finish(r)
    /\ UNCHANGED change

\* Another first login was faster: the constraint is violated.
BindFails(r) ==
    /\ At(r, "bind") /\ bound # NoHandset
    /\ Finish(r)
    /\ UNCHANGED <<bound, change>>

\* Mutant: the delay is not looked at.
GrantPendingAtOnce(r) ==
    /\ At(r, "look")
    /\ \E c \in DOMAIN change : Latest(c, call[r].handset) /\ Go(r, "transfer", c)
    /\ UNCHANGED <<bound, change>>

\* The latest pending request of the handset is eligible.
GrantPending(r) ==
    /\ At(r, "look")
    /\ \E c \in DOMAIN change :
         /\ Latest(c, call[r].handset)
         /\ change[c].left = 0
         /\ Go(r, "transfer", c)
    /\ UNCHANGED <<bound, change>>

\* Mutant: a request that is not yet eligible may be repeated.
NeedsRequestAgain(r) ==
    \A c \in Pending(call[r].handset) : change[c].left > 0

NeedsRequest(r) == Pending(call[r].handset) = {}

\* confirm_handover without a pending request makes one.
DecideToRequest(r) ==
    /\ At(r, "look") /\ NeedsRequest(r)
    /\ call[r].confirm
    /\ Go(r, "request", 0)
    /\ UNCHANGED <<bound, change>>

\* Neither a request nor a confirmation: the login is refused.
RefuseUnconfirmed(r) ==
    /\ At(r, "look") /\ NeedsRequest(r)
    /\ ~ call[r].confirm
    /\ Finish(r)
    /\ UNCHANGED <<bound, change>>

\* Not eligible: before refusing, the login asks is_eligible again.
FindTooEarly(r) ==
    /\ At(r, "look")
    /\ \E c \in DOMAIN change :
         /\ Latest(c, call[r].handset)
         /\ change[c].left > 0
         /\ Go(r, "recheck", c)
    /\ UNCHANGED <<bound, change>>

RefuseTooEarly(r) ==
    /\ At(r, "recheck")
    /\ change[call[r].record].left > 0 \/ ~ call[r].confirm
    /\ Finish(r)
    /\ UNCHANGED <<bound, change>>

\* The delay ran out in between: the login goes on as if nothing were pending.
RequestAgain(r) ==
    /\ At(r, "recheck")
    /\ change[call[r].record].left = 0 /\ call[r].confirm
    /\ Go(r, "request", 0)
    /\ UNCHANGED <<bound, change>>

\* One commit for the binding and the request.
Transfer(r) ==
    /\ At(r, "transfer")
    /\ bound' = call[r].handset
    /\ change' = [change EXCEPT ![call[r].record].status = "completed"]
    /\ Finish(r)

Request(r) ==
    /\ At(r, "request") /\ Len(change) < MaxChanges
    /\ change' = Append(change, [new |-> call[r].handset, status |-> "pending",
                                 left |-> Delay])
    /\ Finish(r)
    /\ UNCHANGED bound

Tick ==
    /\ change' = [c \in DOMAIN change |->
                    [change[c] EXCEPT !.left = IF @ > 0 THEN @ - 1 ELSE 0]]
    /\ UNCHANGED <<bound, call>>

Next ==
    \/ \E r \in Requests :
         \/ \E h \in Handsets, confirm \in BOOLEAN : StartLogin(r, h, confirm)
         \/ Bind(r) \/ BindFails(r)
         \/ GrantPending(r) \/ DecideToRequest(r) \/ RefuseUnconfirmed(r)
         \/ FindTooEarly(r) \/ RefuseTooEarly(r) \/ RequestAgain(r)
         \/ Transfer(r) \/ Request(r)
    \/ Tick

Spec == Init /\ [][Next]_vars

-----------------------------------------------------------------------------
(* Properties                                                              *)

\* However logins race, the binding passes to another handset only after that
\* handset asked for it and the delay ran out.
TransferWaits ==
    [][bound # NoHandset /\ bound' # bound =>
         \E c \in DOMAIN change :
            change[c].new = bound' /\ change[c].left = 0]_vars

\* A transfer holds a request of its own handset whose delay is over; time
\* does not bring the delay back.
TransfersAreRipe ==
    \A r \in Requests : At(r, "transfer") =>
        /\ call[r].record \in DOMAIN change
        /\ change[call[r].record].new = call[r].handset
        /\ change[call[r].record].left = 0

\* A handset has no more delays running than there are handlers: only those that
\* looked for a request together can add to them.  The latest counts, so that
\* each of them begins the wait anew, and so does a login that finds the delay not
\* over at its first look and over at its second.
DelaysBounded ==
    \A h \in Handsets :
        Cardinality({c \in Pending(h) : change[c].left > 0}) <= Cardinality(Requests)

\* A handset that is replaced has to ask and wait again: nothing is left
\* pending of the bound handset.
ReplacedWaitsAgain == Pending(bound) = {}
=============================================================================
