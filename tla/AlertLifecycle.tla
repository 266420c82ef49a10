--------------------------- MODULE AlertLifecycle ----------------------------
(***************************************************************************)
(* What the alert service promises of every alert, without requests,       *)
(* sessions, clocks or cooldowns.  An alert is opened in countdown and     *)
(* never goes back to it.  Contacts are told only while a dispatch is      *)
(* under way, a dispatch begins only in countdown, and the alert counts as *)
(* sent only when a dispatch ends with every contact told.  An alert may   *)
(* be closed at any time; one that is closed while a dispatch is under way *)
(* may still end up as sent, which is the price of deciding on a status    *)
(* read earlier and the reason why dispatches are part of the promise.     *)
(***************************************************************************)
CONSTANTS Alerts, Contacts, Dispatchers

VARIABLES
    phase,     \* status of every alert
    told,      \* contacts an SOS message was sent to
    underway   \* dispatches that began and did not end

lifecycleVars == <<phase, told, underway>>

Init ==
    /\ phase = [a \in Alerts |-> "none"]
    /\ told = [a \in Alerts |-> {}]
    /\ underway = [a \in Alerts |-> {}]

OpenAlert(a) ==
    /\ phase[a] = "none"
    /\ phase' = [phase EXCEPT ![a] = "countdown"]
    /\ UNCHANGED <<told, underway>>

BeginDispatch(a, d) ==
    /\ phase[a] = "countdown" /\ d \notin underway[a]
    /\ underway' = [underway EXCEPT ![a] = @ \cup {d}]
    /\ UNCHANGED <<phase, told>>

Tell(a, c) ==
    /\ underway[a] # {}
    /\ told' = [told EXCEPT ![a] = @ \cup {c}]
    /\ UNCHANGED <<phase, underway>>

EndDispatch(a, d) ==
    /\ d \in underway[a] /\ told[a] = Contacts
    /\ phase' = [phase EXCEPT ![a] = "sent"]
    /\ underway' = [underway EXCEPT ![a] = @ \ {d}]
    /\ UNCHANGED told

\* One dispatch fails, or a crash ends all of them.
AbortDispatches ==
    /\ \E left \in [Alerts -> SUBSET Dispatchers] :
         /\ \A a \in Alerts : left[a] \subseteq underway[a]
         /\ underway' = left
    /\ UNCHANGED <<phase, told>>

\* Cancelled by the user, as a false alarm, or expired (several at once).
Close ==
    /\ \E closed \in SUBSET {a \in Alerts : phase[a] # "none"} :
         phase' = [a \in Alerts |-> IF a \in closed THEN "cancelled" ELSE phase[a]]
    /\ UNCHANGED <<told, underway>>

Next ==
    \/ \E a \in Alerts : OpenAlert(a)
    \/ \E a \in Alerts, d \in Dispatchers : BeginDispatch(a, d) \/ EndDispatch(a, d)
    \/ \E a \in Alerts, c \in Contacts : Tell(a, c)
    \/ AbortDispatches
    \/ Close

Spec == Init /\ [][Next]_lifecycleVars
=============================================================================
