---------------------------- MODULE AutoProtection ----------------------------
(***************************************************************************)
(* Arming and disarming of the automatic SOS of one user: the column       *)
(* auto_sos_enabled, the in-process cache active_protection_users in front *)
(* of it (src/app/services/protection_service.py) and the two endpoints    *)
(* that write both, in opposite orders.  The alert an armed prediction     *)
(* raises is the business of SosAlerts.                                    *)
(***************************************************************************)
CONSTANTS
    Requests,     \* handlers that may run at the same time
    Operations,   \* the operations clients use in this instance
    MayFail,      \* whether a commit or a read of the database may fail
    MayRestart    \* whether the process may restart

ASSUME RequestsAssumption ==
    /\ Operations \subseteq {"toggle", "update", "status", "predict"}
    /\ {MayFail, MayRestart} \subseteq BOOLEAN

VARIABLES
    enabled,   \* user_settings.auto_sos_enabled
    cached,    \* whether the user is in active_protection_users
    call,      \* handlers: where they are and what they hold
    verdict,   \* what each handler answered last; "unread" is the answer "inactive"
               \* of a handler whose read of the settings failed
    steady     \* observed: what enabled was all along each handler's call

vars == <<enabled, cached, call, verdict, steady>>

Idle == [pc |-> "idle", op |-> "none", value |-> FALSE, seen |-> FALSE]

Pcs == {"idle", "toggle", "recache", "precache", "update", "check", "read", "fill",
        "fresh"}

Local == [pc : Pcs, op : Operations \cup {"none"}, value : BOOLEAN, seen : BOOLEAN]

Verdicts == {"none", "active", "inactive", "unread", "raised", "suppressed"}

TypeOK ==
    /\ enabled \in BOOLEAN
    /\ cached \in BOOLEAN
    /\ call \in [Requests -> Local]
    /\ verdict \in [Requests -> Verdicts]
    /\ steady \in [Requests -> {"on", "off", "mixed"}]

Init ==
    /\ enabled = FALSE
    /\ cached = FALSE
    /\ call = [r \in Requests |-> Idle]
    /\ verdict = [r \in Requests |-> "none"]
    /\ steady = [r \in Requests |-> "off"]

At(r, p) == call[r].pc = p
Go(r, p) == call' = [call EXCEPT ![r].pc = p]
OnOff(b) == IF b THEN "on" ELSE "off"

\* A commit writes the column only when it changes the value that was loaded.
\* The calls under way see whether the column kept its value.
Write(value, seen) ==
    /\ enabled' = IF value = seen THEN enabled ELSE value
    /\ steady' = [r \in Requests |->
                    IF At(r, "idle") \/ steady[r] = OnOff(enabled') THEN steady[r]
                    ELSE "mixed"]

Answer(r, v) ==
    /\ call' = [call EXCEPT ![r] = Idle]
    /\ verdict' = [verdict EXCEPT ![r] = v]

Start(r, op, p, value) ==
    /\ At(r, "idle") /\ op \in Operations
    /\ call' = [call EXCEPT ![r] = [pc |-> p, op |-> op, value |-> value, seen |-> enabled]]
    /\ verdict' = [verdict EXCEPT ![r] = "none"]
    /\ steady' = [steady EXCEPT ![r] = OnOff(enabled)]
    /\ UNCHANGED <<enabled, cached>>

-----------------------------------------------------------------------------
(* POST /protection/toggle: the database first, then the cache             *)

StartToggle(r, value) == Start(r, "toggle", "toggle", value)

CommitToggle(r) ==
    /\ At(r, "toggle")
    /\ Write(call[r].value, call[r].seen)
    /\ Go(r, "recache")
    /\ UNCHANGED <<cached, verdict>>

\* The commit fails: rollback and an error answer, the cache is not touched.
FailToggle(r) ==
    /\ MayFail /\ At(r, "toggle")
    /\ Answer(r, "none")
    /\ UNCHANGED <<enabled, cached, steady>>

CacheToggle(r) ==
    /\ At(r, "recache")
    /\ cached' = call[r].value
    /\ Answer(r, "none")
    /\ UNCHANGED <<enabled, steady>>

-----------------------------------------------------------------------------
(* PUT /settings: the cache first, then the database                       *)

StartUpdate(r, value) == Start(r, "update", "precache", value)

CacheUpdate(r) ==
    /\ At(r, "precache")
    /\ cached' = call[r].value
    /\ Go(r, "update")
    /\ UNCHANGED <<enabled, verdict, steady>>

CommitUpdate(r) ==
    /\ At(r, "update")
    /\ Write(call[r].value, call[r].seen)
    /\ Answer(r, "none")
    /\ UNCHANGED cached

\* Nothing takes the cache back when the commit fails.
FailUpdate(r) ==
    /\ MayFail /\ At(r, "update")
    /\ Answer(r, "none")
    /\ UNCHANGED <<enabled, cached, steady>>

-----------------------------------------------------------------------------
(* _is_protection_active, its callers and the fresh check of a prediction  *)

StartStatus(r) == Start(r, "status", "check", FALSE)
StartPredict(r) == Start(r, "predict", "check", FALSE)

\* Where a caller goes on when protection is found active.
FoundActive(r) ==
    IF call[r].op = "predict"
      THEN Go(r, "fresh") /\ UNCHANGED verdict
      ELSE Answer(r, "active")

CheckCache(r) ==
    /\ At(r, "check")
    /\ IF cached THEN FoundActive(r) ELSE Go(r, "read") /\ UNCHANGED verdict
    /\ UNCHANGED <<enabled, cached, steady>>

\* Mutant: no fallback to the database.
ReadSettingsNever(r) ==
    /\ At(r, "read")
    /\ Answer(r, "inactive")
    /\ UNCHANGED <<enabled, cached, steady>>

ReadSettings(r) ==
    /\ At(r, "read")
    /\ IF enabled THEN Go(r, "fill") /\ UNCHANGED verdict ELSE Answer(r, "inactive")
    /\ UNCHANGED <<enabled, cached, steady>>

\* Every exception of that read is swallowed, and the answer is False.
FailRead(r) ==
    /\ MayFail /\ At(r, "read")
    /\ Answer(r, "unread")
    /\ UNCHANGED <<enabled, cached, steady>>

FillCache(r) ==
    /\ At(r, "fill")
    /\ cached' = TRUE
    /\ FoundActive(r)
    /\ UNCHANGED <<enabled, steady>>

\* Mutant: the cache is believed.
FreshCheckSkipped(r) ==
    /\ At(r, "fresh")
    /\ Answer(r, "raised")
    /\ UNCHANGED <<enabled, cached, steady>>

FreshCheck(r) ==
    /\ At(r, "fresh")
    /\ Answer(r, IF enabled THEN "raised" ELSE "suppressed")
    /\ UNCHANGED <<enabled, cached, steady>>

\* An exception of the second read is not caught: an error answer.
FailFresh(r) ==
    /\ MayFail /\ At(r, "fresh")
    /\ Answer(r, "none")
    /\ UNCHANGED <<enabled, cached, steady>>

\* The cache is process memory; requests under way are lost.
Restart ==
    /\ MayRestart
    /\ cached' = FALSE
    /\ call' = [r \in Requests |-> Idle]
    /\ verdict' = [r \in Requests |-> "none"]
    /\ UNCHANGED <<enabled, steady>>

Next ==
    \/ \E r \in Requests :
         \/ \E value \in BOOLEAN : StartToggle(r, value) \/ StartUpdate(r, value)
         \/ CommitToggle(r) \/ FailToggle(r) \/ CacheToggle(r)
         \/ CacheUpdate(r) \/ CommitUpdate(r) \/ FailUpdate(r)
         \/ StartStatus(r) \/ StartPredict(r)
         \/ CheckCache(r) \/ ReadSettings(r) \/ FailRead(r) \/ FillCache(r)
         \/ FreshCheck(r) \/ FailFresh(r)
    \/ Restart

Spec == Init /\ [][Next]_vars

-----------------------------------------------------------------------------
(* Properties                                                              *)

\* A prediction made while the user is disarmed from its first to its last
\* step raises no alert, however wrong the cache is.
DisarmedRaisesNothing ==
    \A r \in Requests : verdict[r] = "raised" => steady[r] # "off"

\* A user who is armed all along a call is not told to be unprotected and has
\* no prediction ignored, even after a restart has emptied the cache or another
\* handler has written it wrong, as long as the database could be read: an
\* exception of the read in _is_protection_active counts as "not armed".
ArmedMissedOnlyUnread ==
    \A r \in Requests : verdict[r] \in {"inactive", "suppressed"} => steady[r] # "on"

\* The same without the exception: the fallback to the database finds every
\* armed user.
ArmedIsNeverMissed ==
    \A r \in Requests :
        verdict[r] \in {"inactive", "unread", "suppressed"} => steady[r] # "on"

\* The description of GET /protection/status: it returns whether protection
\* is currently active.
StatusTellsTheTruth ==
    \A r \in Requests : verdict[r] = "active" => steady[r] # "off"
=============================================================================
