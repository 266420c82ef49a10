------------------------------ MODULE SosAlerts ------------------------------
(***************************************************************************)
(* The SOS alerts of one user: src/app/services/sos_service.py, the        *)
(* handlers of src/app/routes/sos.py that call it and the cooldowns of     *)
(* src/app/services/protection_service.py.                                 *)
(*                                                                         *)
(* Synchronous FastAPI handlers run in a thread pool, each with a database *)
(* session of its own, and every alert starts a daemon thread that         *)
(* dispatches it when the app does not.  No row is locked or versioned: a  *)
(* handler reads a row, decides, and commits later the columns it changed. *)
(* A thread is therefore a small program whose steps are its database      *)
(* reads, its commits and the messages it sends.                           *)
(*                                                                         *)
(* Time is kept as timers in an abstract unit: what is left of a cooldown  *)
(* or of a sleep, and the age of an alert up to just past its expiry; the  *)
(* code compares time with nothing else, so the timers are bounded without *)
(* losing a behaviour.                                                     *)
(***************************************************************************)
EXTENDS Naturals

CONSTANTS
    Contacts,        \* the user's trusted contacts
    Requests,        \* handlers that may run at the same time
    Operations,      \* the operations clients use in this instance
    MaxAlerts,       \* bound: alerts created
    MaxFaults,       \* bound: restarts and failed dispatches
    DispatchDelay,   \* COUNTDOWN_SECONDS + 2, the sleep of the watchdog
    ManualCooldown,  \* MANUAL_SOS_COOLDOWN_SECONDS
    Expiry,          \* COUNTDOWN_EXPIRY_SECONDS
    AutoCooldown,    \* SOS_COOLDOWN_SECONDS
    Prompt           \* whether a due watchdog starts, and a created alert gets
                     \* its watchdog, before time moves on

Alerts == 1 .. MaxAlerts
NoAlert == 0

\* A watchdog is named by the alert it guards.
Threads == Requests \cup Alerts

\* "auto" stands for auto_fall and auto_shake, which no code tells apart.
Kinds == {"manual", "hardware_distress", "bracelet", "iot_button", "auto"}

\* "predict" is a trigger of kind "auto" made by predict_from_window or
\* analyze_sensor_data, which touch the cooldown once more.
Jobs == Kinds \cup {"predict", "send", "cancel", "safe"}
Statuses == {"countdown", "sent", "cancelled"}
Resolutions == {"cancelled", "false_alarm", "user_marked_safe", "expired"}

ASSUME BoundsAssumption == MaxAlerts \in Nat /\ MaxFaults \in Nat

ASSUME TimesAssumption ==
    /\ {DispatchDelay, ManualCooldown, Expiry, AutoCooldown} \subseteq Nat \ {0}
    /\ DispatchDelay < ManualCooldown
    /\ ManualCooldown < Expiry
    /\ Expiry < AutoCooldown
    /\ Prompt \in BOOLEAN

ASSUME ClientsAssumption ==
    /\ Operations \subseteq Jobs \cup {"expire"}
    /\ Requests \cap Alerts = {}

VARIABLES
    row,         \* table sos_alerts: status, kind, resolution and age
    manualLeft,  \* what is left of the user's cooldown in _manual_sos_cooldown
    autoLeft,    \* what is left of the user's cooldown in _sos_cooldown
    thread,      \* handlers and watchdogs: where they are and what they hold
    sleep,       \* what is left of each watchdog's time.sleep
    told,        \* observed: contacts an SOS message was sent to, per alert
    cleared,     \* observed: contacts an "I am safe" was sent to, per alert
    faults       \* restarts and failed dispatches so far

vars == <<row, manualLeft, autoLeft, thread, sleep, told, cleared, faults>>
cooldowns == <<manualLeft, autoLeft>>
messages == <<told, cleared>>

NoRow == [status |-> "none", kind |-> "none", resolution |-> "null", age |-> 0]
Unread == [status |-> "none", resolution |-> "null"]
Local(p, j, a, td, s) == [pc |-> p, job |-> j, alert |-> a, todo |-> td, seen |-> s]
Idle == Local("idle", "none", NoAlert, {}, Unread)
Watchdog(p) == Local(p, "none", NoAlert, {}, Unread)
Triggering(p, job) == Local(p, job, NoAlert, {}, Unread)

Row == [status : Statuses \cup {"none"}, kind : Kinds \cup {"none"},
        resolution : Resolutions \cup {"null"}, age : 0 .. Expiry + 1]

Seen == [status : Statuses \cup {"none"}, resolution : Resolutions \cup {"null"}]

Pcs == {"idle", "trigger", "find", "stale", "insert", "mark", "sending",
        "cancel", "safe", "notify", "sleeping", "over", "dead"}

Thread == [pc : Pcs, job : Jobs \cup {"none"}, alert : Alerts \cup {NoAlert},
           todo : SUBSET Contacts, seen : Seen]

TypeOK ==
    /\ row \in [Alerts -> Row]
    /\ manualLeft \in 0 .. ManualCooldown
    /\ autoLeft \in 0 .. AutoCooldown
    /\ thread \in [Threads -> Thread]
    /\ sleep \in [Alerts -> 0 .. DispatchDelay]
    /\ told \in [Alerts -> SUBSET Contacts]
    /\ cleared \in [Alerts -> SUBSET Contacts]
    /\ faults \in 0 .. MaxFaults

Init ==
    /\ row = [a \in Alerts |-> NoRow]
    /\ manualLeft = 0
    /\ autoLeft = 0
    /\ thread = [t \in Threads |-> Idle]
    /\ sleep = [a \in Alerts |-> 0]
    /\ told = [a \in Alerts |-> {}]
    /\ cleared = [a \in Alerts |-> {}]
    /\ faults = 0

-----------------------------------------------------------------------------
(* Reading and writing the database                                        *)

Created(a) == row[a].status # "none"
InCountdown(a) == row[a].status = "countdown"
Stale(a) == InCountdown(a) /\ row[a].age > Expiry

\* What a session remembers of the row it loaded.
Loaded(a) == [status |-> row[a].status, resolution |-> row[a].resolution]

\* A commit issues an UPDATE of the columns whose value differs from the
\* loaded one, whatever other threads wrote to the row in between.
Save(a, seen, status, resolution) ==
    row' = [row EXCEPT
              ![a].status = IF status = seen.status THEN @ ELSE status,
              ![a].resolution = IF resolution = seen.resolution THEN @ ELSE resolution]

Become(t, local) == thread' = [thread EXCEPT ![t] = local]
At(t, p) == thread[t].pc = p

-----------------------------------------------------------------------------
(* trigger_sos                                                             *)

KindOf(job) == IF job \in Kinds THEN job ELSE "auto"

\* Mutant: the two stores are swapped.
OnCooldownSwapped(kind) ==
    CASE kind = "auto" -> manualLeft > 0
      [] kind = "iot_button" -> FALSE
      [] OTHER -> autoLeft > 0

OnCooldown(kind) ==
    CASE kind = "auto" -> autoLeft > 0
      [] kind = "iot_button" -> FALSE
      [] OTHER -> manualLeft > 0

\* The sensor paths mark the auto cooldown whatever trigger_sos returned.
MarkAfterReturn(job) ==
    autoLeft' = IF job = "predict" THEN AutoCooldown ELSE autoLeft

\* POST /sos/trigger, a single press of the button, POST /device/alert (the
\* bracelet, the only one that does not ask for a contact first).
StartTrigger(r, kind) ==
    /\ At(r, "idle") /\ kind \in Operations
    /\ kind = "bracelet" \/ Contacts # {}
    /\ Become(r, Triggering("trigger", kind))
    /\ UNCHANGED <<row, cooldowns, sleep, messages, faults>>

\* POST /protection/predict and /protection/sensor-data of an armed user.
StartPredict(r) ==
    /\ At(r, "idle") /\ "predict" \in Operations
    /\ ~ OnCooldown("auto")
    /\ Become(r, Triggering("trigger", "predict"))
    /\ UNCHANGED <<row, cooldowns, sleep, messages, faults>>

\* On cooldown the caller gets the alert in countdown, if any: no change.
CheckCooldown(r) ==
    /\ At(r, "trigger")
    /\ \/ /\ OnCooldown(KindOf(thread[r].job))
          /\ MarkAfterReturn(thread[r].job)
          /\ Become(r, Idle)
       \/ /\ ~ OnCooldown(KindOf(thread[r].job))
          /\ Become(r, Triggering("find", thread[r].job))
          /\ UNCHANGED autoLeft
    /\ UNCHANGED <<row, manualLeft, sleep, messages, faults>>

\* The query has no ORDER BY: any alert in countdown may come first.
FindCountdown(r) ==
    /\ At(r, "find")
    /\ \/ /\ \A a \in Alerts : ~ InCountdown(a)
          /\ Become(r, Triggering("insert", thread[r].job))
          /\ UNCHANGED autoLeft
       \/ /\ \E a \in Alerts : InCountdown(a) /\ ~ Stale(a)
          /\ MarkAfterReturn(thread[r].job)
          /\ Become(r, Idle)
       \/ \E a \in Alerts :
             /\ Stale(a)
             /\ Become(r, Local("stale", thread[r].job, a, {}, Loaded(a)))
             /\ UNCHANGED autoLeft
    /\ UNCHANGED <<row, manualLeft, sleep, messages, faults>>

\* Mutant: the stale alert is dropped without being cancelled.
CancelStaleForgotten(r) ==
    /\ At(r, "stale")
    /\ Become(r, Triggering("insert", thread[r].job))
    /\ UNCHANGED <<row, cooldowns, sleep, messages, faults>>

CancelStale(r) ==
    /\ At(r, "stale")
    /\ Save(thread[r].alert, thread[r].seen, "cancelled", thread[r].seen.resolution)
    /\ Become(r, Triggering("insert", thread[r].job))
    /\ UNCHANGED <<cooldowns, sleep, messages, faults>>

\* Alerts are numbered in the order of their insertion (triggered_at).
InsertAlert(r) ==
    /\ At(r, "insert")
    /\ \E a \in Alerts :
         /\ ~ Created(a)
         /\ \A b \in 1 .. a - 1 : Created(b)
         /\ row' = [row EXCEPT ![a] = [status |-> "countdown",
                                       kind |-> KindOf(thread[r].job),
                                       resolution |-> "null", age |-> 0]]
         /\ Become(r, Local("mark", thread[r].job, a, {}, Unread))
    /\ UNCHANGED <<cooldowns, sleep, messages, faults>>

\* After the commit: the cooldown is marked and the watchdog thread started.
MarkAndArm(r) ==
    LET a == thread[r].alert
        kind == KindOf(thread[r].job)
    IN /\ At(r, "mark")
       /\ autoLeft' = IF kind = "auto" THEN AutoCooldown ELSE autoLeft
       /\ manualLeft' = IF kind \in {"auto", "iot_button"}
                          THEN manualLeft ELSE ManualCooldown
       /\ thread' = [thread EXCEPT ![r] = Idle, ![a] = Watchdog("sleeping")]
       /\ sleep' = [sleep EXCEPT ![a] = DispatchDelay]
       /\ UNCHANGED <<row, messages, faults>>

-----------------------------------------------------------------------------
(* dispatch_sos, called by POST /sos/send-now and by the watchdog          *)

\* What is left of a thread when its call is over.
Ended(t) == IF t \in Alerts THEN Watchdog("over") ELSE Idle

Dispatching(a) == Local("sending", "send", a, Contacts, Loaded(a))

\* Mutant: only an alert already sent is refused.
StartSendUnlessSent(r, a) ==
    /\ At(r, "idle") /\ "send" \in Operations
    /\ row[a].status \in {"countdown", "cancelled"}
    /\ Become(r, Dispatching(a))
    /\ UNCHANGED <<row, cooldowns, sleep, messages, faults>>

StartSend(r, a) ==
    /\ At(r, "idle") /\ "send" \in Operations
    /\ InCountdown(a)
    /\ Become(r, Dispatching(a))
    /\ UNCHANGED <<row, cooldowns, sleep, messages, faults>>

\* Mutants: the watchdog leaves an expired alert alone, or waits for one.
WakeWatchdogUnlessStale(a) ==
    /\ At(a, "sleeping") /\ sleep[a] = 0
    /\ Become(a, IF InCountdown(a) /\ ~ Stale(a) THEN Dispatching(a) ELSE Watchdog("over"))
    /\ UNCHANGED <<row, cooldowns, sleep, messages, faults>>

WakeWatchdogIfStale(a) ==
    /\ At(a, "sleeping") /\ sleep[a] = 0
    /\ Become(a, IF Stale(a) THEN Dispatching(a) ELSE Watchdog("over"))
    /\ UNCHANGED <<row, cooldowns, sleep, messages, faults>>

\* The watchdog looks at its alert once, when its sleep is over.
WakeWatchdog(a) ==
    /\ At(a, "sleeping") /\ sleep[a] = 0
    /\ Become(a, IF InCountdown(a) THEN Dispatching(a) ELSE Watchdog("over"))
    /\ UNCHANGED <<row, cooldowns, sleep, messages, faults>>

\* Contacts are told one after the other; a failed delivery is only reported.
SendSos(t, c) ==
    /\ At(t, "sending") /\ c \in thread[t].todo
    /\ told' = [told EXCEPT ![thread[t].alert] = @ \cup {c}]
    /\ Become(t, [thread[t] EXCEPT !.todo = @ \ {c}])
    /\ UNCHANGED <<row, cooldowns, sleep, cleared, faults>>

\* Mutant: the status is committed before the messages are sent.
CommitSentFirst(t) ==
    /\ At(t, "sending") /\ row[thread[t].alert].status # "sent"
    /\ Save(thread[t].alert, thread[t].seen, "sent", thread[t].seen.resolution)
    /\ UNCHANGED <<thread, cooldowns, sleep, messages, faults>>

\* The status set in memory reaches the database after the last message.
CommitSent(t) ==
    /\ At(t, "sending") /\ thread[t].todo = {}
    /\ Save(thread[t].alert, thread[t].seen, "sent", thread[t].seen.resolution)
    /\ Become(t, Ended(t))
    /\ UNCHANGED <<cooldowns, sleep, messages, faults>>

\* An exception leaves the alert as it is; the watchdog only logs it.
FailDispatch(t) ==
    /\ At(t, "sending") /\ faults < MaxFaults
    /\ faults' = faults + 1
    /\ Become(t, IF t \in Alerts THEN Watchdog("dead") ELSE Idle)
    /\ UNCHANGED <<row, cooldowns, sleep, messages>>

-----------------------------------------------------------------------------
(* cancel_sos and mark_user_safe                                           *)

Open(a) == row[a].status \in {"countdown", "sent"}

\* POST /sos/cancel, of the alert named or of the latest in countdown, and
\* the cancels of src/app/routes/device.py.
StartCancel(r, a) ==
    /\ At(r, "idle") /\ "cancel" \in Operations
    /\ Open(a)
    /\ Become(r, Local("cancel", "cancel", a, {}, Loaded(a)))
    /\ UNCHANGED <<row, cooldowns, sleep, messages, faults>>

\* Who hears "I am safe" after a cancel depends on what triggered the alert.
\* Mutant: whatever triggered it.
HeardOnAnyCancel(a) == Contacts

HeardOnCancel(a) ==
    IF row[a].kind \in {"manual", "iot_button"} THEN Contacts ELSE {}

CommitCancel(r) ==
    LET a == thread[r].alert
    IN /\ At(r, "cancel")
       /\ Save(a, thread[r].seen, "cancelled", "cancelled")
       /\ Become(r, Local("notify", "cancel", a, HeardOnCancel(a), Unread))
       /\ UNCHANGED <<cooldowns, sleep, messages, faults>>

StartSafe(r, a) ==
    /\ At(r, "idle") /\ "safe" \in Operations
    /\ Open(a) /\ row[a].resolution # "user_marked_safe"
    /\ Become(r, Local("safe", "safe", a, {}, Loaded(a)))
    /\ UNCHANGED <<row, cooldowns, sleep, messages, faults>>

CommitSafe(r) ==
    LET a == thread[r].alert
        wasSent == thread[r].seen.status = "sent"
    IN /\ At(r, "safe")
       /\ Save(a, thread[r].seen, "cancelled",
               IF wasSent THEN "user_marked_safe" ELSE "false_alarm")
       /\ Become(r, Local("notify", "safe", a,
                          IF wasSent THEN Contacts ELSE {}, Unread))
       /\ UNCHANGED <<cooldowns, sleep, messages, faults>>

SendAllClear(r, c) ==
    /\ At(r, "notify") /\ c \in thread[r].todo
    /\ cleared' = [cleared EXCEPT ![thread[r].alert] = @ \cup {c}]
    /\ Become(r, [thread[r] EXCEPT !.todo = @ \ {c}])
    /\ UNCHANGED <<row, cooldowns, sleep, told, faults>>

\* A cancel ends by clearing the manual cooldown, whatever it cancelled.
EndNotify(r) ==
    /\ At(r, "notify") /\ thread[r].todo = {}
    /\ manualLeft' = IF thread[r].job = "cancel" THEN 0 ELSE manualLeft
    /\ Become(r, Idle)
    /\ UNCHANGED <<row, autoLeft, sleep, messages, faults>>

-----------------------------------------------------------------------------
(* Housekeeping, time and crashes                                          *)

\* GET /sos/active and /sos/history begin with one UPDATE statement.
ExpireStale ==
    /\ "expire" \in Operations
    /\ \E a \in Alerts : Stale(a)
    /\ row' = [a \in Alerts |->
                 IF Stale(a)
                   THEN [row[a] EXCEPT !.status = "cancelled",
                                       !.resolution = "expired"]
                   ELSE row[a]]
    /\ UNCHANGED <<cooldowns, thread, sleep, messages, faults>>

\* The database survives a restart; threads and cooldowns are process memory
\* and nothing arms the watchdogs again.
Restart ==
    /\ faults < MaxFaults
    /\ faults' = faults + 1
    /\ manualLeft' = 0
    /\ autoLeft' = 0
    /\ thread' = [t \in Threads |->
                    IF /\ t \in Alerts
                       /\ \/ thread[t].pc \in {"sleeping", "sending"}
                          \/ InCountdown(t) /\ At(t, "idle")
                      THEN Watchdog("dead")
                      ELSE IF t \in Alerts THEN thread[t] ELSE Idle]
    /\ sleep' = [a \in Alerts |-> 0]
    /\ UNCHANGED <<row, messages>>

\* Mutant: the timer runs below zero.
ElapsedPastZero(left) == left - 1

Elapsed(left) == IF left > 0 THEN left - 1 ELSE 0

Tick ==
    /\ Prompt => /\ \A a \in Alerts : At(a, "sleeping") => sleep[a] > 0
                 /\ \A r \in Requests : ~ At(r, "mark")
    /\ manualLeft' = Elapsed(manualLeft)
    /\ autoLeft' = Elapsed(autoLeft)
    /\ sleep' = [a \in Alerts |-> Elapsed(sleep[a])]
    /\ row' = [a \in Alerts |->
                 IF Created(a) /\ row[a].age <= Expiry
                   THEN [row[a] EXCEPT !.age = @ + 1] ELSE row[a]]
    /\ UNCHANGED <<thread, messages, faults>>

-----------------------------------------------------------------------------
(* The specification                                                       *)

\* A client sends a request.
Call(r) ==
    \/ \E kind \in Kinds : StartTrigger(r, kind)
    \/ StartPredict(r)
    \/ \E a \in Alerts : StartSend(r, a) \/ StartCancel(r, a) \/ StartSafe(r, a)

\* A handler goes on.
Handle(r) ==
    \/ CheckCooldown(r) \/ FindCountdown(r) \/ CancelStale(r)
    \/ InsertAlert(r) \/ MarkAndArm(r)
    \/ CommitCancel(r) \/ CommitSafe(r) \/ EndNotify(r)
    \/ \E c \in Contacts : SendAllClear(r, c)

\* A dispatch goes on, in a handler or in a watchdog.
Dispatch(t) == CommitSent(t) \/ \E c \in Contacts : SendSos(t, c)

Next ==
    \/ \E r \in Requests : Call(r) \/ Handle(r)
    \/ \E a \in Alerts : WakeWatchdog(a)
    \/ \E t \in Threads : Dispatch(t) \/ FailDispatch(t)
    \/ ExpireStale
    \/ Restart
    \/ Tick

Spec == Init /\ [][Next]_vars

\* The operating system runs every thread and time passes; nothing obliges a
\* client to send a request.
Fairness ==
    /\ \A r \in Requests : WF_vars(Handle(r))
    /\ \A a \in Alerts : WF_vars(WakeWatchdog(a))
    /\ \A t \in Threads : WF_vars(Dispatch(t))
    /\ WF_vars(Tick)

FairSpec == Spec /\ Fairness

-----------------------------------------------------------------------------
(* Properties                                                              *)

DispatchersOf(a) == {t \in Threads : At(t, "sending") /\ thread[t].alert = a}

\* Whatever handlers and the watchdog do at the same time, an alert that the
\* database shows as sent was sent to every contact (dispatch_sos commits the
\* status after its last message).
SentToldEveryone ==
    \A a \in Alerts : row[a].status = "sent" => told[a] = Contacts

\* Contacts get the "user marked safe" ending of mark_user_safe only for an
\* alarm all of them had been sent, although the status it is chosen from may
\* be stale.
MarkedSafeWasSent ==
    \A a \in Alerts :
        row[a].resolution = "user_marked_safe" => told[a] = Contacts

\* The safety net of trigger_sos: an alert in countdown has a thread that
\* will look at it, the handler about to start its watchdog or the watchdog;
\* only a crash or an exception leaves it alone.
CountdownIsGuarded ==
    \A a \in Alerts : InCountdown(a) =>
        \/ thread[a].pc \in {"sleeping", "sending", "dead"}
        \/ \E r \in Requests : At(r, "mark") /\ thread[r].alert = a

\* What makes the three above inductive.  A dispatch holds an alert it read in
\* countdown and has told the contacts it is done with; a handler that will
\* commit "user marked safe" has read an alert that was sent.
DispatchesHoldTheirAlert ==
    /\ \A t \in Threads : At(t, "sending") =>
          /\ thread[t].alert \in Alerts
          /\ thread[t].seen.status = "countdown"
          /\ Contacts \ thread[t].todo \subseteq told[thread[t].alert]
    /\ \A r \in Requests : At(r, "safe") /\ thread[r].seen.status = "sent" =>
          told[thread[r].alert] = Contacts

\* A watchdog guards the alert it is named by and is started once, by the
\* only handler that created the alert.
WatchdogsKnowTheirAlert ==
    /\ \A r \in Requests : thread[r].pc \notin {"sleeping", "over", "dead"}
    /\ \A a \in Alerts :
          /\ thread[a].pc \in {"idle", "sleeping", "sending", "over", "dead"}
          /\ ~ Created(a) => At(a, "idle")
          /\ At(a, "sending") => thread[a].alert = a
    /\ \A r \in Requests : At(r, "mark") =>
          /\ thread[r].alert \in Alerts
          /\ Created(thread[r].alert)
          /\ At(thread[r].alert, "idle")
    /\ \A q, r \in Requests :
          At(q, "mark") /\ At(r, "mark") /\ thread[q].alert = thread[r].alert => q = r

\* Cancelled is final as soon as no dispatch is under way: nothing sends the
\* alert again, neither a late watchdog nor a repeated request.
CancelledIsFinal ==
    [][\A a \in Alerts :
          row[a].status = "cancelled" /\ DispatchersOf(a) = {}
            => row'[a].status = "cancelled" /\ DispatchersOf(a)' = {}]_vars

\* A contact hears "I am safe" about an alert of a sensor or of the bracelet
\* only after having been sent its SOS: a cancel during the countdown of such
\* an alert is silent.
NoAllClearOutOfTheBlue ==
    \A a \in Alerts :
        row[a].kind \notin {"manual", "iot_button"} => cleared[a] \subseteq told[a]

\* One countdown at a time.
SoleCountdown ==
    \A a, b \in Alerts : InCountdown(a) /\ InCountdown(b) => a = b

\* No automatic alert is created while the ten minutes of the last one run,
\* and none by hand or by the bracelet within the double-tap guard.  The guard
\* is passed several steps before the alert is created.
CooldownHolds ==
    [][\A a \in Alerts :
          ~ Created(a) /\ Created(a)' =>
            /\ row'[a].kind = "auto" => autoLeft = 0
            /\ row'[a].kind \in {"manual", "hardware_distress", "bracelet"}
                 => manualLeft = 0]_vars

\* The detailed specification implements the abstract one.
Lifecycle == INSTANCE AlertLifecycle WITH
    Dispatchers <- Threads,
    phase <- [a \in Alerts |-> row[a].status],
    underway <- [a \in Alerts |-> DispatchersOf(a)]

RefinesLifecycle == Lifecycle!Spec

\* As long as the process neither restarts nor fails, every countdown ends,
\* whether or not the app is heard of again.
CountdownEnds ==
    \A a \in Alerts : InCountdown(a) ~> ~ InCountdown(a)

\* An alert is sent unless the user ends it, by a cancel or by "I am safe":
\* neither the housekeeping nor another trigger lets one lapse before its
\* watchdog has looked at it, as long as watchdogs are on time and nothing
\* crashes.  This is the safety net of trigger_sos, not what
\* get_countdown_status says: see UnansweredIsCancelled.
UnattendedIsSent ==
    \A a \in Alerts :
        InCountdown(a) ~> \/ row[a].status = "sent"
                         \/ row[a].resolution \in {"cancelled", "false_alarm"}

\* The comment of get_countdown_status: "The backend stale-cleanup
\* (COUNTDOWN_EXPIRY_SECONDS=60s) will cancel this alert if /send-now is never
\* called."
UnansweredIsCancelled ==
    "send" \notin Operations =>
        \A a \in Alerts : InCountdown(a) ~> row[a].status = "cancelled"

\* The comment of mark_user_safe: "SOS was never dispatched; no contacts to
\* notify".
FalseAlarmWasNeverDispatched ==
    \A a \in Alerts : row[a].resolution = "false_alarm" => told[a] = {}

\* The idempotency guard of mark_user_safe takes an alert marked safe for one
\* that is over.
MarkedSafeIsOver ==
    \A a \in Alerts :
        row[a].resolution = "user_marked_safe" => row[a].status = "cancelled"

\* The comment of trigger_sos: a manual SOS never blocks an auto-SOS.  The
\* auto cooldown runs only when an alert of a sensor was created.
OnlyAutoBlocksAuto ==
    autoLeft > 0 => \E a \in Alerts : row[a].kind = "auto"

\* A contact that was told "I am safe" is not sent the SOS of that alert
\* afterwards.
AllClearIsTheLastWord ==
    [][\A a \in Alerts : (told'[a] \ told[a]) \cap cleared[a] = {}]_vars
=============================================================================
