--------------------------- MODULE SosAlertsProofs ---------------------------
(***************************************************************************)
(* Safety of the SOS alerts for any number of contacts, handlers, alerts,  *)
(* faults and any durations: the type invariant first, then the invariants *)
(* about what threads hold, from which the safety properties follow, what  *)
(* one handler at a time adds, and the refinement of AlertLifecycle.       *)
(***************************************************************************)
EXTENDS SosAlerts, TLAPS

USE DEF Alerts, NoAlert, Threads

(* The rows a commit writes are well typed.                                *)
LEMMA SaveTyped ==
    ASSUME row \in [Alerts -> Row], NEW a, NEW seen,
           NEW status \in Statuses, NEW resolution \in Resolutions \cup {"null"},
           Save(a, seen, status, resolution)
    PROVE  row' \in [Alerts -> Row]
<1> DEFINE st(b) == IF status = seen.status THEN row[b].status ELSE status
           re(b) == IF resolution = seen.resolution THEN row[b].resolution ELSE resolution
           new(b) == [row[b] EXCEPT !.status = st(b), !.resolution = re(b)]
<1>1. ASSUME NEW b \in Alerts PROVE new(b) \in Row
  <2>1. row[b] \in Row
    OBVIOUS
  <2>2. st(b) \in Statuses \cup {"none"} /\ re(b) \in Resolutions \cup {"null"}
    BY <2>1 DEF Row
  <2> HIDE DEF st, re
  <2> QED
    BY <2>1, <2>2 DEF Row
<1>2. row' = [row EXCEPT ![a] = new(a)]
  BY DEF Save
<1> HIDE DEF new
<1> QED
  BY <1>1, <1>2

(* What a thread becomes is well typed when its parts are.                 *)
LEMMA LocalTyped ==
    ASSUME NEW p \in Pcs, NEW j \in Jobs \cup {"none"}, NEW a \in Alerts \cup {NoAlert},
           NEW td \in SUBSET Contacts, NEW s \in Seen
    PROVE  Local(p, j, a, td, s) \in Thread
BY DEF Local, Thread

LEMMA RestTyped ==
    /\ Unread \in Seen
    /\ Idle \in Thread
    /\ \A p \in Pcs : Watchdog(p) \in Thread
<1>1. Unread \in Seen
  BY DEF Unread, Seen
<1> QED
  BY <1>1, LocalTyped DEF Idle, Watchdog, Pcs

LEMMA LoadedTyped ==
    ASSUME row \in [Alerts -> Row], NEW a \in Alerts
    PROVE  Loaded(a) \in Seen
BY DEF Loaded, Seen, Row

LEMMA BecomeTyped ==
    ASSUME thread \in [Threads -> Thread], NEW t, NEW local \in Thread, Become(t, local)
    PROVE  thread' \in [Threads -> Thread]
BY DEF Become

LEMMA FieldsTyped ==
    ASSUME thread \in [Threads -> Thread], NEW t \in Threads
    PROVE  /\ thread[t].job \in Jobs \cup {"none"}
           /\ thread[t].alert \in Alerts \cup {NoAlert}
           /\ thread[t].todo \in SUBSET Contacts
           /\ thread[t].seen \in Seen
           /\ thread[t].seen.resolution \in Resolutions \cup {"null"}
           /\ \A p \in Pcs : Triggering(p, thread[t].job) \in Thread
<1>1. /\ thread[t].job \in Jobs \cup {"none"}
      /\ thread[t].alert \in Alerts \cup {NoAlert}
      /\ thread[t].todo \in SUBSET Contacts
      /\ thread[t].seen \in Seen
  BY DEF Thread
<1>2. thread[t].seen.resolution \in Resolutions \cup {"null"}
  BY <1>1 DEF Seen
<1> QED
  BY <1>1, <1>2, LocalTyped, RestTyped DEF Triggering

LEMMA TypesInit == Init => TypeOK
<1>1. NoRow \in Row
  BY TimesAssumption DEF NoRow, Row
<1> QED
  BY <1>1, RestTyped, BoundsAssumption, TimesAssumption DEF Init, TypeOK

LEMMA TypesStep == TypeOK /\ [Next]_vars => TypeOK'
<1> SUFFICES ASSUME TypeOK, [Next]_vars PROVE TypeOK'
  OBVIOUS
<1> USE BoundsAssumption, TimesAssumption, RestTyped DEF TypeOK
<1>1. ASSUME NEW r \in Requests, NEW kind \in Kinds, StartTrigger(r, kind)
      PROVE  TypeOK'
  <2>1. Triggering("trigger", kind) \in Thread
    BY LocalTyped DEF Triggering, Jobs, Pcs
  <2> QED
    BY <1>1, <2>1, BecomeTyped DEF StartTrigger, cooldowns, messages
<1>2. ASSUME NEW r \in Requests, StartPredict(r) PROVE TypeOK'
  <2>1. Triggering("trigger", "predict") \in Thread
    BY LocalTyped DEF Triggering, Jobs, Pcs
  <2> QED
    BY <1>2, <2>1, BecomeTyped DEF StartPredict, cooldowns, messages
<1>3. ASSUME NEW r \in Requests, CheckCooldown(r) PROVE TypeOK'
  <2>1. Triggering("find", thread[r].job) \in Thread
    BY FieldsTyped DEF Pcs
  <2>2. thread' \in [Threads -> Thread]
    BY <1>3, <2>1, BecomeTyped DEF CheckCooldown
  <2> QED
    BY <1>3, <2>2 DEF CheckCooldown, MarkAfterReturn, messages
<1>4. ASSUME NEW r \in Requests, FindCountdown(r) PROVE TypeOK'
  <2>1. Triggering("insert", thread[r].job) \in Thread
    BY FieldsTyped DEF Pcs
  <2>2. ASSUME NEW a \in Alerts
        PROVE  Local("stale", thread[r].job, a, {}, Loaded(a)) \in Thread
    BY FieldsTyped, LocalTyped, LoadedTyped DEF Pcs
  <2>3. thread' \in [Threads -> Thread]
    BY <1>4, <2>1, <2>2, BecomeTyped DEF FindCountdown
  <2>4. autoLeft' \in 0 .. AutoCooldown
    BY <1>4 DEF FindCountdown, MarkAfterReturn
  <2> QED
    BY <1>4, <2>3, <2>4 DEF FindCountdown, messages
<1>5. ASSUME NEW r \in Requests, CancelStale(r) PROVE TypeOK'
  <2>1. /\ thread[r].seen.resolution \in Resolutions \cup {"null"}
        /\ Triggering("insert", thread[r].job) \in Thread
    BY FieldsTyped DEF Pcs
  <2>2. row' \in [Alerts -> Row]
    BY <1>5, <2>1, SaveTyped DEF CancelStale, Statuses
  <2> QED
    BY <1>5, <2>1, <2>2, BecomeTyped DEF CancelStale, cooldowns, messages
<1>6. ASSUME NEW r \in Requests, InsertAlert(r) PROVE TypeOK'
  <2>1. PICK a \in Alerts :
          /\ row' = [row EXCEPT ![a] = [status |-> "countdown", kind |-> KindOf(thread[r].job),
                                        resolution |-> "null", age |-> 0]]
          /\ Become(r, Local("mark", thread[r].job, a, {}, Unread))
    BY <1>6 DEF InsertAlert
  <2>2. KindOf(thread[r].job) \in Kinds \cup {"none"}
    BY DEF KindOf, Kinds
  <2>3. row' \in [Alerts -> Row]
    BY <2>1, <2>2 DEF Row, Statuses
  <2>4. Local("mark", thread[r].job, a, {}, Unread) \in Thread
    BY FieldsTyped, LocalTyped DEF Pcs
  <2> QED
    BY <1>6, <2>1, <2>3, <2>4, BecomeTyped DEF InsertAlert, cooldowns, messages
<1>7. ASSUME NEW r \in Requests, MarkAndArm(r) PROVE TypeOK'
  <2> DEFINE a == thread[r].alert
  <2>1. thread' \in [Threads -> Thread]
    BY <1>7, RestTyped DEF MarkAndArm, Pcs
  <2>2. sleep' \in [Alerts -> 0 .. DispatchDelay]
    <3>1. DispatchDelay \in 0 .. DispatchDelay
      OBVIOUS
    <3>2. sleep' = [sleep EXCEPT ![a] = DispatchDelay]
      BY <1>7 DEF MarkAndArm
    <3> QED
      BY <3>1, <3>2
  <2>3. autoLeft' \in 0 .. AutoCooldown
    <3>1. autoLeft' \in {AutoCooldown, autoLeft}
      BY <1>7 DEF MarkAndArm
    <3> QED
      BY <3>1
  <2>4. manualLeft' \in 0 .. ManualCooldown
    <3>1. manualLeft' \in {ManualCooldown, manualLeft}
      BY <1>7 DEF MarkAndArm
    <3> QED
      BY <3>1
  <2>5. UNCHANGED <<row, told, cleared, faults>>
    BY <1>7 DEF MarkAndArm, messages
  <2> QED
    BY <2>1, <2>2, <2>3, <2>4, <2>5
<1>8. ASSUME NEW a \in Alerts PROVE Dispatching(a) \in Thread
  BY LocalTyped, LoadedTyped DEF Dispatching, Jobs, Pcs
<1>9. ASSUME NEW r \in Requests, NEW a \in Alerts, StartSend(r, a) PROVE TypeOK'
  BY <1>8, <1>9, BecomeTyped DEF StartSend, cooldowns, messages
<1>10. ASSUME NEW a \in Alerts, WakeWatchdog(a) PROVE TypeOK'
  BY <1>8, <1>10, BecomeTyped DEF WakeWatchdog, Pcs, cooldowns, messages
<1>11. ASSUME NEW t \in Threads, NEW c \in Contacts, SendSos(t, c) PROVE TypeOK'
  <2>1. [thread[t] EXCEPT !.todo = @ \ {c}] \in Thread
    BY DEF Thread
  <2>2. told' \in [Alerts -> SUBSET Contacts]
    BY <1>11 DEF SendSos
  <2> QED
    BY <1>11, <2>1, <2>2, BecomeTyped DEF SendSos, cooldowns
<1>12. ASSUME NEW t \in Threads, CommitSent(t) PROVE TypeOK'
  <2>1. /\ thread[t].seen.resolution \in Resolutions \cup {"null"}
        /\ Ended(t) \in Thread
    BY RestTyped DEF Thread, Seen, Ended, Pcs
  <2>2. row' \in [Alerts -> Row]
    BY <1>12, <2>1, SaveTyped DEF CommitSent, Statuses
  <2> QED
    BY <1>12, <2>1, <2>2, BecomeTyped DEF CommitSent, cooldowns, messages
<1>13. ASSUME NEW t \in Threads, FailDispatch(t) PROVE TypeOK'
  <2>1. Watchdog("dead") \in Thread
    BY RestTyped DEF Pcs
  <2>2. faults' \in 0 .. MaxFaults
    BY <1>13 DEF FailDispatch
  <2> QED
    BY <1>13, <2>1, <2>2, BecomeTyped DEF FailDispatch, cooldowns, messages
<1>14. ASSUME NEW r \in Requests, NEW a \in Alerts, StartCancel(r, a) PROVE TypeOK'
  <2>1. Local("cancel", "cancel", a, {}, Loaded(a)) \in Thread
    BY LocalTyped, LoadedTyped DEF Jobs, Pcs
  <2> QED
    BY <1>14, <2>1, BecomeTyped DEF StartCancel, cooldowns, messages
<1>15. ASSUME NEW r \in Requests, CommitCancel(r) PROVE TypeOK'
  <2>1. Local("notify", "cancel", thread[r].alert, HeardOnCancel(thread[r].alert), Unread)
          \in Thread
    BY FieldsTyped, LocalTyped DEF HeardOnCancel, Jobs, Pcs
  <2>2. row' \in [Alerts -> Row]
    BY <1>15, SaveTyped DEF CommitCancel, Statuses, Resolutions
  <2> QED
    BY <1>15, <2>1, <2>2, BecomeTyped DEF CommitCancel, cooldowns, messages
<1>16. ASSUME NEW r \in Requests, NEW a \in Alerts, StartSafe(r, a) PROVE TypeOK'
  <2>1. Local("safe", "safe", a, {}, Loaded(a)) \in Thread
    BY LocalTyped, LoadedTyped DEF Jobs, Pcs
  <2> QED
    BY <1>16, <2>1, BecomeTyped DEF StartSafe, cooldowns, messages
<1>17. ASSUME NEW r \in Requests, CommitSafe(r) PROVE TypeOK'
  <2>1. ASSUME NEW td \in {{}, Contacts}
        PROVE  Local("notify", "safe", thread[r].alert, td, Unread) \in Thread
    BY FieldsTyped, LocalTyped DEF Jobs, Pcs
  <2>2. row' \in [Alerts -> Row]
    BY <1>17, SaveTyped DEF CommitSafe, Statuses, Resolutions
  <2>3. thread' \in [Threads -> Thread]
    BY <1>17, <2>1, BecomeTyped DEF CommitSafe
  <2> QED
    BY <1>17, <2>2, <2>3 DEF CommitSafe, cooldowns, messages
<1>18. ASSUME NEW r \in Requests, NEW c \in Contacts, SendAllClear(r, c) PROVE TypeOK'
  <2>1. [thread[r] EXCEPT !.todo = @ \ {c}] \in Thread
    BY DEF Thread
  <2>2. cleared' \in [Alerts -> SUBSET Contacts]
    BY <1>18 DEF SendAllClear
  <2> QED
    BY <1>18, <2>1, <2>2, BecomeTyped DEF SendAllClear, cooldowns
<1>19. ASSUME NEW r \in Requests, EndNotify(r) PROVE TypeOK'
  <2>1. thread' \in [Threads -> Thread]
    BY <1>19, BecomeTyped DEF EndNotify
  <2> QED
    BY <1>19, <2>1 DEF EndNotify, messages
<1>20. CASE ExpireStale
  <2>1. row' \in [Alerts -> Row]
    BY <1>20 DEF ExpireStale, Row, Statuses, Resolutions
  <2> QED
    BY <1>20, <2>1 DEF ExpireStale, cooldowns, messages
<1>21. CASE Restart
  <2>1. thread' \in [Threads -> Thread]
    BY <1>21 DEF Restart, Pcs
  <2> QED
    BY <1>21, <2>1 DEF Restart, messages
<1>22. CASE Tick
  <2>1. ASSUME NEW a \in Alerts PROVE row'[a] \in Row
    <3>1. row[a] \in Row
      OBVIOUS
    <3>2. ASSUME row[a].age <= Expiry PROVE [row[a] EXCEPT !.age = @ + 1] \in Row
      BY <3>1, <3>2 DEF Row
    <3> QED
      BY <1>22, <3>1, <3>2 DEF Tick
  <2>2. row' \in [Alerts -> Row]
    BY <1>22, <2>1 DEF Tick
  <2> QED
    BY <1>22, <2>2 DEF Tick, Elapsed, messages
<1>23. CASE UNCHANGED vars
  BY <1>23 DEF vars
<1> QED
  BY <1>1, <1>2, <1>3, <1>4, <1>5, <1>6, <1>7, <1>9, <1>10, <1>11, <1>12,
     <1>13, <1>14, <1>15, <1>16, <1>17, <1>18, <1>19, <1>20, <1>21, <1>22, <1>23
  DEF Next, Call, Handle, Dispatch

(* Every variable keeps its type.                                          *)
THEOREM Typing == Spec => []TypeOK
BY TypesInit, TypesStep, PTL DEF Spec

-----------------------------------------------------------------------------
(* Messages: an alert shown as sent was sent to everybody.                 *)

MessagesInv == DispatchesHoldTheirAlert /\ SentToldEveryone /\ MarkedSafeWasSent

(* A step that touches neither the rows nor the messages, and leaves every *)
(* thread but one, preserves the invariant when that thread neither        *)
(* dispatches nor marks safe afterwards.                                   *)
LEMMA QuietStep ==
    ASSUME TypeOK, MessagesInv, NEW t \in Threads, NEW l \in Thread,
           l.pc \notin {"sending", "safe"}, Become(t, l), UNCHANGED <<row, told>>
    PROVE  MessagesInv'
BY DEF TypeOK, MessagesInv, DispatchesHoldTheirAlert, SentToldEveryone, MarkedSafeWasSent,
       Become, At

(* What a commit does to the status and the resolution of an alert.        *)
LEMMA SaveEffect ==
    ASSUME TypeOK, NEW a, NEW seen, NEW status, NEW resolution,
           Save(a, seen, status, resolution), NEW b \in Alerts
    PROVE  /\ row'[b].status \in {row[b].status, status}
           /\ row'[b].resolution \in {row[b].resolution, resolution}
           /\ b # a => row'[b] = row[b]
           /\ resolution = seen.resolution => row'[b].resolution = row[b].resolution
           /\ row[b].status = seen.status /\ a = b => row'[b].status = status
<1>1. row[b] \in Row
  BY DEF TypeOK
<1> QED
  BY <1>1 DEF Save, Row, TypeOK

(* A commit of "cancelled" needs every contact told only when it marks the *)
(* alert safe.                                                             *)
LEMMA CancelStep ==
    ASSUME TypeOK, MessagesInv, NEW r \in Threads, NEW l \in Thread,
           l.pc \notin {"sending", "safe"}, Become(r, l), UNCHANGED told,
           NEW a, NEW seen, NEW resolution, Save(a, seen, "cancelled", resolution),
           \/ resolution # "user_marked_safe"
           \/ resolution = seen.resolution
           \/ told[a] = Contacts
    PROVE  MessagesInv'
<1>1. DispatchesHoldTheirAlert'
  BY DEF TypeOK, MessagesInv, DispatchesHoldTheirAlert, Become, At
<1>2. ASSUME NEW b \in Alerts
      PROVE  /\ row'[b].status = "sent" => told[b] = Contacts
             /\ row'[b].resolution = "user_marked_safe" => told[b] = Contacts
  BY SaveEffect DEF MessagesInv, SentToldEveryone, MarkedSafeWasSent
<1> QED
  BY <1>1, <1>2 DEF MessagesInv, SentToldEveryone, MarkedSafeWasSent

(* A dispatch begins with an alert in countdown and everybody to tell.     *)
LEMMA BeginStep ==
    ASSUME TypeOK, MessagesInv, NEW t \in Threads, NEW a \in Alerts, InCountdown(a),
           Become(t, Dispatching(a)), UNCHANGED <<row, told>>
    PROVE  MessagesInv'
<1>1. DispatchesHoldTheirAlert'
  BY DEF TypeOK, MessagesInv, DispatchesHoldTheirAlert, Become, At, Dispatching, Local,
         Loaded, InCountdown
<1> QED
  BY <1>1 DEF MessagesInv, SentToldEveryone, MarkedSafeWasSent

LEMMA MessagesStep == TypeOK /\ MessagesInv /\ [Next]_vars => MessagesInv'
<1> SUFFICES ASSUME TypeOK, MessagesInv, [Next]_vars PROVE MessagesInv'
  OBVIOUS
<1>a. ASSUME NEW t \in Threads
      PROVE  /\ \A p \in Pcs : Triggering(p, thread[t].job) \in Thread
             /\ thread[t].job \in Jobs \cup {"none"}
             /\ thread[t].alert \in Alerts \cup {NoAlert}
             /\ thread[t] \in Thread
  BY FieldsTyped DEF TypeOK
<1>b. Idle.pc = "idle" /\ \A p : Watchdog(p).pc = p /\ \A j : Triggering(p, j).pc = p
  BY DEF Idle, Watchdog, Triggering, Local
<1>1. ASSUME NEW r \in Requests, NEW kind \in Kinds, StartTrigger(r, kind)
      PROVE  MessagesInv'
  <2>1. Triggering("trigger", kind) \in Thread
    BY LocalTyped, RestTyped DEF Triggering, Jobs, Pcs
  <2> QED
    BY <1>1, <1>b, <2>1, QuietStep DEF StartTrigger, messages
<1>2. ASSUME NEW r \in Requests, StartPredict(r) PROVE MessagesInv'
  <2>1. Triggering("trigger", "predict") \in Thread
    BY LocalTyped, RestTyped DEF Triggering, Jobs, Pcs
  <2> QED
    BY <1>2, <1>b, <2>1, QuietStep DEF StartPredict, messages
<1>3. ASSUME NEW r \in Requests, CheckCooldown(r) PROVE MessagesInv'
  BY <1>3, <1>a, <1>b, RestTyped, QuietStep DEF CheckCooldown, messages, Pcs
<1>4. ASSUME NEW r \in Requests, FindCountdown(r) PROVE MessagesInv'
  <2>1. ASSUME NEW a \in Alerts
        PROVE  /\ Local("stale", thread[r].job, a, {}, Loaded(a)) \in Thread
               /\ Local("stale", thread[r].job, a, {}, Loaded(a)).pc = "stale"
    BY <1>a, LocalTyped, LoadedTyped DEF TypeOK, Local, Pcs
  <2> QED
    BY <1>4, <1>a, <1>b, <2>1, RestTyped, QuietStep DEF FindCountdown, messages, Pcs
<1>5. ASSUME NEW r \in Requests, CancelStale(r) PROVE MessagesInv'
  BY <1>5, <1>a, <1>b, CancelStep DEF CancelStale, messages, Pcs
<1>6. ASSUME NEW r \in Requests, InsertAlert(r) PROVE MessagesInv'
  <2>1. DispatchesHoldTheirAlert'
    BY <1>6 DEF InsertAlert, Become, Local, TypeOK, MessagesInv, DispatchesHoldTheirAlert,
                At, messages
  <2> QED
    BY <1>6, <2>1 DEF InsertAlert, TypeOK, MessagesInv, SentToldEveryone,
                MarkedSafeWasSent, messages
<1>7. ASSUME NEW r \in Requests, MarkAndArm(r) PROVE MessagesInv'
  BY <1>7 DEF MarkAndArm, Idle, Watchdog, Local, TypeOK, MessagesInv,
              DispatchesHoldTheirAlert, SentToldEveryone, MarkedSafeWasSent, At, messages
<1>8. ASSUME NEW r \in Requests, NEW a \in Alerts, StartSend(r, a) PROVE MessagesInv'
  BY <1>8, BeginStep DEF StartSend, messages
<1>9. ASSUME NEW a \in Alerts, WakeWatchdog(a) PROVE MessagesInv'
  BY <1>9, <1>b, BeginStep, RestTyped, QuietStep DEF WakeWatchdog, messages, Pcs
<1>10. ASSUME NEW t \in Threads, NEW c \in Contacts, SendSos(t, c) PROVE MessagesInv'
  <2>1. \A a \in Alerts : told[a] \subseteq told'[a] /\ told'[a] \subseteq Contacts
    BY <1>10 DEF SendSos, TypeOK
  <2>2. DispatchesHoldTheirAlert'
    <3>1. ASSUME NEW u \in Threads, At(u, "sending")'
          PROVE  /\ thread'[u].alert \in Alerts
                 /\ thread'[u].seen.status = "countdown"
                 /\ Contacts \ thread'[u].todo \subseteq told'[thread'[u].alert]
      <4>1. CASE u = t
        <5>1. /\ thread'[t].alert = thread[t].alert
              /\ thread'[t].seen = thread[t].seen
              /\ thread'[t].todo = thread[t].todo \ {c}
          BY <1>10, <1>a DEF SendSos, Become, Thread, TypeOK
        <5>2. c \in told'[thread[t].alert]
          BY <1>10 DEF SendSos, TypeOK, MessagesInv, DispatchesHoldTheirAlert
        <5> QED
          BY <1>10, <2>1, <4>1, <5>1, <5>2
          DEF SendSos, MessagesInv, DispatchesHoldTheirAlert
      <4>2. CASE u # t
        <5>1. thread'[u] = thread[u]
          BY <1>10, <4>2 DEF SendSos, Become, TypeOK
        <5> QED
          BY <2>1, <3>1, <5>1 DEF MessagesInv, DispatchesHoldTheirAlert, At
      <4> QED
        BY <4>1, <4>2
    <3>2. ASSUME NEW r \in Requests, At(r, "safe")', thread'[r].seen.status = "sent"
          PROVE  told'[thread'[r].alert] = Contacts
      <4>1. thread'[r] = thread[r]
        BY <1>10, <1>a, <3>2 DEF SendSos, Become, TypeOK, At, Thread
      <4>2. told[thread[r].alert] = Contacts
        BY <3>2, <4>1 DEF MessagesInv, DispatchesHoldTheirAlert, At
      <4> QED
        BY <1>10, <1>a, <2>1, <4>1, <4>2 DEF SendSos
    <3> QED
      BY <3>1, <3>2 DEF DispatchesHoldTheirAlert
  <2> QED
    BY <1>10, <2>1, <2>2 DEF SendSos, TypeOK, MessagesInv, SentToldEveryone, MarkedSafeWasSent
<1>11. ASSUME NEW t \in Threads, CommitSent(t) PROVE MessagesInv'
  <2>1. told[thread[t].alert] = Contacts
    <3>1. thread[t].alert \in Alerts /\ Contacts \subseteq told[thread[t].alert]
      BY <1>11 DEF CommitSent, MessagesInv, DispatchesHoldTheirAlert
    <3>2. told[thread[t].alert] \subseteq Contacts
      BY <3>1 DEF TypeOK
    <3> QED
      BY <3>1, <3>2
  <2>2. DispatchesHoldTheirAlert'
    BY <1>11, <1>b DEF CommitSent, Ended, Become, TypeOK, MessagesInv,
                DispatchesHoldTheirAlert, At, messages
  <2>3. ASSUME NEW b \in Alerts
        PROVE  /\ row'[b].status = "sent" => told[b] = Contacts
               /\ row'[b].resolution = "user_marked_safe" => told[b] = Contacts
    BY <1>11, <2>1, SaveEffect
    DEF CommitSent, MessagesInv, SentToldEveryone, MarkedSafeWasSent
  <2> QED
    BY <1>11, <2>2, <2>3 DEF CommitSent, messages, MessagesInv, SentToldEveryone,
                MarkedSafeWasSent
<1>12. ASSUME NEW t \in Threads, FailDispatch(t) PROVE MessagesInv'
  BY <1>12, <1>b, RestTyped, QuietStep DEF FailDispatch, messages, Pcs
<1>13. ASSUME NEW r \in Requests, NEW a \in Alerts, StartCancel(r, a) PROVE MessagesInv'
  <2>1. /\ Local("cancel", "cancel", a, {}, Loaded(a)) \in Thread
        /\ Local("cancel", "cancel", a, {}, Loaded(a)).pc = "cancel"
    BY LocalTyped, LoadedTyped DEF TypeOK, Local, Jobs, Pcs
  <2> QED
    BY <1>13, <2>1, QuietStep DEF StartCancel, messages
<1>14. ASSUME NEW r \in Requests, CommitCancel(r) PROVE MessagesInv'
  <2> DEFINE l == Local("notify", "cancel", thread[r].alert,
                        HeardOnCancel(thread[r].alert), Unread)
  <2>1. l \in Thread /\ l.pc = "notify"
    BY <1>a, LocalTyped, RestTyped DEF HeardOnCancel, Local, Jobs, Pcs
  <2> QED
    BY <1>14, <2>1, CancelStep DEF CommitCancel, messages
<1>15. ASSUME NEW r \in Requests, NEW a \in Alerts, StartSafe(r, a) PROVE MessagesInv'
  <2>1. DispatchesHoldTheirAlert'
    BY <1>15 DEF StartSafe, Become, Local, Loaded, TypeOK, MessagesInv,
                DispatchesHoldTheirAlert, SentToldEveryone, At, messages
  <2> QED
    BY <1>15, <2>1 DEF StartSafe, MessagesInv, SentToldEveryone, MarkedSafeWasSent, messages
<1>16. ASSUME NEW r \in Requests, CommitSafe(r) PROVE MessagesInv'
  <2>1. ASSUME NEW td \in {{}, Contacts}
        PROVE  /\ Local("notify", "safe", thread[r].alert, td, Unread) \in Thread
               /\ Local("notify", "safe", thread[r].alert, td, Unread).pc = "notify"
    BY <1>a, LocalTyped, RestTyped DEF Local, Jobs, Pcs
  <2>2. CASE thread[r].seen.status = "sent"
    <3>1. told[thread[r].alert] = Contacts
      BY <1>16, <2>2 DEF CommitSafe, MessagesInv, DispatchesHoldTheirAlert
    <3> QED
      BY <1>16, <2>1, <2>2, <3>1, CancelStep DEF CommitSafe, messages
  <2>3. CASE thread[r].seen.status # "sent"
    BY <1>16, <2>1, <2>3, CancelStep DEF CommitSafe, messages
  <2> QED
    BY <2>2, <2>3
<1>17. ASSUME NEW r \in Requests, NEW c \in Contacts, SendAllClear(r, c)
       PROVE  MessagesInv'
  <2>1. /\ [thread[r] EXCEPT !.todo = @ \ {c}] \in Thread
        /\ [thread[r] EXCEPT !.todo = @ \ {c}].pc = "notify"
    BY <1>17, <1>a DEF SendAllClear, At, Thread
  <2> QED
    BY <1>17, <2>1, QuietStep DEF SendAllClear
<1>18. ASSUME NEW r \in Requests, EndNotify(r) PROVE MessagesInv'
  BY <1>18, <1>b, RestTyped, QuietStep DEF EndNotify, messages
<1>19. CASE ExpireStale
  BY <1>19 DEF ExpireStale, TypeOK, Row, MessagesInv, DispatchesHoldTheirAlert,
               SentToldEveryone, MarkedSafeWasSent, At, messages
<1>20. CASE Restart
  <2>1. \A t \in Threads :
          /\ thread'[t].pc \in {"idle", "dead"} \/ thread'[t] = thread[t]
          /\ t \in Alerts => thread'[t].pc # "sending"
    BY <1>20, <1>b DEF Restart, At
  <2> QED
    BY <1>20, <1>b, <2>1 DEF Restart, TypeOK, MessagesInv, DispatchesHoldTheirAlert,
               SentToldEveryone, MarkedSafeWasSent, At, messages
<1>21. CASE Tick
  <2>1. \A a \in Alerts : /\ row'[a].status = row[a].status
                          /\ row'[a].resolution = row[a].resolution
    BY <1>21 DEF Tick, TypeOK, Row
  <2> QED
    BY <1>21, <2>1 DEF Tick, MessagesInv, DispatchesHoldTheirAlert, SentToldEveryone,
               MarkedSafeWasSent, At, messages
<1>22. CASE UNCHANGED vars
  BY <1>22 DEF vars, MessagesInv, DispatchesHoldTheirAlert, SentToldEveryone,
               MarkedSafeWasSent, At
<1> QED
  BY <1>1, <1>2, <1>3, <1>4, <1>5, <1>6, <1>7, <1>8, <1>9, <1>10, <1>11, <1>12, <1>13,
     <1>14, <1>15, <1>16, <1>17, <1>18, <1>19, <1>20, <1>21, <1>22
  DEF Next, Call, Handle, Dispatch

LEMMA MessagesInit == Init => MessagesInv
BY DEF Init, MessagesInv, DispatchesHoldTheirAlert, SentToldEveryone, MarkedSafeWasSent,
       At, Idle, Local, NoRow

LEMMA Messages == Spec => []MessagesInv
BY MessagesInit, MessagesStep, Typing, PTL DEF Spec

(* An alert the database shows as sent was sent to every contact, whatever *)
(* handlers, watchdogs, failures and restarts interleave.                  *)
THEOREM SentIsTold == Spec => []SentToldEveryone
<1>1. MessagesInv => SentToldEveryone
  BY DEF MessagesInv
<1> QED
  BY <1>1, Messages, PTL

(* "User marked safe" follows an alarm that was sent to every contact.     *)
THEOREM MarkedSafeIsTold == Spec => []MarkedSafeWasSent
<1>1. MessagesInv => MarkedSafeWasSent
  BY DEF MessagesInv
<1> QED
  BY <1>1, Messages, PTL

-----------------------------------------------------------------------------
(* The safety net: an alert in countdown has a thread that will see to it. *)

GuardInv == DispatchesHoldTheirAlert /\ WatchdogsKnowTheirAlert /\ CountdownIsGuarded

(* A handler that goes on without touching a row leaves every alert with   *)
(* its guard, unless it was about to arm one.                              *)
LEMMA HandlerStep ==
    ASSUME TypeOK, GuardInv, NEW r \in Requests, NEW l \in Thread,
           l.pc \notin {"mark", "sleeping", "over", "dead"}, ~ At(r, "mark"),
           Become(r, l), UNCHANGED row
    PROVE  WatchdogsKnowTheirAlert' /\ CountdownIsGuarded'
<1>1. \A a \in Alerts : thread'[a] = thread[a]
  BY ClientsAssumption DEF Become, TypeOK
<1>2. \A q \in Requests : /\ q # r => thread'[q] = thread[q]
                          /\ thread'[r].pc # "mark"
                          /\ thread'[r].pc \notin {"sleeping", "over", "dead"}
  BY DEF Become, TypeOK
<1>3. WatchdogsKnowTheirAlert'
  BY <1>1, <1>2 DEF GuardInv, WatchdogsKnowTheirAlert, At, Created
<1>4. CountdownIsGuarded'
  BY <1>1, <1>2 DEF GuardInv, CountdownIsGuarded, InCountdown, At
<1> QED
  BY <1>3, <1>4

(* The same for a handler that closes an alert.                            *)
LEMMA HandlerCloses ==
    ASSUME TypeOK, GuardInv, NEW r \in Requests, NEW l \in Thread,
           l.pc \notin {"mark", "sleeping", "over", "dead"}, ~ At(r, "mark"),
           Become(r, l), NEW a, NEW seen, NEW status \in {"sent", "cancelled"},
           NEW resolution, Save(a, seen, status, resolution)
    PROVE  WatchdogsKnowTheirAlert' /\ CountdownIsGuarded'
<1>1. \A b \in Alerts : thread'[b] = thread[b]
  BY ClientsAssumption DEF Become, TypeOK
<1>2. \A q \in Requests : /\ q # r => thread'[q] = thread[q]
                          /\ thread'[r].pc # "mark"
                          /\ thread'[r].pc \notin {"sleeping", "over", "dead"}
  BY DEF Become, TypeOK
<1>3. \A b \in Alerts : /\ InCountdown(b)' => InCountdown(b)
                        /\ Created(b) => Created(b)'
  BY SaveEffect DEF InCountdown, Created
<1>4. WatchdogsKnowTheirAlert'
  BY <1>1, <1>2, <1>3 DEF GuardInv, WatchdogsKnowTheirAlert, At
<1>5. CountdownIsGuarded'
  BY <1>1, <1>2, <1>3 DEF GuardInv, CountdownIsGuarded, At
<1> QED
  BY <1>4, <1>5

(* The same for a dispatch that begins: the watchdog's own, or a handler's.*)
LEMMA DispatchBegins ==
    ASSUME TypeOK, GuardInv, NEW t \in Threads, NEW a \in Alerts,
           thread[t].pc \in {"idle", "sleeping"}, t \in Alerts => t = a /\ At(t, "sleeping"),
           Become(t, Dispatching(a)), UNCHANGED row
    PROVE  WatchdogsKnowTheirAlert' /\ CountdownIsGuarded'
<1>1. /\ Dispatching(a).pc = "sending"
      /\ Dispatching(a).alert = a
  BY DEF Dispatching, Local
<1>2. \A u \in Threads : thread'[u] = IF u = t THEN Dispatching(a) ELSE thread[u]
  BY DEF Become, TypeOK
<1>3. WatchdogsKnowTheirAlert'
  BY <1>1, <1>2, ClientsAssumption DEF GuardInv, WatchdogsKnowTheirAlert, At, Created
<1>4. CountdownIsGuarded'
  BY <1>1, <1>2 DEF GuardInv, CountdownIsGuarded, InCountdown, At
<1> QED
  BY <1>3, <1>4

(* Steps that leave the threads alone and put no alert into countdown.     *)
LEMMA ThreadsStay ==
    ASSUME GuardInv, UNCHANGED thread,
           \A a \in Alerts : /\ InCountdown(a)' => InCountdown(a)
                             /\ Created(a)' <=> Created(a)
    PROVE  WatchdogsKnowTheirAlert' /\ CountdownIsGuarded'
<1>1. WatchdogsKnowTheirAlert'
  BY DEF GuardInv, WatchdogsKnowTheirAlert, At
<1>2. CountdownIsGuarded'
  BY DEF GuardInv, CountdownIsGuarded, At
<1> QED
  BY <1>1, <1>2

LEMMA GuardStep ==
    TypeOK /\ GuardInv /\ [Next]_vars => WatchdogsKnowTheirAlert' /\ CountdownIsGuarded'
<1> SUFFICES ASSUME TypeOK, GuardInv, [Next]_vars
             PROVE  WatchdogsKnowTheirAlert' /\ CountdownIsGuarded'
  OBVIOUS
<1> DEFINE Goal == WatchdogsKnowTheirAlert' /\ CountdownIsGuarded'
<1> HIDE DEF Goal
<1>a. ASSUME NEW t \in Threads
      PROVE  /\ \A p \in Pcs : Triggering(p, thread[t].job) \in Thread
             /\ thread[t].job \in Jobs \cup {"none"}
             /\ thread[t].alert \in Alerts \cup {NoAlert}
             /\ thread[t] \in Thread
  BY FieldsTyped DEF TypeOK
<1>b. /\ Idle.pc = "idle"
      /\ \A p : Watchdog(p).pc = p /\ \A j : Triggering(p, j).pc = p
  BY DEF Idle, Watchdog, Triggering, Local
<1>1. ASSUME NEW r \in Requests, NEW kind \in Kinds, StartTrigger(r, kind) PROVE Goal
  <2>1. Triggering("trigger", kind) \in Thread
    BY LocalTyped, RestTyped DEF Triggering, Jobs, Pcs
  <2> QED
    BY <1>1, <1>b, <2>1, HandlerStep DEF StartTrigger, At, Goal
<1>2. ASSUME NEW r \in Requests, StartPredict(r) PROVE Goal
  <2>1. Triggering("trigger", "predict") \in Thread
    BY LocalTyped, RestTyped DEF Triggering, Jobs, Pcs
  <2> QED
    BY <1>2, <1>b, <2>1, HandlerStep DEF StartPredict, At, Goal
<1>3. ASSUME NEW r \in Requests, CheckCooldown(r) PROVE Goal
  BY <1>3, <1>a, <1>b, RestTyped, HandlerStep DEF CheckCooldown, At, Pcs, Goal
<1>4. ASSUME NEW r \in Requests, FindCountdown(r) PROVE Goal
  <2>1. ASSUME NEW a \in Alerts
        PROVE  /\ Local("stale", thread[r].job, a, {}, Loaded(a)) \in Thread
               /\ Local("stale", thread[r].job, a, {}, Loaded(a)).pc = "stale"
    BY <1>a, LocalTyped, LoadedTyped DEF TypeOK, Local, Pcs
  <2> QED
    BY <1>4, <1>a, <1>b, <2>1, RestTyped, HandlerStep DEF FindCountdown, At, Pcs, Goal
<1>5. ASSUME NEW r \in Requests, CancelStale(r) PROVE Goal
  BY <1>5, <1>a, <1>b, HandlerCloses DEF CancelStale, At, Pcs, Goal
<1>6. ASSUME NEW r \in Requests, InsertAlert(r) PROVE Goal
  <2>1. PICK a \in Alerts :
          /\ ~ Created(a)
          /\ row' = [row EXCEPT ![a] = [status |-> "countdown", kind |-> KindOf(thread[r].job),
                                        resolution |-> "null", age |-> 0]]
          /\ Become(r, Local("mark", thread[r].job, a, {}, Unread))
    BY <1>6 DEF InsertAlert
  <2>2. \A b \in Alerts : thread'[b] = thread[b]
    BY <2>1, ClientsAssumption DEF Become, TypeOK
  <2>3. /\ thread'[r].pc = "mark" /\ thread'[r].alert = a
        /\ \A q \in Requests : q # r => thread'[q] = thread[q]
    BY <2>1 DEF Become, Local, TypeOK
  <2>4. /\ Created(a)' /\ At(a, "idle")
        /\ \A b \in Alerts : b # a => row'[b] = row[b]
    BY <2>1 DEF TypeOK, Created, GuardInv, WatchdogsKnowTheirAlert
  <2>5. WatchdogsKnowTheirAlert'
    BY <2>1, <2>2, <2>3, <2>4 DEF GuardInv, WatchdogsKnowTheirAlert, At, Created
  <2>6. CountdownIsGuarded'
    BY <1>6, <2>2, <2>3, <2>4 DEF InsertAlert, GuardInv, CountdownIsGuarded, InCountdown, At
  <2> QED
    BY <2>5, <2>6 DEF Goal
<1>7. ASSUME NEW r \in Requests, MarkAndArm(r) PROVE Goal
  <2> DEFINE a == thread[r].alert
  <2>1. a \in Alerts /\ a \notin Requests /\ r \notin Alerts
    BY <1>7, ClientsAssumption DEF MarkAndArm, GuardInv, WatchdogsKnowTheirAlert
  <2>2. /\ thread'[r].pc = "idle"
        /\ thread'[a].pc = "sleeping"
        /\ \A u \in Threads : u # r /\ u # a => thread'[u] = thread[u]
    BY <1>7, <1>b, <2>1 DEF MarkAndArm, TypeOK
  <2>3. /\ row' = row /\ At(r, "mark") /\ Created(a)
        /\ \A q \in Requests : q # r /\ At(q, "mark") => thread[q].alert # a
    BY <1>7 DEF MarkAndArm, GuardInv, WatchdogsKnowTheirAlert
  <2>4. \A q \in Requests : q # r => thread'[q] = thread[q]
    BY <2>1, <2>2
  <2>5. \A b \in Alerts : b # a => thread'[b] = thread[b]
    BY <2>1, <2>2
  <2> HIDE DEF a
  <2>6. WatchdogsKnowTheirAlert'
    BY <2>1, <2>2, <2>3, <2>4, <2>5
    DEF GuardInv, WatchdogsKnowTheirAlert, At, Created
  <2>7. CountdownIsGuarded'
    <3> SUFFICES ASSUME NEW b \in Alerts, InCountdown(b)'
                 PROVE  \/ thread'[b].pc \in {"sleeping", "sending", "dead"}
                        \/ \E q \in Requests : At(q, "mark")' /\ thread'[q].alert = b
      BY DEF CountdownIsGuarded
    <3>1. CASE b = a
      BY <2>2, <3>1
    <3>2. CASE b # a
      <4>1. InCountdown(b)
        BY <2>3 DEF InCountdown
      <4>2. \/ thread[b].pc \in {"sleeping", "sending", "dead"}
            \/ \E q \in Requests : q # r /\ At(q, "mark") /\ thread[q].alert = b
        BY <3>2, <4>1 DEF GuardInv, CountdownIsGuarded, a
      <4> QED
        BY <2>4, <2>5, <3>2, <4>2 DEF At
    <3> QED
      BY <3>1, <3>2
  <2> QED
    BY <2>6, <2>7 DEF Goal
<1>8. ASSUME NEW r \in Requests, NEW a \in Alerts, StartSend(r, a) PROVE Goal
  BY <1>8, DispatchBegins, ClientsAssumption DEF StartSend, At, Goal
<1>9. ASSUME NEW a \in Alerts, WakeWatchdog(a) PROVE Goal
  <2>1. CASE InCountdown(a)
    BY <1>9, <2>1, DispatchBegins DEF WakeWatchdog, At, Goal
  <2>2. CASE ~ InCountdown(a)
    <3>1. \A u \in Threads : thread'[u] = IF u = a THEN Watchdog("over") ELSE thread[u]
      BY <1>9, <2>2 DEF WakeWatchdog, Become, TypeOK
    <3>2. WatchdogsKnowTheirAlert'
      BY <1>9, <1>b, <3>1, ClientsAssumption
      DEF WakeWatchdog, GuardInv, WatchdogsKnowTheirAlert, At, Created
    <3>3. CountdownIsGuarded'
      BY <1>9, <2>2, <3>1, ClientsAssumption
      DEF WakeWatchdog, GuardInv, CountdownIsGuarded, InCountdown, At
    <3> QED
      BY <3>2, <3>3 DEF Goal
  <2> QED
    BY <2>1, <2>2
<1>10. ASSUME NEW t \in Threads, NEW c \in Contacts, SendSos(t, c) PROVE Goal
  <2>1. \A u \in Threads : /\ thread'[u].pc = thread[u].pc
                           /\ thread'[u].alert = thread[u].alert
    BY <1>10, <1>a DEF SendSos, Become, TypeOK, Thread
  <2>2. WatchdogsKnowTheirAlert'
    BY <1>10, <2>1 DEF SendSos, GuardInv, WatchdogsKnowTheirAlert, At, Created
  <2>3. CountdownIsGuarded'
    BY <1>10, <2>1 DEF SendSos, GuardInv, CountdownIsGuarded, InCountdown, At
  <2> QED
    BY <2>2, <2>3 DEF Goal
<1>11. ASSUME NEW t \in Threads, CommitSent(t) PROVE Goal
  <2>1. CASE t \in Requests
    BY <1>11, <1>b, <2>1, RestTyped, ClientsAssumption, HandlerCloses
    DEF CommitSent, Ended, At, Goal
  <2>2. CASE t \in Alerts
    <3>1. thread[t].alert = t /\ thread[t].seen.status = "countdown"
      BY <1>11, <2>2 DEF CommitSent, GuardInv, WatchdogsKnowTheirAlert,
                         DispatchesHoldTheirAlert
    <3>2. \A u \in Threads : thread'[u] = IF u = t THEN Watchdog("over") ELSE thread[u]
      BY <1>11, <2>2 DEF CommitSent, Ended, Become, TypeOK
    <3>3. \A b \in Alerts : /\ InCountdown(b)' => InCountdown(b)
                            /\ Created(b) => Created(b)'
      BY <1>11, SaveEffect DEF CommitSent, InCountdown, Created
    <3>4. ~ InCountdown(t)'
      <4>1. row[t] \in Row
        BY <2>2 DEF TypeOK
      <4>2. row'[t].status = "sent"
        BY <1>11, <2>2, <3>1, <4>1 DEF CommitSent, Save, TypeOK, Row
      <4> QED
        BY <4>2 DEF InCountdown
    <3>5. WatchdogsKnowTheirAlert'
      BY <1>11, <1>b, <2>2, <3>2, <3>3, ClientsAssumption
      DEF CommitSent, GuardInv, WatchdogsKnowTheirAlert, At, Created
    <3>6. CountdownIsGuarded'
      BY <2>2, <3>2, <3>3, <3>4, ClientsAssumption DEF GuardInv, CountdownIsGuarded, At
    <3> QED
      BY <3>5, <3>6 DEF Goal
  <2> QED
    BY <2>1, <2>2
<1>12. ASSUME NEW t \in Threads, FailDispatch(t) PROVE Goal
  <2>1. CASE t \in Requests
    BY <1>12, <1>b, <2>1, RestTyped, ClientsAssumption, HandlerStep DEF FailDispatch, At, Goal
  <2>2. CASE t \in Alerts
    <3>1. \A u \in Threads : thread'[u] = IF u = t THEN Watchdog("dead") ELSE thread[u]
      BY <1>12, <2>2 DEF FailDispatch, Become, TypeOK
    <3>2. WatchdogsKnowTheirAlert'
      BY <1>12, <1>b, <2>2, <3>1, ClientsAssumption
      DEF FailDispatch, GuardInv, WatchdogsKnowTheirAlert, At, Created
    <3>3. CountdownIsGuarded'
      BY <1>12, <1>b, <2>2, <3>1, ClientsAssumption
      DEF FailDispatch, GuardInv, CountdownIsGuarded, InCountdown, At
    <3> QED
      BY <3>2, <3>3 DEF Goal
  <2> QED
    BY <2>1, <2>2
<1>13. ASSUME NEW r \in Requests, NEW a \in Alerts, StartCancel(r, a) PROVE Goal
  <2>1. /\ Local("cancel", "cancel", a, {}, Loaded(a)) \in Thread
        /\ Local("cancel", "cancel", a, {}, Loaded(a)).pc = "cancel"
    BY LocalTyped, LoadedTyped DEF TypeOK, Local, Jobs, Pcs
  <2> QED
    BY <1>13, <2>1, HandlerStep DEF StartCancel, At, Goal
<1>14. ASSUME NEW r \in Requests, CommitCancel(r) PROVE Goal
  <2> DEFINE l == Local("notify", "cancel", thread[r].alert,
                        HeardOnCancel(thread[r].alert), Unread)
  <2>1. l \in Thread /\ l.pc = "notify"
    BY <1>a, LocalTyped, RestTyped DEF HeardOnCancel, Local, Jobs, Pcs
  <2> QED
    BY <1>14, <2>1, HandlerCloses DEF CommitCancel, At, Goal
<1>15. ASSUME NEW r \in Requests, NEW a \in Alerts, StartSafe(r, a) PROVE Goal
  <2>1. /\ Local("safe", "safe", a, {}, Loaded(a)) \in Thread
        /\ Local("safe", "safe", a, {}, Loaded(a)).pc = "safe"
    BY LocalTyped, LoadedTyped DEF TypeOK, Local, Jobs, Pcs
  <2> QED
    BY <1>15, <2>1, HandlerStep DEF StartSafe, At, Goal
<1>16. ASSUME NEW r \in Requests, CommitSafe(r) PROVE Goal
  <2>1. ASSUME NEW td \in {{}, Contacts}
        PROVE  /\ Local("notify", "safe", thread[r].alert, td, Unread) \in Thread
               /\ Local("notify", "safe", thread[r].alert, td, Unread).pc = "notify"
    BY <1>a, LocalTyped, RestTyped DEF Local, Jobs, Pcs
  <2> QED
    BY <1>16, <2>1, HandlerCloses DEF CommitSafe, At, Goal
<1>17. ASSUME NEW r \in Requests, NEW c \in Contacts, SendAllClear(r, c) PROVE Goal
  <2>1. /\ [thread[r] EXCEPT !.todo = @ \ {c}] \in Thread
        /\ [thread[r] EXCEPT !.todo = @ \ {c}].pc = "notify"
    BY <1>17, <1>a DEF SendAllClear, At, Thread
  <2> QED
    BY <1>17, <2>1, HandlerStep DEF SendAllClear, At, Goal
<1>18. ASSUME NEW r \in Requests, EndNotify(r) PROVE Goal
  BY <1>18, <1>b, RestTyped, HandlerStep DEF EndNotify, At, Goal
<1>19. CASE ExpireStale
  <2>1. \A a \in Alerts : /\ InCountdown(a)' => InCountdown(a)
                          /\ Created(a)' <=> Created(a)
    BY <1>19 DEF ExpireStale, Stale, InCountdown, Created, TypeOK, Row
  <2> QED
    BY <1>19, <2>1, ThreadsStay DEF ExpireStale, Goal
<1>20. CASE Restart
  <2>1. \A r \in Requests : thread'[r] = Idle
    BY <1>20, ClientsAssumption DEF Restart
  <2>2. \A a \in Alerts :
          thread'[a] = IF \/ thread[a].pc \in {"sleeping", "sending"}
                          \/ InCountdown(a) /\ At(a, "idle")
                         THEN Watchdog("dead") ELSE thread[a]
    BY <1>20 DEF Restart
  <2>3. \A a \in Alerts : InCountdown(a) => thread'[a].pc = "dead"
    BY <1>b, <2>2 DEF GuardInv, CountdownIsGuarded, WatchdogsKnowTheirAlert, At
  <2>4. WatchdogsKnowTheirAlert'
    BY <1>20, <1>b, <2>1, <2>2
    DEF Restart, GuardInv, WatchdogsKnowTheirAlert, At, Created, InCountdown
  <2>5. CountdownIsGuarded'
    BY <1>20, <2>3 DEF Restart, CountdownIsGuarded, InCountdown
  <2> QED
    BY <2>4, <2>5 DEF Goal
<1>21. CASE Tick
  <2>1. \A a \in Alerts : row'[a].status = row[a].status
    BY <1>21 DEF Tick, TypeOK, Row
  <2> QED
    BY <1>21, <2>1, ThreadsStay DEF Tick, InCountdown, Created, Goal
<1>22. CASE UNCHANGED vars
  BY <1>22, ThreadsStay DEF vars, InCountdown, Created, Goal
<1> QED
  BY <1>1, <1>2, <1>3, <1>4, <1>5, <1>6, <1>7, <1>8, <1>9, <1>10, <1>11, <1>12, <1>13,
     <1>14, <1>15, <1>16, <1>17, <1>18, <1>19, <1>20, <1>21, <1>22
  DEF Next, Call, Handle, Dispatch, Goal

LEMMA GuardInit == Init => GuardInv
BY ClientsAssumption
DEF Init, GuardInv, DispatchesHoldTheirAlert, WatchdogsKnowTheirAlert, CountdownIsGuarded,
    InCountdown, Created, At, Idle, Local, NoRow

(* The safety net of trigger_sos never has a hole: as long as no thread    *)
(* died, every alert in countdown has a thread that will look at it.       *)
THEOREM CountdownGuarded == Spec => []CountdownIsGuarded
<1>1. Init => GuardInv
  BY GuardInit
<1>2. TypeOK /\ MessagesInv /\ MessagesInv' /\ GuardInv /\ [Next]_vars => GuardInv'
  BY GuardStep DEF GuardInv, MessagesInv
<1>3. GuardInv => CountdownIsGuarded
  BY DEF GuardInv
<1> QED
  BY <1>1, <1>2, <1>3, Typing, Messages, PTL DEF Spec

-----------------------------------------------------------------------------
(* Requests one at a time: one countdown, and none during a cooldown.      *)

\* One handler at a time.
Lone == \A q, r \in Requests : q = r

\* A handler on its way to a new alert passed the guard and the search; what
\* they found is still so, because only another handler could undo it.
TriggersAlone ==
    \A r \in Requests :
        /\ thread[r].pc \in {"find", "stale", "insert"} => ~ OnCooldown(KindOf(thread[r].job))
        /\ At(r, "stale") =>
              /\ thread[r].seen.status = "countdown"
              /\ \A b \in Alerts : InCountdown(b) => b = thread[r].alert
        /\ At(r, "insert") => \A b \in Alerts : ~ InCountdown(b)

AloneInv == SoleCountdown /\ TriggersAlone

LEMMA CooldownsShrink ==
    ASSUME TypeOK, manualLeft' \in Nat, autoLeft' \in Nat,
           manualLeft' <= manualLeft, autoLeft' <= autoLeft, NEW kind, ~ OnCooldown(kind)
    PROVE  ~ OnCooldown(kind)'
<1>1. manualLeft \in Nat /\ autoLeft \in Nat
  BY TimesAssumption DEF TypeOK
<1> QED
  BY <1>1 DEF OnCooldown

(* Steps that put no alert into countdown, lengthen no cooldown and bring  *)
(* no handler on the way to a new alert.                                   *)
LEMMA NoNewTrigger ==
    ASSUME TypeOK, AloneInv,
           \A b \in Alerts : InCountdown(b)' => InCountdown(b),
           \A r \in Requests :
              \/ thread'[r].pc \notin {"find", "stale", "insert"}
              \/ /\ thread'[r] = thread[r]
                 /\ \A kind : ~ OnCooldown(kind) => ~ OnCooldown(kind)'
    PROVE  AloneInv'
<1>1. SoleCountdown'
  BY DEF AloneInv, SoleCountdown
<1>2. TriggersAlone'
  BY DEF AloneInv, TriggersAlone, At
<1> QED
  BY <1>1, <1>2 DEF AloneInv

(* A commit that ends an alert puts none into countdown.                   *)
LEMMA RowsEnd ==
    ASSUME TypeOK, NEW a, NEW seen, NEW resolution, NEW status \in {"sent", "cancelled"},
           Save(a, seen, status, resolution)
    PROVE  \A b \in Alerts : InCountdown(b)' => InCountdown(b)
BY SaveEffect DEF InCountdown

LEMMA AloneStep == Lone /\ TypeOK /\ AloneInv /\ [Next]_vars => AloneInv'
<1> SUFFICES ASSUME Lone, TypeOK, AloneInv, [Next]_vars PROVE AloneInv'
  OBVIOUS
<1>a. /\ Idle.pc = "idle" /\ \A p : Watchdog(p).pc = p
      /\ \A p, j : Triggering(p, j).pc = p /\ Triggering(p, j).job = j
      /\ \A a : Dispatching(a).pc = "sending"
  BY DEF Idle, Watchdog, Triggering, Dispatching, Local
<1>b. ASSUME NEW t \in Threads, NEW l, Become(t, l)
      PROVE  \A u \in Threads : thread'[u] = IF u = t THEN l ELSE thread[u]
  BY <1>b DEF Become, TypeOK
\* Whatever a handler goes on to, if not to a new alert, it is the only one.
<1>c. ASSUME NEW r \in Requests, NEW l, Become(r, l), l.pc \notin {"find", "stale", "insert"},
             \A b \in Alerts : InCountdown(b)' => InCountdown(b)
      PROVE  AloneInv'
  BY <1>b, <1>c, NoNewTrigger DEF Lone
\* Watchdogs are not handlers.
<1>d. ASSUME NEW a \in Alerts, NEW l, Become(a, l), UNCHANGED cooldowns,
             \A b \in Alerts : InCountdown(b)' => InCountdown(b)
      PROVE  AloneInv'
  <2>1. \A r \in Requests : thread'[r] = thread[r]
    BY <1>b, <1>d, ClientsAssumption
  <2>2. \A kind : OnCooldown(kind)' = OnCooldown(kind)
    BY <1>d DEF OnCooldown, cooldowns
  <2> QED
    BY <1>d, <2>1, <2>2, NoNewTrigger
<1>1. ASSUME NEW r \in Requests, Call(r) PROVE AloneInv'
  <2>1. UNCHANGED row
    BY <1>1 DEF Call, StartTrigger, StartPredict, StartSend, StartCancel, StartSafe
  <2>2. \A b \in Alerts : InCountdown(b)' => InCountdown(b)
    BY <2>1 DEF InCountdown
  <2>3. \A p, j, a : Local(p, j, a, {}, Loaded(a)).pc = p
    BY DEF Local
  <2>4. CASE \E kind \in Kinds : StartTrigger(r, kind)
    BY <1>a, <1>c, <2>2, <2>4 DEF StartTrigger
  <2>5. CASE StartPredict(r)
    BY <1>a, <1>c, <2>2, <2>5 DEF StartPredict
  <2>6. ASSUME NEW a \in Alerts, StartSend(r, a) PROVE AloneInv'
    BY <1>a, <1>c, <2>2, <2>6 DEF StartSend
  <2>7. ASSUME NEW a \in Alerts, StartCancel(r, a) \/ StartSafe(r, a) PROVE AloneInv'
    BY <1>c, <2>2, <2>3, <2>7 DEF StartCancel, StartSafe
  <2> QED
    BY <1>1, <2>4, <2>5, <2>6, <2>7 DEF Call
<1>2. ASSUME NEW r \in Requests, CheckCooldown(r) PROVE AloneInv'
  <2>0. UNCHANGED row
    BY <1>2 DEF CheckCooldown
  <2>1. CASE Become(r, Idle)
    BY <1>a, <1>c, <2>0, <2>1 DEF InCountdown
  <2>2. CASE /\ ~ OnCooldown(KindOf(thread[r].job))
             /\ Become(r, Triggering("find", thread[r].job))
             /\ UNCHANGED autoLeft
    <3>1. \A q \in Requests : q = r /\ thread'[q] = Triggering("find", thread[r].job)
      BY <1>b, <2>2 DEF Lone
    <3>2. ~ OnCooldown(KindOf(thread[r].job))'
      BY <1>2, <1>a, <2>2, <3>1 DEF CheckCooldown, OnCooldown
    <3>3. TriggersAlone'
      BY <1>a, <3>1, <3>2 DEF TriggersAlone, At
    <3> QED
      BY <2>0, <3>3 DEF AloneInv, SoleCountdown, InCountdown
  <2> QED
    BY <1>2, <2>1, <2>2 DEF CheckCooldown
<1>3. ASSUME NEW r \in Requests, FindCountdown(r) PROVE AloneInv'
  <2>0. UNCHANGED <<row, manualLeft>> /\ ~ OnCooldown(KindOf(thread[r].job))
    BY <1>3 DEF FindCountdown, AloneInv, TriggersAlone, At
  <2>1. CASE Become(r, Idle)
    BY <1>a, <1>c, <2>0, <2>1 DEF InCountdown
  <2>2. CASE /\ \A a \in Alerts : ~ InCountdown(a)
             /\ Become(r, Triggering("insert", thread[r].job))
             /\ UNCHANGED autoLeft
    <3>1. \A q \in Requests : q = r /\ thread'[q] = Triggering("insert", thread[r].job)
      BY <1>b, <2>2 DEF Lone
    <3>2. \A kind : OnCooldown(kind)' = OnCooldown(kind)
      BY <2>0, <2>2 DEF OnCooldown
    <3>3. TriggersAlone'
      BY <1>a, <2>0, <2>2, <3>1, <3>2 DEF TriggersAlone, At, InCountdown
    <3> QED
      BY <2>0, <3>3 DEF AloneInv, SoleCountdown, InCountdown
  <2>3. ASSUME NEW a \in Alerts, Stale(a), UNCHANGED autoLeft,
               Become(r, Local("stale", thread[r].job, a, {}, Loaded(a)))
        PROVE  AloneInv'
    <3>1. \A q \in Requests : q = r /\ /\ thread'[q].pc = "stale"
                                       /\ thread'[q].job = thread[r].job
                                       /\ thread'[q].alert = a
                                       /\ thread'[q].seen.status = row[a].status
      BY <1>b, <2>3 DEF Lone, Local, Loaded
    <3>2. \A kind : OnCooldown(kind)' = OnCooldown(kind)
      BY <2>0, <2>3 DEF OnCooldown
    <3>3. InCountdown(a) /\ \A b \in Alerts : InCountdown(b)' => b = a
      BY <2>0, <2>3 DEF Stale, AloneInv, SoleCountdown, InCountdown
    <3>4. TriggersAlone'
      BY <2>0, <3>1, <3>2, <3>3 DEF TriggersAlone, At, InCountdown
    <3> QED
      BY <2>0, <3>4 DEF AloneInv, SoleCountdown, InCountdown
  <2> QED
    BY <1>3, <2>1, <2>2, <2>3 DEF FindCountdown
<1>4. ASSUME NEW r \in Requests, CancelStale(r) PROVE AloneInv'
  <2>1. /\ thread[r].seen.status = "countdown"
        /\ \A b \in Alerts : InCountdown(b) => b = thread[r].alert
        /\ ~ OnCooldown(KindOf(thread[r].job))
    BY <1>4 DEF CancelStale, AloneInv, TriggersAlone, At
  <2>2. \A b \in Alerts : ~ InCountdown(b)'
    <3> SUFFICES ASSUME NEW b \in Alerts, InCountdown(b)' PROVE FALSE
      OBVIOUS
    <3>1. InCountdown(b) /\ b = thread[r].alert
      <4>1. Save(thread[r].alert, thread[r].seen, "cancelled", thread[r].seen.resolution)
        BY <1>4 DEF CancelStale
      <4> QED
        BY <2>1, <4>1, RowsEnd
    <3>2. row'[b].status = "cancelled"
      BY <1>4, <2>1, <3>1, SaveEffect DEF CancelStale, InCountdown
    <3> QED
      BY <3>2 DEF InCountdown
  <2>3. \A q \in Requests : q = r /\ thread'[q] = Triggering("insert", thread[r].job)
    BY <1>b, <1>4 DEF Lone, CancelStale
  <2>4. \A kind : OnCooldown(kind)' = OnCooldown(kind)
    BY <1>4 DEF CancelStale, cooldowns, OnCooldown
  <2>5. TriggersAlone'
    BY <1>a, <2>1, <2>2, <2>3, <2>4 DEF TriggersAlone, At
  <2> QED
    BY <2>2, <2>5 DEF AloneInv, SoleCountdown
<1>5. ASSUME NEW r \in Requests, InsertAlert(r) PROVE AloneInv'
  <2>1. PICK a \in Alerts :
          /\ row' = [row EXCEPT ![a] = [status |-> "countdown", kind |-> KindOf(thread[r].job),
                                        resolution |-> "null", age |-> 0]]
          /\ Become(r, Local("mark", thread[r].job, a, {}, Unread))
    BY <1>5 DEF InsertAlert
  <2>2. \A b \in Alerts : InCountdown(b)' => b = a
    BY <1>5, <2>1 DEF InsertAlert, AloneInv, TriggersAlone, At, InCountdown, TypeOK
  <2>3. \A q \in Requests : thread'[q].pc = "mark"
    BY <1>b, <2>1 DEF Lone, Local
  <2> QED
    BY <2>2, <2>3 DEF AloneInv, SoleCountdown, TriggersAlone, At
<1>6. ASSUME NEW r \in Requests, MarkAndArm(r) PROVE AloneInv'
  <2>1. \A q \in Requests : thread'[q] \in {Idle, Watchdog("sleeping")}
    BY <1>6 DEF MarkAndArm, Lone, TypeOK
  <2> QED
    BY <1>6, <1>a, <2>1, NoNewTrigger DEF MarkAndArm, InCountdown
<1>7. ASSUME NEW r \in Requests, CommitCancel(r) \/ CommitSafe(r) PROVE AloneInv'
  <2>1. PICK l : Become(r, l) /\ l.pc = "notify"
    BY <1>7 DEF CommitCancel, CommitSafe, Local
  <2>2. \A b \in Alerts : InCountdown(b)' => InCountdown(b)
    <3>1. CASE CommitCancel(r)
      <4>1. Save(thread[r].alert, thread[r].seen, "cancelled", "cancelled")
        BY <3>1 DEF CommitCancel
      <4> QED
        BY <4>1, RowsEnd
    <3>2. CASE CommitSafe(r)
      <4>1. PICK resolution :
              Save(thread[r].alert, thread[r].seen, "cancelled", resolution)
        BY <3>2 DEF CommitSafe
      <4> QED
        BY <4>1, RowsEnd
    <3> QED
      BY <1>7, <3>1, <3>2
  <2> QED
    BY <1>c, <2>1, <2>2
<1>8. ASSUME NEW r \in Requests,
             EndNotify(r) \/ \E c \in Contacts : SendAllClear(r, c)
      PROVE  AloneInv'
  <2>1. thread[r] \in Thread
    BY DEF TypeOK
  <2>2. \A b \in Alerts : InCountdown(b)' => InCountdown(b)
    BY <1>8 DEF EndNotify, SendAllClear, InCountdown
  <2>3. CASE EndNotify(r)
    BY <1>a, <1>c, <2>2, <2>3 DEF EndNotify
  <2>4. ASSUME NEW c \in Contacts, SendAllClear(r, c) PROVE AloneInv'
    <3>1. [thread[r] EXCEPT !.todo = @ \ {c}].pc = "notify"
      BY <2>1, <2>4 DEF SendAllClear, At, Thread
    <3> QED
      BY <1>c, <2>2, <2>4, <3>1 DEF SendAllClear
  <2> QED
    BY <1>8, <2>3, <2>4
<1>9. ASSUME NEW a \in Alerts, WakeWatchdog(a) PROVE AloneInv'
  BY <1>9, <1>d DEF WakeWatchdog, InCountdown, cooldowns
<1>10. ASSUME NEW t \in Threads, Dispatch(t) \/ FailDispatch(t) PROVE AloneInv'
  <2>1. thread[t] \in Thread
    BY DEF TypeOK
  <2>2. UNCHANGED cooldowns
    BY <1>10 DEF Dispatch, CommitSent, SendSos, FailDispatch, cooldowns
  <2>3. ASSUME NEW l, Become(t, l), l.pc \in {"idle", "over", "dead", "sending"},
               \A b \in Alerts : InCountdown(b)' => InCountdown(b)
        PROVE  AloneInv'
    BY <1>c, <1>d, <2>2, <2>3
  <2>4. CASE CommitSent(t)
    <3>1. Save(thread[t].alert, thread[t].seen, "sent", thread[t].seen.resolution)
      BY <2>4 DEF CommitSent
    <3>2. Become(t, Ended(t)) /\ Ended(t).pc \in {"idle", "over"}
      BY <1>a, <2>4 DEF CommitSent, Ended
    <3> QED
      BY <2>3, <3>1, <3>2, RowsEnd
  <2>5. ASSUME NEW c \in Contacts, SendSos(t, c) PROVE AloneInv'
    <3>1. [thread[t] EXCEPT !.todo = @ \ {c}].pc = "sending"
      BY <2>1, <2>5 DEF SendSos, At, Thread
    <3> QED
      BY <2>3, <2>5, <3>1 DEF SendSos, InCountdown
  <2>6. CASE FailDispatch(t)
    <3>1. \A b \in Alerts : InCountdown(b)' => InCountdown(b)
      BY <2>6 DEF FailDispatch, InCountdown
    <3> QED
      BY <1>a, <2>3, <2>6, <3>1 DEF FailDispatch
  <2> QED
    BY <1>10, <2>4, <2>5, <2>6 DEF Dispatch
<1>11. CASE ExpireStale
  <2>1. \A b \in Alerts : InCountdown(b)' => InCountdown(b)
    BY <1>11 DEF ExpireStale, InCountdown, TypeOK, Row
  <2>2. \A kind : OnCooldown(kind)' = OnCooldown(kind)
    BY <1>11 DEF ExpireStale, cooldowns, OnCooldown
  <2> QED
    BY <1>11, <2>1, <2>2, NoNewTrigger DEF ExpireStale
<1>12. CASE Restart
  <2>1. \A r \in Requests : thread'[r] = Idle
    BY <1>12, ClientsAssumption DEF Restart
  <2> QED
    BY <1>12, <1>a, <2>1, NoNewTrigger DEF Restart, InCountdown
<1>13. CASE Tick
  <2>1. \A b \in Alerts : InCountdown(b)' => InCountdown(b)
    BY <1>13 DEF Tick, InCountdown, TypeOK, Row
  <2>2. manualLeft \in Nat /\ autoLeft \in Nat
    BY TimesAssumption DEF TypeOK
  <2>3. /\ manualLeft' \in Nat /\ manualLeft' <= manualLeft
        /\ autoLeft' \in Nat /\ autoLeft' <= autoLeft
    BY <1>13, <2>2 DEF Tick, Elapsed
  <2>4. \A kind : ~ OnCooldown(kind) => ~ OnCooldown(kind)'
    BY <2>3, CooldownsShrink
  <2> QED
    BY <1>13, <2>1, <2>4, NoNewTrigger DEF Tick
<1>14. CASE UNCHANGED vars
  BY <1>14 DEF vars, cooldowns, AloneInv, SoleCountdown, TriggersAlone, At, InCountdown, OnCooldown
<1> QED
  BY <1>1, <1>2, <1>3, <1>4, <1>5, <1>6, <1>7, <1>8, <1>9, <1>10, <1>11, <1>12, <1>13, <1>14
  DEF Next, Handle

LEMMA Alone ==
    ASSUME Lone
    PROVE  Spec => []AloneInv
<1>1. Init => AloneInv
  BY DEF Init, AloneInv, SoleCountdown, TriggersAlone, InCountdown, At, Idle, Local, NoRow
<1> QED
  BY <1>1, AloneStep, Typing, PTL DEF Spec

(* When requests come one at a time a trigger finds the alert in countdown *)
(* or ends it before it creates another one, whatever watchdogs and        *)
(* housekeeping do between its search and its insert.                      *)
THEOREM OneCountdown ==
    ASSUME Lone
    PROVE  Spec => []SoleCountdown
<1>1. AloneInv => SoleCountdown
  BY DEF AloneInv
<1> QED
  BY <1>1, Alone, PTL

-----------------------------------------------------------------------------
(* SosAlerts implements AlertLifecycle; what the abstract specification    *)
(* makes plain about cancelled alerts then holds of the detailed one.      *)

(* A handler closes only an alert that exists.  Without this a commit of   *)
(* "cancelled" could make an alert out of nothing, which no step of the    *)
(* lifecycle does.                                                         *)
ClosersHoldAnAlert ==
    \A r \in Requests : thread[r].pc \in {"stale", "cancel", "safe"} =>
        thread[r].alert \in Alerts /\ Created(thread[r].alert)

(* A row once created is not lost.                                         *)
LEMMA CreatedStays ==
    ASSUME TypeOK, [Next]_vars, NEW b \in Alerts, Created(b)
    PROVE  Created(b)'
<1>0. row[b] \in Row
  BY DEF TypeOK
<1>1. ASSUME NEW a, NEW seen, NEW status \in Statuses, NEW resolution,
             Save(a, seen, status, resolution)
      PROVE  Created(b)'
  BY <1>1, SaveEffect DEF Created, Statuses
<1>2. ASSUME NEW r \in Requests, CancelStale(r) \/ CommitCancel(r) \/ CommitSafe(r)
      PROVE  Created(b)'
  BY <1>1, <1>2 DEF CancelStale, CommitCancel, CommitSafe, Statuses
<1>3. ASSUME NEW t \in Threads, CommitSent(t) PROVE Created(b)'
  BY <1>1, <1>3 DEF CommitSent, Statuses
<1>4. ASSUME NEW r \in Requests, InsertAlert(r) PROVE Created(b)'
  BY <1>4 DEF InsertAlert, Created, TypeOK
<1>5. CASE ExpireStale
  BY <1>0, <1>5 DEF ExpireStale, Created, Row
<1>6. CASE Tick
  BY <1>0, <1>6 DEF Tick, Created, Row
<1>7. CASE UNCHANGED row
  BY <1>7 DEF Created
<1> QED
  BY <1>2, <1>3, <1>4, <1>5, <1>6, <1>7
  DEF Next, Call, Handle, Dispatch, StartTrigger, StartPredict, CheckCooldown, FindCountdown,
      MarkAndArm, StartSend, WakeWatchdog, SendSos, FailDispatch, StartCancel, StartSafe,
      SendAllClear, EndNotify, Restart, vars

(* The thread that a step moves either closes nothing next, or holds an    *)
(* alert that exists.                                                      *)
LEMMA CloserStep ==
    ASSUME TypeOK, ClosersHoldAnAlert, \A b \in Alerts : Created(b) => Created(b)',
           NEW t \in Threads, NEW l, Become(t, l),
           \/ l.pc \notin {"stale", "cancel", "safe"}
           \/ l.alert \in Alerts /\ Created(l.alert)
    PROVE  ClosersHoldAnAlert'
<1>1. \A r \in Requests : thread'[r] = thread[r] \/ thread'[r] = l
  BY DEF Become, TypeOK
<1> QED
  BY <1>1 DEF ClosersHoldAnAlert

LEMMA ClosersStep == TypeOK /\ ClosersHoldAnAlert /\ [Next]_vars => ClosersHoldAnAlert'
<1> SUFFICES ASSUME TypeOK, ClosersHoldAnAlert, [Next]_vars PROVE ClosersHoldAnAlert'
  OBVIOUS
<1>a. \A b \in Alerts : Created(b) => Created(b)'
  BY CreatedStays
<1>b. /\ Idle.pc = "idle"
      /\ \A p : Watchdog(p).pc = p /\ \A j : Triggering(p, j).pc = p
      /\ \A p, j, b, td, s : Local(p, j, b, td, s).pc = p /\ Local(p, j, b, td, s).alert = b
      /\ \A b : Dispatching(b).pc = "sending"
  BY DEF Idle, Watchdog, Triggering, Dispatching, Local
<1>1. ASSUME NEW r \in Requests, Call(r) PROVE ClosersHoldAnAlert'
  <2>1. ASSUME NEW kind \in Kinds, StartTrigger(r, kind) PROVE ClosersHoldAnAlert'
    BY <1>a, <1>b, <2>1, CloserStep DEF StartTrigger
  <2>2. CASE StartPredict(r)
    BY <1>a, <1>b, <2>2, CloserStep DEF StartPredict
  <2>3. ASSUME NEW b \in Alerts, StartSend(r, b) PROVE ClosersHoldAnAlert'
    BY <1>a, <1>b, <2>3, CloserStep DEF StartSend
  <2>4. ASSUME NEW b \in Alerts, StartCancel(r, b) PROVE ClosersHoldAnAlert'
    BY <1>a, <1>b, <2>4, CloserStep DEF StartCancel, Open, Created
  <2>5. ASSUME NEW b \in Alerts, StartSafe(r, b) PROVE ClosersHoldAnAlert'
    BY <1>a, <1>b, <2>5, CloserStep DEF StartSafe, Open, Created
  <2> QED
    BY <1>1, <2>1, <2>2, <2>3, <2>4, <2>5 DEF Call
<1>2. ASSUME NEW r \in Requests, Handle(r) PROVE ClosersHoldAnAlert'
  <2>1. CASE CheckCooldown(r)
    BY <1>a, <1>b, <2>1, CloserStep DEF CheckCooldown
  <2>2. CASE FindCountdown(r)
    BY <1>a, <1>b, <2>2, CloserStep DEF FindCountdown, Stale, InCountdown, Created
  <2>3. CASE CancelStale(r)
    BY <1>a, <1>b, <2>3, CloserStep DEF CancelStale
  <2>4. CASE InsertAlert(r)
    BY <1>a, <1>b, <2>4, CloserStep DEF InsertAlert
  <2>5. CASE MarkAndArm(r)
    <3>1. \A q \in Requests : thread'[q] = thread[q] \/ thread'[q].pc \in {"idle", "sleeping"}
      BY <1>b, <2>5 DEF MarkAndArm, TypeOK
    <3> QED
      BY <1>a, <3>1 DEF ClosersHoldAnAlert
  <2>6. CASE CommitCancel(r)
    BY <1>a, <1>b, <2>6, CloserStep DEF CommitCancel
  <2>7. CASE CommitSafe(r)
    BY <1>a, <1>b, <2>7, CloserStep DEF CommitSafe
  <2>8. CASE EndNotify(r)
    BY <1>a, <1>b, <2>8, CloserStep DEF EndNotify
  <2>9. ASSUME NEW c \in Contacts, SendAllClear(r, c) PROVE ClosersHoldAnAlert'
    <3>1. thread[r] \in Thread
      BY DEF TypeOK
    <3>2. [thread[r] EXCEPT !.todo = @ \ {c}].pc = "notify"
      BY <2>9, <3>1 DEF SendAllClear, At, Thread
    <3> QED
      BY <1>a, <2>9, <3>2, CloserStep DEF SendAllClear
  <2> QED
    BY <1>2, <2>1, <2>2, <2>3, <2>4, <2>5, <2>6, <2>7, <2>8, <2>9 DEF Handle
<1>3. ASSUME NEW b \in Alerts, WakeWatchdog(b) PROVE ClosersHoldAnAlert'
  BY <1>a, <1>b, <1>3, CloserStep DEF WakeWatchdog
<1>4. ASSUME NEW t \in Threads, CommitSent(t) PROVE ClosersHoldAnAlert'
  BY <1>a, <1>b, <1>4, CloserStep DEF CommitSent, Ended
<1>5. ASSUME NEW t \in Threads, NEW c \in Contacts, SendSos(t, c) PROVE ClosersHoldAnAlert'
  <2>1. thread[t] \in Thread
    BY DEF TypeOK
  <2>2. [thread[t] EXCEPT !.todo = @ \ {c}].pc = "sending"
    BY <1>5, <2>1 DEF SendSos, At, Thread
  <2> QED
    BY <1>a, <1>5, <2>2, CloserStep DEF SendSos
<1>6. ASSUME NEW t \in Threads, FailDispatch(t) PROVE ClosersHoldAnAlert'
  BY <1>a, <1>b, <1>6, CloserStep DEF FailDispatch
<1>7. CASE Restart
  <2>1. \A r \in Requests : thread'[r].pc = "idle"
    BY <1>b, <1>7, ClientsAssumption DEF Restart
  <2> QED
    BY <2>1 DEF ClosersHoldAnAlert
<1>8. CASE UNCHANGED thread
  BY <1>a, <1>8 DEF ClosersHoldAnAlert
<1> QED
  BY <1>1, <1>2, <1>3, <1>4, <1>5, <1>6, <1>7, <1>8
  DEF Next, Dispatch, ExpireStale, Tick, vars

-----------------------------------------------------------------------------
(* Every step is one of the lifecycle, or none.                            *)

Phase == [a \in Alerts |-> row[a].status]
Underway == [a \in Alerts |-> DispatchersOf(a)]

LifeStep == Lifecycle!Next \/ UNCHANGED Lifecycle!lifecycleVars

(* The three things the lifecycle knows of the alerts stay the same.       *)
LEMMA SameLife ==
    ASSUME Phase' = Phase, Underway' = Underway, told' = told
    PROVE  LifeStep
BY DEF Phase, Underway, LifeStep, Lifecycle!lifecycleVars

(* A thread that neither ends nor begins a dispatch.                       *)
LEMMA UnderwayStays ==
    ASSUME TypeOK, NEW t \in Threads, NEW l, Become(t, l), ~ At(t, "sending"),
           l.pc # "sending"
    PROVE  Underway' = Underway
<1>1. ASSUME NEW a \in Alerts PROVE DispatchersOf(a)' = DispatchersOf(a)
  BY DEF DispatchersOf, At, Become, TypeOK
<1> QED
  BY <1>1 DEF Underway

(* A commit of "cancelled" closes the alert, or finds it closed.           *)
LEMMA CloseAlert ==
    ASSUME TypeOK, NEW a \in Alerts, Created(a), NEW seen, NEW resolution,
           Save(a, seen, "cancelled", resolution), Underway' = Underway, told' = told
    PROVE  LifeStep
<1> DEFINE closed == IF seen.status = "cancelled" THEN {} ELSE {a}
<1>1. ASSUME NEW b \in Alerts
      PROVE  row'[b].status = IF b \in closed THEN "cancelled" ELSE row[b].status
  <2>1. row[b] \in Row
    BY DEF TypeOK
  <2> QED
    BY <2>1 DEF Save, Row, TypeOK
<1>2. closed \in SUBSET {b \in Alerts : Phase[b] # "none"}
  BY DEF Created, Phase
<1> HIDE DEF closed
<1>3. Phase' = [b \in Alerts |-> IF b \in closed THEN "cancelled" ELSE Phase[b]]
  BY <1>1 DEF Phase
<1> QED
  BY <1>2, <1>3 DEF LifeStep, Lifecycle!Next, Lifecycle!Close, Phase, Underway

(* A dispatch begins with an alert in countdown.                           *)
LEMMA BeginUnderway ==
    ASSUME TypeOK, NEW t \in Threads, NEW a \in Alerts, InCountdown(a), ~ At(t, "sending"),
           Become(t, Dispatching(a)), UNCHANGED <<row, told>>
    PROVE  LifeStep
<1>1. Dispatching(a).pc = "sending" /\ Dispatching(a).alert = a
  BY DEF Dispatching, Local
<1>2. ASSUME NEW b \in Alerts
      PROVE  DispatchersOf(b)' = IF b = a THEN DispatchersOf(b) \cup {t} ELSE DispatchersOf(b)
  BY <1>1 DEF DispatchersOf, At, Become, TypeOK
<1>3. Underway' = [Underway EXCEPT ![a] = @ \cup {t}]
  BY <1>2 DEF Underway
<1>4. Phase[a] = "countdown" /\ t \notin Underway[a] /\ Phase' = Phase
  BY DEF Phase, Underway, InCountdown, DispatchersOf
<1>5. Lifecycle!BeginDispatch(a, t)
  BY <1>3, <1>4 DEF Lifecycle!BeginDispatch, Phase, Underway
<1> QED
  BY <1>5 DEF LifeStep, Lifecycle!Next

(* Dispatches are given up and nothing else happens.                       *)
LEMMA AbortUnderway ==
    ASSUME TypeOK, \A a \in Alerts : DispatchersOf(a)' \subseteq DispatchersOf(a),
           UNCHANGED <<row, told>>
    PROVE  LifeStep
<1>1. Phase' = Phase
  BY DEF Phase
<1>2. Underway' \in [Alerts -> SUBSET Threads]
  BY DEF Underway, DispatchersOf
<1>3. \A a \in Alerts : Underway'[a] \subseteq Underway[a]
  BY DEF Underway
<1>4. Lifecycle!AbortDispatches
  BY <1>1, <1>2, <1>3 DEF Lifecycle!AbortDispatches, Phase, Underway
<1> QED
  BY <1>4 DEF LifeStep, Lifecycle!Next

LEMMA TellStep ==
    ASSUME TypeOK, MessagesInv, NEW t \in Threads, NEW c \in Contacts, SendSos(t, c)
    PROVE  LifeStep
<1>1. thread[t].alert \in Alerts /\ thread[t] \in Thread
  BY DEF SendSos, MessagesInv, DispatchesHoldTheirAlert, TypeOK
<1>2. \A u \in Threads : /\ thread'[u].pc = thread[u].pc
                         /\ thread'[u].alert = thread[u].alert
  BY <1>1 DEF SendSos, Become, TypeOK, Thread
<1>3. Underway' = Underway
  <2>1. ASSUME NEW a \in Alerts PROVE DispatchersOf(a)' = DispatchersOf(a)
    BY <1>2 DEF DispatchersOf, At
  <2> QED
    BY <2>1 DEF Underway
<1>4. Phase' = Phase
  BY DEF SendSos, Phase
<1>5. Underway[thread[t].alert] # {}
  BY <1>1 DEF SendSos, Underway, DispatchersOf
<1>6. Lifecycle!Tell(thread[t].alert, c)
  BY <1>3, <1>4, <1>5 DEF Lifecycle!Tell, SendSos, Phase, Underway
<1> QED
  BY <1>1, <1>6 DEF LifeStep, Lifecycle!Next

LEMMA EndStep ==
    ASSUME TypeOK, MessagesInv, NEW t \in Threads, CommitSent(t)
    PROVE  LifeStep
<1> DEFINE a == thread[t].alert
<1>1. a \in Alerts /\ thread[t].seen.status = "countdown" /\ told[a] = Contacts
  <2>1. /\ a \in Alerts /\ thread[t].seen.status = "countdown"
        /\ Contacts \subseteq told[a]
    BY DEF CommitSent, MessagesInv, DispatchesHoldTheirAlert
  <2> QED
    BY <2>1 DEF TypeOK
<1>2. ASSUME NEW b \in Alerts
      PROVE  row'[b].status = IF b = a THEN "sent" ELSE row[b].status
  <2>1. row[b] \in Row
    BY DEF TypeOK
  <2> QED
    BY <1>1, <2>1 DEF CommitSent, Save, Row, TypeOK
<1>3. Ended(t).pc # "sending"
  BY DEF Ended, Watchdog, Idle, Local
<1>4. ASSUME NEW b \in Alerts
      PROVE  DispatchersOf(b)' = IF b = a THEN DispatchersOf(b) \ {t} ELSE DispatchersOf(b)
  BY <1>3 DEF CommitSent, DispatchersOf, At, Become, TypeOK
<1>5. t \in DispatchersOf(a)
  BY DEF CommitSent, DispatchersOf
<1> HIDE DEF a
<1>6. Phase' = [Phase EXCEPT ![a] = "sent"]
  BY <1>2 DEF Phase
<1>7. Underway' = [Underway EXCEPT ![a] = @ \ {t}]
  BY <1>4 DEF Underway
<1>8. t \in Underway[a]
  BY <1>1, <1>5 DEF Underway
<1>9. Lifecycle!EndDispatch(a, t)
  BY <1>1, <1>6, <1>7, <1>8 DEF Lifecycle!EndDispatch, CommitSent, messages, Phase, Underway
<1> QED
  BY <1>1, <1>9 DEF LifeStep, Lifecycle!Next

LEMMA RefinementStep ==
    TypeOK /\ MessagesInv /\ ClosersHoldAnAlert /\ [Next]_vars => LifeStep
<1> SUFFICES ASSUME TypeOK, MessagesInv, ClosersHoldAnAlert, [Next]_vars PROVE LifeStep
  OBVIOUS
<1>b. /\ Idle.pc = "idle"
      /\ \A p : Watchdog(p).pc = p /\ \A j : Triggering(p, j).pc = p
      /\ \A p, j, b, td, s : Local(p, j, b, td, s).pc = p
  BY DEF Idle, Watchdog, Triggering, Local
<1>c. ASSUME UNCHANGED <<row, told>>, Underway' = Underway PROVE LifeStep
  BY <1>c, SameLife DEF Phase
<1>1. ASSUME NEW r \in Requests, Call(r) PROVE LifeStep
  <2>1. ASSUME NEW kind \in Kinds, StartTrigger(r, kind) PROVE LifeStep
    BY <1>b, <1>c, <2>1, UnderwayStays DEF StartTrigger, At, messages
  <2>2. CASE StartPredict(r)
    BY <1>b, <1>c, <2>2, UnderwayStays DEF StartPredict, At, messages
  <2>3. ASSUME NEW b \in Alerts, StartSend(r, b) PROVE LifeStep
    BY <2>3, BeginUnderway DEF StartSend, At, messages
  <2>4. ASSUME NEW b \in Alerts, StartCancel(r, b) PROVE LifeStep
    BY <1>b, <1>c, <2>4, UnderwayStays DEF StartCancel, At, messages
  <2>5. ASSUME NEW b \in Alerts, StartSafe(r, b) PROVE LifeStep
    BY <1>b, <1>c, <2>5, UnderwayStays DEF StartSafe, At, messages
  <2> QED
    BY <1>1, <2>1, <2>2, <2>3, <2>4, <2>5 DEF Call
<1>2. ASSUME NEW r \in Requests, Handle(r) PROVE LifeStep
  <2>1. CASE CheckCooldown(r)
    BY <1>b, <1>c, <2>1, UnderwayStays DEF CheckCooldown, At, messages
  <2>2. CASE FindCountdown(r)
    BY <1>b, <1>c, <2>2, UnderwayStays DEF FindCountdown, At, messages
  <2>3. CASE CancelStale(r)
    <3>1. Underway' = Underway
      BY <1>b, <2>3, UnderwayStays DEF CancelStale, At
    <3> QED
      BY <2>3, <3>1, CloseAlert DEF CancelStale, ClosersHoldAnAlert, At, messages
  <2>4. CASE InsertAlert(r)
    <3>1. PICK a \in Alerts :
            /\ ~ Created(a)
            /\ row' = [row EXCEPT ![a] = [status |-> "countdown", kind |-> KindOf(thread[r].job),
                                          resolution |-> "null", age |-> 0]]
            /\ Become(r, Local("mark", thread[r].job, a, {}, Unread))
      BY <2>4 DEF InsertAlert
    <3>2. Underway' = Underway
      BY <1>b, <2>4, <3>1, UnderwayStays DEF InsertAlert, At
    <3>3. Phase[a] = "none" /\ Phase' = [Phase EXCEPT ![a] = "countdown"]
      BY <3>1 DEF Phase, Created, TypeOK
    <3>4. Lifecycle!OpenAlert(a)
      BY <2>4, <3>2, <3>3 DEF Lifecycle!OpenAlert, InsertAlert, messages, Phase, Underway
    <3> QED
      BY <3>4 DEF LifeStep, Lifecycle!Next
  <2>5. CASE MarkAndArm(r)
    <3>1. \A u \in Threads : thread'[u] = thread[u] \/ thread'[u].pc \in {"idle", "sleeping"}
      BY <1>b, <2>5 DEF MarkAndArm, TypeOK
    <3>2. \A b \in Alerts : DispatchersOf(b)' \subseteq DispatchersOf(b)
      BY <3>1 DEF DispatchersOf, At
    <3> QED
      BY <2>5, <3>2, AbortUnderway DEF MarkAndArm, messages
  <2>6. CASE CommitCancel(r)
    <3>1. Underway' = Underway
      BY <1>b, <2>6, UnderwayStays DEF CommitCancel, At
    <3> QED
      BY <2>6, <3>1, CloseAlert DEF CommitCancel, ClosersHoldAnAlert, At, messages
  <2>7. CASE CommitSafe(r)
    <3>1. Underway' = Underway
      BY <1>b, <2>7, UnderwayStays DEF CommitSafe, At
    <3> QED
      BY <2>7, <3>1, CloseAlert DEF CommitSafe, ClosersHoldAnAlert, At, messages
  <2>8. CASE EndNotify(r)
    BY <1>b, <1>c, <2>8, UnderwayStays DEF EndNotify, At, messages
  <2>9. ASSUME NEW c \in Contacts, SendAllClear(r, c) PROVE LifeStep
    <3>1. thread[r] \in Thread
      BY DEF TypeOK
    <3>2. [thread[r] EXCEPT !.todo = @ \ {c}].pc = "notify"
      BY <2>9, <3>1 DEF SendAllClear, At, Thread
    <3> QED
      BY <1>c, <2>9, <3>2, UnderwayStays DEF SendAllClear, At
  <2> QED
    BY <1>2, <2>1, <2>2, <2>3, <2>4, <2>5, <2>6, <2>7, <2>8, <2>9 DEF Handle
<1>3. ASSUME NEW a \in Alerts, WakeWatchdog(a) PROVE LifeStep
  <2>1. CASE InCountdown(a)
    BY <1>3, <2>1, BeginUnderway DEF WakeWatchdog, At, messages
  <2>2. CASE ~ InCountdown(a)
    BY <1>b, <1>c, <1>3, <2>2, UnderwayStays DEF WakeWatchdog, At, messages
  <2> QED
    BY <2>1, <2>2
<1>4. ASSUME NEW t \in Threads, FailDispatch(t) PROVE LifeStep
  <2>1. \A a \in Alerts : DispatchersOf(a)' \subseteq DispatchersOf(a)
    BY <1>b, <1>4 DEF FailDispatch, DispatchersOf, Become, At, TypeOK
  <2> QED
    BY <1>4, <2>1, AbortUnderway DEF FailDispatch, messages
<1>5. CASE ExpireStale
  <2> DEFINE closed == {a \in Alerts : Stale(a)}
  <2>1. ASSUME NEW a \in Alerts
        PROVE  row'[a].status = IF a \in closed THEN "cancelled" ELSE row[a].status
    BY <1>5 DEF ExpireStale, TypeOK, Row
  <2>2. closed \in SUBSET {a \in Alerts : Phase[a] # "none"}
    BY DEF Stale, InCountdown, Phase
  <2> HIDE DEF closed
  <2>3. Phase' = [a \in Alerts |-> IF a \in closed THEN "cancelled" ELSE Phase[a]]
    BY <2>1 DEF Phase
  <2>4. Underway' = Underway
    BY <1>5 DEF ExpireStale, Underway, DispatchersOf, At
  <2> QED
    BY <1>5, <2>2, <2>3, <2>4
    DEF ExpireStale, messages, LifeStep, Lifecycle!Next, Lifecycle!Close, Phase, Underway
<1>6. CASE Restart
  <2>1. \A t \in Threads : thread'[t].pc \in {"idle", "dead"} \/ thread'[t] = thread[t]
    BY <1>b, <1>6 DEF Restart
  <2>2. \A a \in Alerts : DispatchersOf(a)' \subseteq DispatchersOf(a)
    BY <2>1 DEF DispatchersOf, At
  <2> QED
    BY <1>6, <2>2, AbortUnderway DEF Restart, messages
<1>7. CASE Tick
  <2>1. \A a \in Alerts : row'[a].status = row[a].status
    BY <1>7 DEF Tick, TypeOK, Row
  <2>2. Phase' = Phase
    BY <2>1 DEF Phase
  <2>3. Underway' = Underway
    BY <1>7 DEF Tick, Underway, DispatchersOf, At
  <2> QED
    BY <1>7, <2>2, <2>3, SameLife DEF Tick, messages
<1>8. CASE UNCHANGED vars
  BY <1>c, <1>8 DEF vars, Underway, DispatchersOf, At
<1> QED
  BY <1>1, <1>2, <1>3, <1>4, <1>5, <1>6, <1>7, <1>8, TellStep, EndStep
  DEF Next, Dispatch

(* The detailed specification implements the abstract one: what the        *)
(* handlers, watchdogs, housekeeping and restarts of trigger_sos,          *)
(* dispatch_sos, cancel_sos and mark_user_safe do to alerts and messages   *)
(* is always a step of the lifecycle.                                      *)
THEOREM ImplementsLifecycle == Spec => RefinesLifecycle
<1>1. Init => Lifecycle!Init
  BY ClientsAssumption
  DEF Init, Lifecycle!Init, NoRow, DispatchersOf, At, Idle, Local
<1>2. Init => ClosersHoldAnAlert
  BY DEF Init, ClosersHoldAnAlert, Idle, Local
<1>3. TypeOK /\ ClosersHoldAnAlert /\ [Next]_vars => ClosersHoldAnAlert'
  BY ClosersStep
<1>4. TypeOK /\ MessagesInv /\ ClosersHoldAnAlert /\ [Next]_vars
        => [Lifecycle!Next]_(Lifecycle!lifecycleVars)
  BY RefinementStep DEF LifeStep
<1>5. Spec => []MessagesInv
  BY Messages
<1> QED
  BY <1>1, <1>2, <1>3, <1>4, <1>5, Typing, PTL DEF Spec, RefinesLifecycle, Lifecycle!Spec

(* Cancelled is final as soon as no dispatch is under way, whatever        *)
(* watchdogs and repeated requests come late: so it is in the lifecycle.   *)
THEOREM CancelledStays == Spec => CancelledIsFinal
<1>1. ASSUME LifeStep, NEW a \in Alerts, row[a].status = "cancelled", DispatchersOf(a) = {}
      PROVE  row'[a].status = "cancelled" /\ DispatchersOf(a)' = {}
  <2>1. Phase[a] = "cancelled" /\ Underway[a] = {}
    BY <1>1 DEF Phase, Underway
  <2>2. Phase'[a] = "cancelled" /\ Underway'[a] = {}
    BY <1>1, <2>1
    DEF LifeStep, Lifecycle!Next, Lifecycle!OpenAlert, Lifecycle!BeginDispatch, Lifecycle!Tell,
        Lifecycle!EndDispatch, Lifecycle!AbortDispatches, Lifecycle!Close,
        Lifecycle!lifecycleVars, Phase, Underway
  <2> QED
    BY <2>2 DEF Phase, Underway
<1>2. [Lifecycle!Next]_(Lifecycle!lifecycleVars)
        => [\A a \in Alerts : row[a].status = "cancelled" /\ DispatchersOf(a) = {}
               => row'[a].status = "cancelled" /\ DispatchersOf(a)' = {}]_vars
  BY <1>1 DEF LifeStep
<1>3. Spec => [][Lifecycle!Next]_(Lifecycle!lifecycleVars)
  BY ImplementsLifecycle, PTL DEF RefinesLifecycle, Lifecycle!Spec
<1> QED
  BY <1>2, <1>3, PTL DEF CancelledIsFinal

-----------------------------------------------------------------------------
(* "I am safe" about an alarm nobody heard of.                             *)

Silent(a) == row[a].kind \notin {"manual", "iot_button"}

(* Whoever is about to be told "I am safe" about the alert of a sensor or  *)
(* of the bracelet has been sent its SOS.                                  *)
NotifiersFollowTheSos ==
    \A r \in Requests : At(r, "notify") /\ thread[r].alert \in Alerts /\ Silent(thread[r].alert)
        => thread[r].todo \subseteq told[thread[r].alert]

\* An alert has its kind from the beginning.
UncreatedHasNoKind == \A a \in Alerts : ~ Created(a) => row[a].kind = "none"

AllClearInv == NoAllClearOutOfTheBlue /\ NotifiersFollowTheSos /\ UncreatedHasNoKind

(* Rows keep their kind from their insertion on.                           *)
LEMMA KindStays ==
    ASSUME TypeOK, [Next]_vars, NEW a \in Alerts
    PROVE  \/ row'[a].kind = row[a].kind
           \/ /\ ~ Created(a) /\ Created(a)'
              /\ \E r \in Requests : InsertAlert(r) /\ row'[a].kind = KindOf(thread[r].job)
<1> DEFINE Goal ==
      \/ row'[a].kind = row[a].kind
      \/ /\ ~ Created(a) /\ Created(a)'
         /\ \E r \in Requests : InsertAlert(r) /\ row'[a].kind = KindOf(thread[r].job)
<1>0. row[a] \in Row
  BY DEF TypeOK
<1>1. ASSUME NEW b, NEW seen, NEW status, NEW resolution, Save(b, seen, status, resolution)
      PROVE  row'[a].kind = row[a].kind
  BY <1>0, <1>1 DEF Save, Row, TypeOK
<1>2. ASSUME NEW r \in Requests, CancelStale(r) \/ CommitCancel(r) \/ CommitSafe(r)
      PROVE  Goal
  BY <1>1, <1>2 DEF CancelStale, CommitCancel, CommitSafe
<1>3. ASSUME NEW t \in Threads, CommitSent(t) PROVE Goal
  BY <1>1, <1>3 DEF CommitSent
<1>4. ASSUME NEW r \in Requests, InsertAlert(r) PROVE Goal
  <2>1. PICK b \in Alerts :
          /\ ~ Created(b)
          /\ row' = [row EXCEPT ![b] = [status |-> "countdown", kind |-> KindOf(thread[r].job),
                                        resolution |-> "null", age |-> 0]]
    BY <1>4 DEF InsertAlert
  <2>2. CASE a # b
    BY <2>1, <2>2 DEF TypeOK
  <2>3. CASE a = b
    <3>1. row'[a].kind = KindOf(thread[r].job) /\ row'[a].status = "countdown"
      BY <2>1, <2>3 DEF TypeOK
    <3> QED
      BY <1>4, <2>1, <2>3, <3>1 DEF Created
  <2> QED
    BY <2>2, <2>3
<1>5. CASE ExpireStale
  BY <1>0, <1>5 DEF ExpireStale, Row
<1>6. CASE Tick
  BY <1>0, <1>6 DEF Tick, Row
<1>7. CASE UNCHANGED row
  BY <1>7
<1> QED
  BY <1>2, <1>3, <1>4, <1>5, <1>6, <1>7
  DEF Next, Call, Handle, Dispatch, StartTrigger, StartPredict, CheckCooldown, FindCountdown,
      MarkAndArm, StartSend, WakeWatchdog, SendSos, FailDispatch, StartCancel, StartSafe,
      SendAllClear, EndNotify, Restart, vars

(* What was told stays told; "I am safe" is sent by SendAllClear only.     *)
LEMMA ToldStays ==
    ASSUME TypeOK, [Next]_vars, NEW a \in Alerts
    PROVE  told[a] \subseteq told'[a]
<1>1. ASSUME NEW t \in Threads, NEW c \in Contacts, SendSos(t, c)
      PROVE  told[a] \subseteq told'[a]
  BY <1>1 DEF SendSos, TypeOK
<1>2. CASE UNCHANGED told
  BY <1>2
<1> QED
  BY <1>1, <1>2
  DEF Next, Call, Handle, Dispatch, StartTrigger, StartPredict, CheckCooldown, FindCountdown,
      MarkAndArm, StartSend, WakeWatchdog, FailDispatch, StartCancel, StartSafe, CancelStale,
      InsertAlert, CommitCancel, CommitSafe, CommitSent, SendAllClear, EndNotify, ExpireStale,
      Tick, Restart, vars, messages

LEMMA NoKindBefore == TypeOK /\ UncreatedHasNoKind /\ [Next]_vars => UncreatedHasNoKind'
<1> SUFFICES ASSUME TypeOK, UncreatedHasNoKind, [Next]_vars, NEW a \in Alerts, ~ Created(a)'
             PROVE  row'[a].kind = "none"
  BY DEF UncreatedHasNoKind
<1>1. ~ Created(a)
  BY CreatedStays
<1> QED
  BY <1>1, KindStays DEF UncreatedHasNoKind

(* A silent alert was silent before.                                       *)
LEMMA SilentBefore ==
    ASSUME TypeOK, UncreatedHasNoKind, [Next]_vars, NEW a \in Alerts, Silent(a)'
    PROVE  Silent(a)
BY KindStays DEF UncreatedHasNoKind, Silent

(* A thread that goes on to something else than telling of the end, or to  *)
(* tell only those it may.                                                 *)
LEMMA NotifierStep ==
    ASSUME TypeOK, AllClearInv, [Next]_vars, NEW t \in Threads, NEW l, Become(t, l),
           UNCHANGED cleared,
           \/ l.pc # "notify"
           \/ l.alert \in Alerts /\ Silent(l.alert) => l.todo \subseteq told[l.alert]
    PROVE  NoAllClearOutOfTheBlue' /\ NotifiersFollowTheSos'
<1>1. \A a \in Alerts : /\ Silent(a)' => Silent(a)
                        /\ told[a] \subseteq told'[a]
  BY SilentBefore, ToldStays DEF AllClearInv
<1>2. \A r \in Requests : thread'[r] = thread[r] \/ thread'[r] = l
  BY DEF Become, TypeOK
<1>3. NoAllClearOutOfTheBlue'
  BY <1>1 DEF AllClearInv, NoAllClearOutOfTheBlue, Silent
<1>4. NotifiersFollowTheSos'
  <2> SUFFICES ASSUME NEW r \in Requests, NEW a \in Alerts, thread'[r].pc = "notify",
                      thread'[r].alert = a, row'[a].kind \notin {"manual", "iot_button"}
               PROVE  thread'[r].todo \subseteq told'[a]
    BY DEF NotifiersFollowTheSos, Silent, At
  <2>1. Silent(a)
    BY <1>1 DEF Silent
  <2> QED
    BY <1>1, <1>2, <2>1 DEF AllClearInv, NotifiersFollowTheSos, At
<1> QED
  BY <1>3, <1>4

LEMMA AllClearStep ==
    TypeOK /\ MessagesInv /\ AllClearInv /\ [Next]_vars
      => NoAllClearOutOfTheBlue' /\ NotifiersFollowTheSos'
<1> SUFFICES ASSUME TypeOK, MessagesInv, AllClearInv, [Next]_vars
             PROVE  NoAllClearOutOfTheBlue' /\ NotifiersFollowTheSos'
  OBVIOUS
<1> DEFINE Goal == NoAllClearOutOfTheBlue' /\ NotifiersFollowTheSos'
<1> HIDE DEF Goal
<1>b. /\ Idle.pc = "idle"
      /\ \A p : Watchdog(p).pc = p /\ \A j : Triggering(p, j).pc = p
      /\ \A p, j, b, td, s : /\ Local(p, j, b, td, s).pc = p
                             /\ Local(p, j, b, td, s).alert = b
                             /\ Local(p, j, b, td, s).todo = td
      /\ \A b : Dispatching(b).pc = "sending"
  BY DEF Idle, Watchdog, Triggering, Dispatching, Local
<1>c. ASSUME UNCHANGED cleared,
             \A r \in Requests : thread'[r] = thread[r] \/ thread'[r].pc # "notify"
      PROVE  Goal
  <2>1. \A a \in Alerts : /\ Silent(a)' => Silent(a)
                          /\ told[a] \subseteq told'[a]
    BY SilentBefore, ToldStays DEF AllClearInv
  <2>2. NoAllClearOutOfTheBlue'
    BY <1>c, <2>1 DEF AllClearInv, NoAllClearOutOfTheBlue, Silent
  <2>3. NotifiersFollowTheSos'
    <3> SUFFICES ASSUME NEW r \in Requests, NEW a \in Alerts, thread'[r].pc = "notify",
                        thread'[r].alert = a, row'[a].kind \notin {"manual", "iot_button"}
                 PROVE  thread'[r].todo \subseteq told'[a]
      BY DEF NotifiersFollowTheSos, Silent, At
    <3>1. Silent(a)
      BY <2>1 DEF Silent
    <3> QED
      BY <1>c, <2>1, <3>1 DEF AllClearInv, NotifiersFollowTheSos, At
  <2> QED
    BY <2>2, <2>3 DEF Goal
<1>1. ASSUME NEW r \in Requests, Call(r) PROVE Goal
  <2>1. ASSUME NEW kind \in Kinds, StartTrigger(r, kind) PROVE Goal
    BY <1>b, <2>1, NotifierStep DEF StartTrigger, messages, Goal
  <2>2. CASE StartPredict(r)
    BY <1>b, <2>2, NotifierStep DEF StartPredict, messages, Goal
  <2>3. ASSUME NEW b \in Alerts, StartSend(r, b) PROVE Goal
    BY <1>b, <2>3, NotifierStep DEF StartSend, messages, Goal
  <2>4. ASSUME NEW b \in Alerts, StartCancel(r, b) PROVE Goal
    BY <1>b, <2>4, NotifierStep DEF StartCancel, messages, Goal
  <2>5. ASSUME NEW b \in Alerts, StartSafe(r, b) PROVE Goal
    BY <1>b, <2>5, NotifierStep DEF StartSafe, messages, Goal
  <2> QED
    BY <1>1, <2>1, <2>2, <2>3, <2>4, <2>5 DEF Call
<1>2. ASSUME NEW r \in Requests, Handle(r) PROVE Goal
  <2>1. CASE CheckCooldown(r)
    BY <1>b, <2>1, NotifierStep DEF CheckCooldown, messages, Goal
  <2>2. CASE FindCountdown(r)
    BY <1>b, <2>2, NotifierStep DEF FindCountdown, messages, Goal
  <2>3. CASE CancelStale(r)
    BY <1>b, <2>3, NotifierStep DEF CancelStale, messages, Goal
  <2>4. CASE InsertAlert(r)
    BY <1>b, <2>4, NotifierStep DEF InsertAlert, messages, Goal
  <2>5. CASE MarkAndArm(r)
    <3>1. \A u \in Threads : thread'[u] = thread[u] \/ thread'[u].pc \in {"idle", "sleeping"}
      BY <1>b, <2>5 DEF MarkAndArm, TypeOK
    <3> QED
      BY <1>c, <2>5, <3>1 DEF MarkAndArm, messages
  <2>6. CASE CommitCancel(r)
    <3> DEFINE a == thread[r].alert
    <3>1. Silent(a) => HeardOnCancel(a) = {}
      BY DEF Silent, HeardOnCancel
    <3> QED
      BY <1>b, <2>6, <3>1, NotifierStep DEF CommitCancel, messages, Goal
  <2>7. CASE CommitSafe(r)
    <3> DEFINE a == thread[r].alert
               td == IF thread[r].seen.status = "sent" THEN Contacts ELSE {}
    <3>1. a \in Alerts => td \subseteq told[a]
      BY <2>7 DEF CommitSafe, MessagesInv, DispatchesHoldTheirAlert
    <3>2. Become(r, Local("notify", "safe", a, td, Unread)) /\ UNCHANGED cleared
      BY <2>7 DEF CommitSafe, messages
    <3> HIDE DEF a, td
    <3> QED
      BY <1>b, <3>1, <3>2, NotifierStep DEF Goal
  <2>8. CASE EndNotify(r)
    BY <1>b, <2>8, NotifierStep DEF EndNotify, messages, Goal
  <2>9. ASSUME NEW c \in Contacts, SendAllClear(r, c) PROVE Goal
    <3> DEFINE a == thread[r].alert
    <3>1. thread[r] \in Thread
      BY DEF TypeOK
    <3>2. \A q \in Requests : /\ thread'[q].pc = thread[q].pc
                              /\ thread'[q].alert = thread[q].alert
                              /\ thread'[q].todo \subseteq thread[q].todo
      BY <2>9, <3>1 DEF SendAllClear, Become, TypeOK, Thread
    <3>3. UNCHANGED <<row, told>>
      BY <2>9 DEF SendAllClear
    <3>4. NotifiersFollowTheSos'
      BY <3>2, <3>3 DEF AllClearInv, NotifiersFollowTheSos, At, Silent
    <3>5. ASSUME NEW b \in Alerts, Silent(b) PROVE cleared'[b] \subseteq told[b]
      <4>1. cleared[b] \subseteq told[b]
        BY <3>5 DEF AllClearInv, NoAllClearOutOfTheBlue, Silent
      <4>2. CASE b = a
        <5>1. c \in told[b]
          BY <2>9, <3>5, <4>2 DEF SendAllClear, AllClearInv, NotifiersFollowTheSos
        <5> QED
          BY <2>9, <4>1, <4>2, <5>1 DEF SendAllClear, TypeOK
      <4>3. CASE b # a
        BY <2>9, <4>1, <4>3 DEF SendAllClear, TypeOK
      <4> QED
        BY <4>2, <4>3
    <3>6. NoAllClearOutOfTheBlue'
      BY <3>3, <3>5 DEF NoAllClearOutOfTheBlue, Silent
    <3> QED
      BY <3>4, <3>6 DEF Goal
  <2> QED
    BY <1>2, <2>1, <2>2, <2>3, <2>4, <2>5, <2>6, <2>7, <2>8, <2>9 DEF Handle
<1>3. ASSUME NEW b \in Alerts, WakeWatchdog(b) PROVE Goal
  BY <1>b, <1>3, NotifierStep DEF WakeWatchdog, messages, Goal
<1>4. ASSUME NEW t \in Threads, CommitSent(t) PROVE Goal
  BY <1>b, <1>4, NotifierStep DEF CommitSent, Ended, messages, Goal
<1>5. ASSUME NEW t \in Threads, NEW c \in Contacts, SendSos(t, c) PROVE Goal
  <2>1. thread[t] \in Thread
    BY DEF TypeOK
  <2>2. [thread[t] EXCEPT !.todo = @ \ {c}].pc = "sending"
    BY <1>5, <2>1 DEF SendSos, At, Thread
  <2> QED
    BY <1>5, <2>2, NotifierStep DEF SendSos, Goal
<1>6. ASSUME NEW t \in Threads, FailDispatch(t) PROVE Goal
  BY <1>b, <1>6, NotifierStep DEF FailDispatch, messages, Goal
<1>7. CASE Restart
  <2>1. \A r \in Requests : thread'[r] = thread[r] \/ thread'[r].pc # "notify"
    BY <1>b, <1>7, ClientsAssumption DEF Restart
  <2>2. cleared' = cleared
    BY <1>7 DEF Restart, messages
  <2> QED
    BY <1>c, <2>1, <2>2 DEF Goal
<1>8. CASE UNCHANGED <<thread, cleared>>
  <2>1. \A r \in Requests : thread'[r] = thread[r] \/ thread'[r].pc # "notify"
    BY <1>8
  <2>2. cleared' = cleared
    BY <1>8
  <2> QED
    BY <1>c, <2>1, <2>2 DEF Goal
<1> QED
  BY <1>1, <1>2, <1>3, <1>4, <1>5, <1>6, <1>7, <1>8
  DEF Next, Dispatch, ExpireStale, Tick, vars, messages, Goal

(* "I am safe" about an alert of a sensor or of the bracelet goes only to  *)
(* contacts that were sent its SOS, although cancel_sos decides whom to    *)
(* tell by the kind of the alert and mark_user_safe by a status that may   *)
(* be stale.                                                               *)
THEOREM AllClearFollowsSos == Spec => []NoAllClearOutOfTheBlue
<1>1. Init => AllClearInv
  BY DEF Init, AllClearInv, NoAllClearOutOfTheBlue, NotifiersFollowTheSos, UncreatedHasNoKind,
         NoRow, Idle, Local, At
<1>3. TypeOK /\ MessagesInv /\ AllClearInv /\ [Next]_vars => AllClearInv'
  BY NoKindBefore, AllClearStep DEF AllClearInv
<1>4. AllClearInv => NoAllClearOutOfTheBlue
  BY DEF AllClearInv
<1> QED
  BY <1>1, <1>3, <1>4, Typing, Messages, PTL DEF Spec

(* When requests come one at a time no alert is created during the         *)
(* cooldown of its kind, although the cooldown is looked at three steps    *)
(* earlier and the process may restart.                                    *)
THEOREM CooldownKept ==
    ASSUME Lone
    PROVE  Spec => CooldownHolds
<1> DEFINE Kept(a) == ~ Created(a) /\ Created(a)' =>
              /\ row'[a].kind = "auto" => autoLeft = 0
              /\ row'[a].kind \in {"manual", "hardware_distress", "bracelet"} => manualLeft = 0
           Holds == \A a \in Alerts : Kept(a)
<1>1. TypeOK /\ UncreatedHasNoKind /\ AloneInv /\ [Next]_vars => [Holds]_vars
  <2> SUFFICES ASSUME TypeOK, UncreatedHasNoKind, AloneInv, Next,
                      NEW a \in Alerts, ~ Created(a), Created(a)'
               PROVE  Kept(a)
    OBVIOUS
  <2>1. row[a].kind = "none"
    BY DEF UncreatedHasNoKind
  <2>2. CASE row'[a].kind = row[a].kind
    BY <2>1, <2>2
  <2>3. ASSUME NEW r \in Requests, InsertAlert(r), row'[a].kind = KindOf(thread[r].job)
        PROVE  Kept(a)
    <3>1. ~ OnCooldown(row'[a].kind)
      BY <2>3 DEF InsertAlert, AloneInv, TriggersAlone, At
    <3> QED
      BY <3>1, TimesAssumption DEF OnCooldown, TypeOK
  <2> QED
    BY <2>2, <2>3, KindStays
<1>2. Init => UncreatedHasNoKind
  BY DEF Init, UncreatedHasNoKind, NoRow
<1> QED
  BY <1>1, <1>2, NoKindBefore, Alone, Typing, PTL DEF Spec, CooldownHolds

-----------------------------------------------------------------------------
(* Requests one at a time: the alert in countdown is the newest one.       *)

\* A dispatch holds an alert that exists.
UnderwayIsCreated == \A a \in Alerts : DispatchersOf(a) # {} => Created(a)

\* Alerts are numbered in the order of their insertion.
InsertionOrder == \A a \in Alerts : Created(a) => \A b \in 1 .. a - 1 : Created(b)

CountdownIsLatest == \A a, b \in Alerts : InCountdown(a) /\ Created(b) => b <= a

OrderInv == UnderwayIsCreated /\ InsertionOrder /\ CountdownIsLatest

(* A dispatch begins with an alert in countdown, and no alert goes.        *)
LEMMA UnderwayStep ==
    ASSUME TypeOK, MessagesInv, ClosersHoldAnAlert, UnderwayIsCreated, [Next]_vars
    PROVE  UnderwayIsCreated'
<1> SUFFICES ASSUME NEW a \in Alerts, DispatchersOf(a)' # {} PROVE Created(a)'
  BY DEF UnderwayIsCreated
<1>1. LifeStep
  BY RefinementStep
<1>2. Underway'[a] # {}
  BY DEF Underway
<1>3. Underway[a] # {} \/ Phase[a] = "countdown"
  BY <1>1, <1>2
  DEF LifeStep, Lifecycle!Next, Lifecycle!OpenAlert, Lifecycle!BeginDispatch, Lifecycle!Tell,
      Lifecycle!EndDispatch, Lifecycle!AbortDispatches, Lifecycle!Close,
      Lifecycle!lifecycleVars, Phase, Underway
<1>4. Created(a)
  BY <1>3 DEF UnderwayIsCreated, Underway, Phase, Created
<1> QED
  BY <1>4, CreatedStays

(* Alerts come from InsertAlert only, and only it begins a countdown.      *)
LEMMA RowsFollow ==
    ASSUME TypeOK, MessagesInv, ClosersHoldAnAlert, UnderwayIsCreated, [Next]_vars
    PROVE  \/ \E r \in Requests, a \in Alerts :
                /\ At(r, "insert") /\ ~ Created(a)
                /\ \A b \in 1 .. a - 1 : Created(b)
                /\ \A b \in Alerts \ {a} : row'[b] = row[b]
           \/ \A b \in Alerts : /\ Created(b)' => Created(b)
                                /\ InCountdown(b)' => InCountdown(b)
<1> DEFINE Inserted ==
              \E r \in Requests, a \in Alerts :
                /\ At(r, "insert") /\ ~ Created(a)
                /\ \A b \in 1 .. a - 1 : Created(b)
                /\ \A b \in Alerts \ {a} : row'[b] = row[b]
           Kept == \A b \in Alerts : /\ Created(b)' => Created(b)
                                     /\ InCountdown(b)' => InCountdown(b)
<1> SUFFICES Inserted \/ Kept
  OBVIOUS
<1>1. ASSUME NEW a \in Alerts, Created(a), NEW seen, NEW resolution,
             NEW status \in {"sent", "cancelled"}, Save(a, seen, status, resolution)
      PROVE  Kept
  <2>1. \A b \in Alerts : InCountdown(b)' => InCountdown(b)
    BY <1>1, RowsEnd
  <2>2. \A b \in Alerts : Created(b)' => Created(b)
    BY <1>1, SaveEffect DEF Created
  <2> QED
    BY <2>1, <2>2
<1>2. ASSUME NEW r \in Requests, CancelStale(r) \/ CommitCancel(r) \/ CommitSafe(r)
      PROVE  Kept
  <2>1. thread[r].alert \in Alerts /\ Created(thread[r].alert)
    BY <1>2 DEF CancelStale, CommitCancel, CommitSafe, ClosersHoldAnAlert, At
  <2>2. PICK resolution :
          Save(thread[r].alert, thread[r].seen, "cancelled", resolution)
    BY <1>2 DEF CancelStale, CommitCancel, CommitSafe
  <2> QED
    BY <1>1, <2>1, <2>2
<1>3. ASSUME NEW t \in Threads, CommitSent(t) PROVE Kept
  <2>1. thread[t].alert \in Alerts /\ t \in DispatchersOf(thread[t].alert)
    BY <1>3 DEF CommitSent, MessagesInv, DispatchesHoldTheirAlert, DispatchersOf
  <2>2. Created(thread[t].alert)
    BY <2>1 DEF UnderwayIsCreated
  <2> QED
    BY <1>1, <1>3, <2>1, <2>2 DEF CommitSent
<1>4. ASSUME NEW r \in Requests, InsertAlert(r) PROVE Inserted
  <2>1. PICK a \in Alerts :
          /\ ~ Created(a)
          /\ \A b \in 1 .. a - 1 : Created(b)
          /\ row' = [row EXCEPT ![a] = [status |-> "countdown", kind |-> KindOf(thread[r].job),
                                        resolution |-> "null", age |-> 0]]
    BY <1>4 DEF InsertAlert
  <2>2. \A b \in Alerts \ {a} : row'[b] = row[b]
    BY <2>1 DEF TypeOK
  <2> QED
    BY <1>4, <2>1, <2>2 DEF InsertAlert
<1>5. CASE ExpireStale
  BY <1>5 DEF ExpireStale, TypeOK, Row, Stale, Created, InCountdown
<1>6. CASE Tick
  BY <1>6 DEF Tick, TypeOK, Row, Created, InCountdown
<1>7. CASE UNCHANGED row
  BY <1>7 DEF Created, InCountdown
<1> QED
  BY <1>2, <1>3, <1>4, <1>5, <1>6, <1>7
  DEF Next, Call, Handle, Dispatch, StartTrigger, StartPredict, CheckCooldown, FindCountdown,
      MarkAndArm, StartSend, WakeWatchdog, SendSos, FailDispatch, StartCancel, StartSafe,
      SendAllClear, EndNotify, Restart, vars

LEMMA OrderInit == Init => OrderInv /\ ClosersHoldAnAlert
BY DEF Init, OrderInv, UnderwayIsCreated, InsertionOrder, CountdownIsLatest, ClosersHoldAnAlert,
       DispatchersOf, Created, InCountdown, At, Idle, Local, NoRow

LEMMA OrderStep ==
    TypeOK /\ MessagesInv /\ ClosersHoldAnAlert /\ AloneInv /\ OrderInv /\ [Next]_vars
      => OrderInv'
<1> SUFFICES ASSUME TypeOK, MessagesInv, ClosersHoldAnAlert, AloneInv, OrderInv, [Next]_vars
             PROVE  OrderInv'
  OBVIOUS
<1>1. UnderwayIsCreated'
  BY UnderwayStep DEF OrderInv
<1>2. \A b \in Alerts : Created(b) => Created(b)'
  BY CreatedStays
<1>3. ASSUME NEW r \in Requests, NEW a \in Alerts, At(r, "insert"), ~ Created(a),
             \A b \in 1 .. a - 1 : Created(b), \A b \in Alerts \ {a} : row'[b] = row[b]
      PROVE  InsertionOrder' /\ CountdownIsLatest'
  <2>1. \A b \in Alerts : ~ InCountdown(b)
    BY <1>3 DEF AloneInv, TriggersAlone
  <2>2. \A b \in Alerts : /\ InCountdown(b)' => b = a
                          /\ Created(b)' => b = a \/ Created(b)
    BY <1>3, <2>1 DEF InCountdown, Created
  <2>3. InsertionOrder'
    <3> SUFFICES ASSUME NEW b \in Alerts, Created(b)', NEW c \in 1 .. b - 1
                 PROVE  Created(c)'
      BY DEF InsertionOrder
    <3>1. c \in Alerts /\ Created(c)
      BY <1>3, <2>2, BoundsAssumption DEF OrderInv, InsertionOrder
    <3> QED
      BY <1>2, <3>1
  <2>4. \A b \in Alerts : b > a => ~ Created(b)
    BY <1>3, BoundsAssumption DEF OrderInv, InsertionOrder
  <2>5. CountdownIsLatest'
    BY <2>2, <2>4, BoundsAssumption DEF CountdownIsLatest
  <2> QED
    BY <2>3, <2>5
<1>4. ASSUME \A b \in Alerts : /\ Created(b)' => Created(b)
                               /\ InCountdown(b)' => InCountdown(b)
      PROVE  InsertionOrder' /\ CountdownIsLatest'
  <2>1. CountdownIsLatest'
    BY <1>4 DEF OrderInv, CountdownIsLatest
  <2>2. \A b \in Alerts : 1 .. b - 1 \subseteq Alerts
    BY BoundsAssumption
  <2>3. InsertionOrder'
    BY <1>2, <1>4, <2>2 DEF OrderInv, InsertionOrder
  <2> QED
    BY <2>1, <2>3
<1> QED
  BY <1>1, <1>3, <1>4, RowsFollow DEF OrderInv

(* When requests come one at a time the alert in countdown is newer than   *)
(* every other one, so that whoever looks for the latest open alert        *)
(* (cancel without an id, the double tap of the button) finds it.          *)
THEOREM LatestInCountdown ==
    ASSUME Lone
    PROVE  Spec => []CountdownIsLatest
<1>1. TypeOK /\ ClosersHoldAnAlert /\ [Next]_vars => ClosersHoldAnAlert'
  BY ClosersStep
<1>2. Spec => []OrderInv
  BY <1>1, OrderInit, OrderStep, Alone, Messages, Typing, PTL DEF Spec
<1>3. OrderInv => CountdownIsLatest
  BY DEF OrderInv
<1> QED
  BY <1>2, <1>3, PTL

-----------------------------------------------------------------------------
(* What the counterexamples SosAutoBlocked and SosMarkedSafe depend on.    *)

NoPredictions == \A r \in Requests : thread[r].job # "predict"

\* A handler about to mark a cooldown marks that of the alert it created.
MarksItsOwnKind ==
    \A r \in Requests : At(r, "mark") =>
        thread[r].alert \in Alerts /\ row[thread[r].alert].kind = KindOf(thread[r].job)

AutoInv == OnlyAutoBlocksAuto /\ NoPredictions /\ MarksItsOwnKind

(* A thread that goes on to anything else than marking a cooldown, while   *)
(* the auto cooldown does not begin.                                       *)
LEMMA UnmarkedStep ==
    ASSUME TypeOK, AutoInv, \A a \in Alerts : row[a].kind # "none" => row'[a].kind = row[a].kind,
           NEW t \in Threads, NEW l, Become(t, l), l.pc # "mark", l.job # "predict",
           autoLeft' = autoLeft
    PROVE  AutoInv'
<1>1. \A r \in Requests : thread'[r] = thread[r] \/ thread'[r] = l
  BY DEF Become, TypeOK
<1>2. OnlyAutoBlocksAuto'
  BY DEF AutoInv, OnlyAutoBlocksAuto
<1>3. NoPredictions'
  BY <1>1 DEF AutoInv, NoPredictions
<1>4. \A job : KindOf(job) # "none"
  BY DEF KindOf, Kinds
<1>5. MarksItsOwnKind'
  BY <1>1, <1>4 DEF AutoInv, MarksItsOwnKind, At
<1> QED
  BY <1>2, <1>3, <1>5 DEF AutoInv

LEMMA AutoStep ==
    ASSUME "predict" \notin Operations
    PROVE  TypeOK /\ UncreatedHasNoKind /\ AutoInv /\ [Next]_vars => AutoInv'
<1> SUFFICES ASSUME TypeOK, UncreatedHasNoKind, AutoInv, [Next]_vars PROVE AutoInv'
  OBVIOUS
<1>a. \A a \in Alerts : row[a].kind # "none" => row'[a].kind = row[a].kind
  BY KindStays DEF UncreatedHasNoKind
<1>b. /\ Idle.pc = "idle" /\ Idle.job = "none"
      /\ \A p : Watchdog(p).pc = p /\ Watchdog(p).job = "none"
      /\ \A p, j : Triggering(p, j).pc = p /\ Triggering(p, j).job = j
      /\ \A p, j, b, td, s : Local(p, j, b, td, s).pc = p /\ Local(p, j, b, td, s).job = j
      /\ \A b : Dispatching(b).pc = "sending" /\ Dispatching(b).job = "send"
  BY DEF Idle, Watchdog, Triggering, Dispatching, Local
<1>1. ASSUME NEW r \in Requests, Call(r) PROVE AutoInv'
  <2>1. ASSUME NEW kind \in Kinds, StartTrigger(r, kind) PROVE AutoInv'
    BY <1>a, <1>b, <2>1, UnmarkedStep DEF StartTrigger, Kinds, cooldowns
  <2>2. ~ StartPredict(r)
    BY DEF StartPredict
  <2>3. ASSUME NEW b \in Alerts, StartSend(r, b) PROVE AutoInv'
    BY <1>a, <1>b, <2>3, UnmarkedStep DEF StartSend, cooldowns
  <2>4. ASSUME NEW b \in Alerts, StartCancel(r, b) PROVE AutoInv'
    BY <1>a, <1>b, <2>4, UnmarkedStep DEF StartCancel, cooldowns
  <2>5. ASSUME NEW b \in Alerts, StartSafe(r, b) PROVE AutoInv'
    BY <1>a, <1>b, <2>5, UnmarkedStep DEF StartSafe, cooldowns
  <2> QED
    BY <1>1, <2>1, <2>2, <2>3, <2>4, <2>5 DEF Call
<1>2. ASSUME NEW r \in Requests, Handle(r) PROVE AutoInv'
  <2>0. thread[r].job # "predict" /\ thread[r] \in Thread
    BY DEF AutoInv, NoPredictions, TypeOK
  <2>1. CASE CheckCooldown(r)
    BY <1>a, <1>b, <2>0, <2>1, UnmarkedStep DEF CheckCooldown, MarkAfterReturn
  <2>2. CASE FindCountdown(r)
    BY <1>a, <1>b, <2>0, <2>2, UnmarkedStep DEF FindCountdown, MarkAfterReturn
  <2>3. CASE CancelStale(r)
    BY <1>a, <1>b, <2>0, <2>3, UnmarkedStep DEF CancelStale, cooldowns
  <2>4. CASE InsertAlert(r)
    <3>1. PICK a \in Alerts :
            /\ row' = [row EXCEPT ![a] = [status |-> "countdown", kind |-> KindOf(thread[r].job),
                                          resolution |-> "null", age |-> 0]]
            /\ Become(r, Local("mark", thread[r].job, a, {}, Unread))
      BY <2>4 DEF InsertAlert
    <3>2. \A q \in Requests : thread'[q] = IF q = r THEN Local("mark", thread[r].job, a, {}, Unread)
                                                    ELSE thread[q]
      BY <3>1 DEF Become, TypeOK
    <3>3. row'[a].kind = KindOf(thread[r].job)
      BY <3>1 DEF TypeOK
    <3>4. \A job : KindOf(job) # "none"
      BY DEF KindOf, Kinds
    <3>5. MarksItsOwnKind'
      BY <1>a, <3>2, <3>3, <3>4 DEF AutoInv, MarksItsOwnKind, At, Local
    <3>6. NoPredictions'
      BY <2>0, <3>2 DEF AutoInv, NoPredictions, Local
    <3>7. OnlyAutoBlocksAuto'
      BY <1>a, <2>4 DEF InsertAlert, cooldowns, AutoInv, OnlyAutoBlocksAuto
    <3> QED
      BY <3>5, <3>6, <3>7 DEF AutoInv
  <2>5. CASE MarkAndArm(r)
    <3>1. \A q \in Requests : thread'[q] \in {thread[q], Idle, Watchdog("sleeping")}
      BY <2>5 DEF MarkAndArm, TypeOK
    <3>2. /\ row' = row
          /\ autoLeft' = autoLeft \/ KindOf(thread[r].job) = "auto"
          /\ At(r, "mark")
      BY <2>5 DEF MarkAndArm
    <3>3. MarksItsOwnKind'
      BY <1>b, <3>1, <3>2 DEF AutoInv, MarksItsOwnKind, At
    <3>4. NoPredictions'
      BY <1>b, <3>1 DEF AutoInv, NoPredictions
    <3>5. thread[r].alert \in Alerts /\ row[thread[r].alert].kind = KindOf(thread[r].job)
      BY <3>2 DEF AutoInv, MarksItsOwnKind
    <3>6. OnlyAutoBlocksAuto'
      BY <3>2, <3>5 DEF AutoInv, OnlyAutoBlocksAuto
    <3> QED
      BY <3>3, <3>4, <3>6 DEF AutoInv
  <2>6. CASE CommitCancel(r)
    BY <1>a, <1>b, <2>6, UnmarkedStep DEF CommitCancel, cooldowns
  <2>7. CASE CommitSafe(r)
    BY <1>a, <1>b, <2>7, UnmarkedStep DEF CommitSafe, cooldowns
  <2>8. CASE EndNotify(r)
    BY <1>a, <1>b, <2>8, UnmarkedStep DEF EndNotify
  <2>9. ASSUME NEW c \in Contacts, SendAllClear(r, c) PROVE AutoInv'
    <3>1. /\ [thread[r] EXCEPT !.todo = @ \ {c}].pc = "notify"
          /\ [thread[r] EXCEPT !.todo = @ \ {c}].job = thread[r].job
      BY <2>0, <2>9 DEF SendAllClear, At, Thread
    <3> QED
      BY <1>a, <2>0, <2>9, <3>1, UnmarkedStep DEF SendAllClear, cooldowns
  <2> QED
    BY <1>2, <2>1, <2>2, <2>3, <2>4, <2>5, <2>6, <2>7, <2>8, <2>9 DEF Handle
<1>3. ASSUME NEW b \in Alerts, WakeWatchdog(b) PROVE AutoInv'
  BY <1>a, <1>b, <1>3, UnmarkedStep DEF WakeWatchdog, cooldowns
<1>4. ASSUME NEW t \in Threads, CommitSent(t) PROVE AutoInv'
  BY <1>a, <1>b, <1>4, UnmarkedStep DEF CommitSent, Ended, cooldowns
<1>5. ASSUME NEW t \in Threads, NEW c \in Contacts, SendSos(t, c) PROVE AutoInv'
  <2>1. \A r \in Requests : /\ thread'[r].pc = thread[r].pc
                            /\ thread'[r].job = thread[r].job
                            /\ thread'[r].alert = thread[r].alert
    BY <1>5 DEF SendSos, Become, TypeOK, Thread
  <2> QED
    BY <1>5, <2>1
    DEF SendSos, cooldowns, AutoInv, OnlyAutoBlocksAuto, NoPredictions, MarksItsOwnKind, At
<1>6. ASSUME NEW t \in Threads, FailDispatch(t) PROVE AutoInv'
  BY <1>a, <1>b, <1>6, UnmarkedStep DEF FailDispatch, cooldowns
<1>7. CASE Restart
  <2>1. \A r \in Requests : thread'[r] = Idle
    BY <1>7, ClientsAssumption DEF Restart
  <2> QED
    BY <1>7, <1>b, <2>1
    DEF Restart, AutoInv, OnlyAutoBlocksAuto, NoPredictions, MarksItsOwnKind, At
<1>8. ASSUME UNCHANGED thread, autoLeft' > 0 => autoLeft > 0 PROVE AutoInv'
  <2>1. \A job : KindOf(job) # "none"
    BY DEF KindOf, Kinds
  <2> QED
    BY <1>8, <1>a, <2>1 DEF AutoInv, OnlyAutoBlocksAuto, NoPredictions, MarksItsOwnKind, At
<1>9. CASE Tick
  <2>1. autoLeft \in Nat
    BY TimesAssumption DEF TypeOK
  <2> QED
    BY <1>8, <1>9, <2>1 DEF Tick, Elapsed
<1> QED
  BY <1>1, <1>2, <1>3, <1>4, <1>5, <1>6, <1>7, <1>8, <1>9
  DEF Next, Dispatch, ExpireStale, cooldowns, vars

(* Alerts made by hand never start the automatic cooldown: what blocks the *)
(* automatic SOS is an automatic alert, or a prediction that was answered  *)
(* with somebody else's countdown.                                         *)
THEOREM OnlyPredictionsBlock ==
    ASSUME "predict" \notin Operations
    PROVE  Spec => []OnlyAutoBlocksAuto
<1>1. Init => AutoInv /\ UncreatedHasNoKind
  BY DEF Init, AutoInv, OnlyAutoBlocksAuto, NoPredictions, MarksItsOwnKind, UncreatedHasNoKind,
         At, Idle, Local, NoRow
<1>2. AutoInv => OnlyAutoBlocksAuto
  BY DEF AutoInv
<1> QED
  BY <1>1, <1>2, AutoStep, NoKindBefore, Typing, PTL DEF Spec

OnceSent(a) == row[a].status = "sent" \/ row[a].resolution = "user_marked_safe"

\* An alert is sent by its watchdog, which is done with it then.
OverInv ==
    /\ \A r \in Requests : ~ At(r, "sending")
    /\ \A a \in Alerts : OnceSent(a) => At(a, "over")
    /\ \A r \in Requests : At(r, "safe") /\ thread[r].seen.status = "sent" =>
          thread[r].alert \in Alerts /\ At(thread[r].alert, "over")
    /\ MarkedSafeIsOver

(* A handler that goes on to anything else than a dispatch.                *)
LEMMA UnsentStep ==
    ASSUME TypeOK, OverInv, NEW r \in Requests, NEW l, Become(r, l), l.pc # "sending",
           l.pc = "safe" /\ l.seen.status = "sent" => l.alert \in Alerts /\ At(l.alert, "over"),
           \A a \in Alerts : OnceSent(a)' => OnceSent(a) \/ At(a, "over"),
           MarkedSafeIsOver'
    PROVE  OverInv'
<1>1. /\ \A a \in Alerts : thread'[a] = thread[a]
      /\ \A q \in Requests : thread'[q] = IF q = r THEN l ELSE thread[q]
  BY ClientsAssumption DEF Become, TypeOK
<1>2. \A a \in Alerts : At(a, "over")' <=> At(a, "over")
  BY <1>1 DEF At
<1>3. \A a \in Alerts : OnceSent(a)' => At(a, "over")'
  BY <1>2 DEF OverInv
<1>4. \A q \in Requests : ~ At(q, "sending")'
  BY <1>1 DEF OverInv, At
<1>5. \A q \in Requests : (At(q, "safe") /\ thread[q].seen.status = "sent")' =>
         thread'[q].alert \in Alerts /\ thread'[thread'[q].alert].pc = "over"
  BY <1>1, <1>2 DEF OverInv, At
<1> QED
  BY <1>3, <1>4, <1>5 DEF OverInv, At

(* Rows that only time or a cancel has touched.                            *)
LEMMA NoneMarked ==
    ASSUME MarkedSafeIsOver,
           \A a \in Alerts :
              /\ row'[a].status \in {row[a].status, "cancelled"}
              /\ row'[a].resolution = "user_marked_safe" =>
                    row[a].resolution = "user_marked_safe" \/ row'[a].status = "cancelled"
    PROVE  MarkedSafeIsOver'
BY DEF MarkedSafeIsOver

LEMMA OverStep ==
    ASSUME "send" \notin Operations
    PROVE  TypeOK /\ GuardInv /\ OverInv /\ [Next]_vars => OverInv'
<1> SUFFICES ASSUME TypeOK, GuardInv, OverInv, [Next]_vars PROVE OverInv'
  OBVIOUS
<1>a. /\ Idle.pc = "idle"
      /\ \A p : Watchdog(p).pc = p
      /\ \A p, j : Triggering(p, j).pc = p
      /\ \A p, j, b, td, x : Local(p, j, b, td, x).pc = p /\ Local(p, j, b, td, x).seen = x
                             /\ Local(p, j, b, td, x).alert = b
  BY DEF Idle, Watchdog, Triggering, Local
<1>b. \A a \in Alerts : row[a] \in Row
  BY DEF TypeOK
<1>c. ASSUME NEW r \in Requests, NEW l, Become(r, l), l.pc \notin {"sending", "safe"},
             UNCHANGED row
      PROVE  OverInv'
  <2>1. MarkedSafeIsOver' /\ \A a \in Alerts : OnceSent(a)' => OnceSent(a)
    BY <1>c DEF OnceSent, OverInv, MarkedSafeIsOver
  <2> QED
    BY <1>c, <2>1, UnsentStep
<1>d. ASSUME NEW r \in Requests, NEW l, Become(r, l), l.pc \notin {"sending", "safe"},
             NEW a, NEW seen, NEW resolution, resolution \in {seen.resolution, "cancelled"},
             Save(a, seen, "cancelled", resolution)
      PROVE  OverInv'
  <2>1. \A b \in Alerts : /\ row'[b].status \in {row[b].status, "cancelled"}
                          /\ row'[b].resolution \in {row[b].resolution, "cancelled"}
    BY <1>d, SaveEffect
  <2>2. MarkedSafeIsOver'
    BY <2>1, NoneMarked DEF OverInv
  <2>3. \A b \in Alerts : OnceSent(b)' => OnceSent(b)
    BY <2>1 DEF OnceSent
  <2> QED
    BY <1>d, <2>2, <2>3, UnsentStep
<1>1. ASSUME NEW r \in Requests, Call(r) PROVE OverInv'
  <2>1. ASSUME NEW kind \in Kinds, StartTrigger(r, kind) PROVE OverInv'
    BY <1>a, <1>c, <2>1 DEF StartTrigger
  <2>2. CASE StartPredict(r)
    BY <1>a, <1>c, <2>2 DEF StartPredict
  <2>3. ASSUME NEW b \in Alerts PROVE ~ StartSend(r, b)
    BY DEF StartSend
  <2>4. ASSUME NEW b \in Alerts, StartCancel(r, b) PROVE OverInv'
    BY <1>a, <1>c, <2>4 DEF StartCancel
  <2>5. ASSUME NEW b \in Alerts, StartSafe(r, b) PROVE OverInv'
    <3>1. Loaded(b).status = "sent" => At(b, "over")
      BY DEF Loaded, OverInv, OnceSent
    <3>2. MarkedSafeIsOver' /\ \A a \in Alerts : OnceSent(a)' => OnceSent(a)
      BY <2>5 DEF StartSafe, OnceSent, OverInv, MarkedSafeIsOver
    <3>3. Become(r, Local("safe", "safe", b, {}, Loaded(b)))
      BY <2>5 DEF StartSafe
    <3> QED
      BY <1>a, <3>1, <3>2, <3>3, UnsentStep
  <2> QED
    BY <1>1, <2>1, <2>2, <2>3, <2>4, <2>5 DEF Call
<1>2. ASSUME NEW r \in Requests, Handle(r) PROVE OverInv'
  <2>1. CASE CheckCooldown(r)
    BY <1>a, <1>c, <2>1 DEF CheckCooldown
  <2>2. CASE FindCountdown(r)
    BY <1>a, <1>c, <2>2 DEF FindCountdown
  <2>3. CASE CancelStale(r)
    BY <1>a, <1>d, <2>3 DEF CancelStale
  <2>4. CASE InsertAlert(r)
    <3>1. PICK a \in Alerts :
            /\ row' = [row EXCEPT ![a] = [status |-> "countdown", kind |-> KindOf(thread[r].job),
                                          resolution |-> "null", age |-> 0]]
            /\ Become(r, Local("mark", thread[r].job, a, {}, Unread))
      BY <2>4 DEF InsertAlert
    <3>2. /\ row'[a].status = "countdown" /\ row'[a].resolution = "null"
          /\ \A b \in Alerts : b # a => row'[b] = row[b]
      BY <3>1 DEF TypeOK
    <3>3. MarkedSafeIsOver'
      BY <3>2 DEF OverInv, MarkedSafeIsOver
    <3>4. \A b \in Alerts : OnceSent(b)' => OnceSent(b)
      BY <3>2 DEF OnceSent
    <3> QED
      BY <1>a, <3>1, <3>3, <3>4, UnsentStep
  <2>5. CASE MarkAndArm(r)
    <3> DEFINE m == thread[r].alert
    <3>1. /\ thread' = [thread EXCEPT ![r] = Idle, ![m] = Watchdog("sleeping")]
          /\ row' = row /\ At(r, "mark")
      BY <2>5 DEF MarkAndArm
    <3>2. m \in Alerts /\ At(m, "idle")
      BY <3>1 DEF GuardInv, WatchdogsKnowTheirAlert
    <3> HIDE DEF m
    <3>3. /\ \A b \in Alerts : b # m => thread'[b] = thread[b]
          /\ \A q \in Requests : thread'[q] = IF q = r THEN Idle ELSE thread[q]
      BY <3>1, <3>2, ClientsAssumption DEF TypeOK
    <3>4. \A b \in Alerts : At(b, "over") => At(b, "over")'
      BY <3>2, <3>3 DEF At
    <3>5. \A b \in Alerts : OnceSent(b)' => OnceSent(b)
      BY <3>1 DEF OnceSent
    <3>6. MarkedSafeIsOver'
      BY <3>1 DEF OverInv, MarkedSafeIsOver
    <3> QED
      BY <1>a, <3>3, <3>4, <3>5, <3>6 DEF OverInv, At
  <2>6. CASE CommitCancel(r)
    BY <1>a, <1>d, <2>6 DEF CommitCancel
  <2>7. CASE CommitSafe(r)
    <3> DEFINE m == thread[r].alert
               s == thread[r].seen
               ending == IF s.status = "sent" THEN "user_marked_safe" ELSE "false_alarm"
               l == Local("notify", "safe", m, IF s.status = "sent" THEN Contacts ELSE {}, Unread)
    <3>1. Save(m, s, "cancelled", ending) /\ Become(r, l) /\ At(r, "safe")
      BY <2>7 DEF CommitSafe
    <3>2. s.status = "sent" => m \in Alerts /\ At(m, "over")
      BY <3>1 DEF OverInv
    <3>3. s.status = "sent" => row'[m].status = "cancelled"
      BY <1>b, <3>1, <3>2 DEF Save, Row, TypeOK
    <3>4. l.pc = "notify"
      BY <1>a
    <3> HIDE DEF m, s, l
    <3>5. \A b \in Alerts : /\ row'[b].status \in {row[b].status, "cancelled"}
                            /\ row'[b].resolution \in {row[b].resolution, ending}
                            /\ b # m => row'[b] = row[b]
      BY <3>1, SaveEffect
    <3>6. MarkedSafeIsOver'
      BY <3>3, <3>5, NoneMarked DEF OverInv
    <3>7. \A b \in Alerts : OnceSent(b)' => OnceSent(b) \/ At(b, "over")
      BY <3>2, <3>5 DEF OnceSent
    <3> QED
      BY <3>1, <3>4, <3>6, <3>7, UnsentStep
  <2>8. CASE EndNotify(r)
    BY <1>a, <1>c, <2>8 DEF EndNotify
  <2>9. ASSUME NEW c \in Contacts, SendAllClear(r, c) PROVE OverInv'
    <3>1. [thread[r] EXCEPT !.todo = @ \ {c}].pc = "notify"
      BY <2>9 DEF SendAllClear, At, TypeOK, Thread
    <3> QED
      BY <1>c, <2>9, <3>1 DEF SendAllClear
  <2> QED
    BY <1>2, <2>1, <2>2, <2>3, <2>4, <2>5, <2>6, <2>7, <2>8, <2>9 DEF Handle
<1>3. ASSUME NEW b \in Alerts, NEW l, Become(b, l), ~ At(b, "over") \/ l.pc = "over",
             \A a \in Alerts : OnceSent(a)' => OnceSent(a) \/ (a = b /\ l.pc = "over"),
             MarkedSafeIsOver'
      PROVE  OverInv'
  <2>1. /\ \A a \in Alerts : thread'[a] = IF a = b THEN l ELSE thread[a]
        /\ \A q \in Requests : thread'[q] = thread[q]
    BY <1>3, ClientsAssumption DEF Become, TypeOK
  <2>2. \A a \in Alerts : At(a, "over") => At(a, "over")'
    BY <1>3, <2>1 DEF At
  <2> QED
    BY <1>3, <2>1, <2>2 DEF OverInv, At
<1>4. ASSUME NEW b \in Alerts, NEW l, Become(b, l), ~ At(b, "over"), UNCHANGED row PROVE OverInv'
  <2>1. MarkedSafeIsOver' /\ \A a \in Alerts : OnceSent(a)' => OnceSent(a)
    BY <1>4 DEF OnceSent, OverInv, MarkedSafeIsOver
  <2> QED
    BY <1>3, <1>4, <2>1
<1>5. ASSUME NEW b \in Alerts, WakeWatchdog(b) PROVE OverInv'
  <2>1. ~ At(b, "over") /\ UNCHANGED row
    BY <1>5 DEF WakeWatchdog, At
  <2> QED
    BY <1>4, <1>5, <2>1 DEF WakeWatchdog
<1>6. ASSUME NEW t \in Threads, At(t, "sending") PROVE t \in Alerts /\ thread[t].alert = t
  BY <1>6 DEF OverInv, GuardInv, WatchdogsKnowTheirAlert
<1>7. ASSUME NEW t \in Threads, CommitSent(t) PROVE OverInv'
  <2>1. /\ t \in Alerts /\ thread[t].alert = t /\ At(t, "sending")
        /\ Save(t, thread[t].seen, "sent", thread[t].seen.resolution)
        /\ Become(t, Watchdog("over"))
    BY <1>6, <1>7 DEF CommitSent, Ended
  <2>2. \A a \in Alerts : /\ row'[a].status \in {row[a].status, "sent"}
                          /\ row'[a].resolution = row[a].resolution
                          /\ a # t => row'[a] = row[a]
    BY <2>1, SaveEffect
  <2>3. ~ OnceSent(t)
    BY <2>1 DEF OverInv, At
  <2>4. MarkedSafeIsOver'
    BY <2>2, <2>3 DEF OverInv, MarkedSafeIsOver, OnceSent
  <2>5. \A a \in Alerts : OnceSent(a)' => OnceSent(a) \/ a = t
    BY <2>2 DEF OnceSent
  <2> QED
    BY <1>a, <1>3, <2>1, <2>4, <2>5
<1>8. ASSUME NEW t \in Threads, NEW c \in Contacts, SendSos(t, c) PROVE OverInv'
  <2>1. At(t, "sending") /\ UNCHANGED row
    BY <1>8 DEF SendSos
  <2>2. t \in Alerts /\ ~ At(t, "over")
    BY <1>6, <2>1 DEF At
  <2> QED
    BY <1>4, <1>8, <2>1, <2>2 DEF SendSos
<1>9. ASSUME NEW t \in Threads, FailDispatch(t) PROVE OverInv'
  <2>1. At(t, "sending") /\ UNCHANGED row
    BY <1>9 DEF FailDispatch
  <2>2. t \in Alerts /\ ~ At(t, "over")
    BY <1>6, <2>1 DEF At
  <2> QED
    BY <1>4, <1>9, <2>1, <2>2 DEF FailDispatch
<1>10. CASE Restart
  <2>1. /\ \A r \in Requests : thread'[r] = Idle
        /\ \A a \in Alerts : At(a, "over") => At(a, "over")'
    BY <1>10, ClientsAssumption DEF Restart, At
  <2>2. UNCHANGED row
    BY <1>10 DEF Restart
  <2>3. MarkedSafeIsOver' /\ \A a \in Alerts : OnceSent(a)' => OnceSent(a)
    BY <2>2 DEF OnceSent, OverInv, MarkedSafeIsOver
  <2> QED
    BY <1>a, <2>1, <2>3 DEF OverInv, At
<1>11. ASSUME UNCHANGED thread,
              \A a \in Alerts : row'[a].status \in {row[a].status, "cancelled"}
                                /\ row'[a].resolution \in {row[a].resolution, "expired"}
       PROVE  OverInv'
  <2>1. MarkedSafeIsOver'
    BY <1>11, NoneMarked DEF OverInv
  <2>2. \A a \in Alerts : OnceSent(a)' => OnceSent(a)
    BY <1>11 DEF OnceSent
  <2> QED
    BY <1>11, <2>1, <2>2 DEF OverInv, At
<1>12. CASE ExpireStale
  BY <1>b, <1>11, <1>12 DEF ExpireStale, Row
<1>13. CASE Tick
  BY <1>b, <1>11, <1>13 DEF Tick, Row
<1>14. CASE UNCHANGED vars
  BY <1>11, <1>14 DEF vars
<1> QED
  BY <1>1, <1>2, <1>5, <1>7, <1>8, <1>9, <1>10, <1>12, <1>13, <1>14 DEF Next, Dispatch

(* While only the watchdogs dispatch, as when the app never sends at once, *)
(* an alert marked safe is over: what reopens one is a second dispatch of  *)
(* the same alert.                                                         *)
THEOREM OnlySendNowReopens ==
    ASSUME "send" \notin Operations
    PROVE  Spec => []MarkedSafeIsOver
<1>1. Init => OverInv /\ GuardInv
  BY GuardInit DEF Init, OverInv, OnceSent, MarkedSafeIsOver, At, Idle, Local, NoRow
<1>2. TypeOK /\ MessagesInv /\ MessagesInv' /\ GuardInv /\ [Next]_vars => GuardInv'
  BY GuardStep DEF GuardInv, MessagesInv
<1>3. TypeOK /\ GuardInv /\ OverInv /\ [Next]_vars => OverInv'
  BY OverStep
<1>4. OverInv => MarkedSafeIsOver
  BY DEF OverInv
<1> QED
  BY <1>1, <1>2, <1>3, <1>4, Typing, Messages, PTL DEF Spec
=============================================================================
