------------------------- MODULE DeviceButtonProofs -------------------------
(***************************************************************************)
(* The button with the alerts, for any number of contacts, handlers,       *)
(* alerts and faults and any durations.  What the button does to the       *)
(* alerts is what a client of src/app/routes/sos.py may do that also       *)
(* triggers by button and cancels: DeviceButton implements SosAlerts with  *)
(* these two operations allowed.  What is proved of the alerts then holds  *)
(* with the button, whatever presses interleave with everything else.      *)
(***************************************************************************)
EXTENDS DeviceButton, TLAPS

Phone == INSTANCE SosAlertsProofs WITH Operations <- Operations \cup {"iot_button", "cancel"}

-----------------------------------------------------------------------------
(* The steps of the alerts are steps of a phone.                           *)

LEMMA PhoneAssumptions ==
    Phone!BoundsAssumption /\ Phone!TimesAssumption /\ Phone!ClientsAssumption
BY BoundsAssumption, TimesAssumption, ClientsAssumption
DEF Phone!BoundsAssumption, Phone!TimesAssumption, Phone!ClientsAssumption,
    Phone!Jobs, Phone!Kinds, Jobs, Kinds, Phone!Alerts, Alerts

\* The operators that both the steps and their counterparts are built from.
LEMMA SameOperators ==
    /\ Phone!Alerts = Alerts
    /\ Phone!Threads = Threads
    /\ Phone!Kinds = Kinds
    /\ Phone!Idle = Idle
    /\ \A a : /\ Phone!InCountdown(a) = InCountdown(a)
              /\ Phone!Created(a) = Created(a)
              /\ Phone!Open(a) = Open(a)
              /\ Phone!Loaded(a) = Loaded(a)
    /\ \A t, p : Phone!At(t, p) = At(t, p)
    /\ \A p, j, a, td, s : Phone!Local(p, j, a, td, s) = Local(p, j, a, td, s)
    /\ \A p, j : Phone!Triggering(p, j) = Triggering(p, j)
BY DEF Phone!Alerts, Alerts, Phone!Threads, Threads, Phone!Kinds, Kinds, Phone!Idle, Idle,
       Phone!InCountdown, InCountdown, Phone!Created, Created, Phone!Open, Open,
       Phone!Loaded, Loaded, Phone!At, At, Phone!Local, Local, Phone!Triggering, Triggering,
       Phone!Unread, Unread, Phone!NoAlert, NoAlert

LEMMA PhoneCalls == ASSUME NEW r \in Requests, Call(r) PROVE Phone!Call(r)
<1> USE DEF Phone!Alerts, Alerts, Phone!Kinds, Kinds, Phone!At, At, Phone!Become, Become,
            Phone!Local, Local, Phone!Triggering, Triggering, Phone!Unread, Unread,
            Phone!NoAlert, NoAlert, Phone!Loaded, Loaded, Phone!InCountdown, InCountdown,
            Phone!Open, Open, Phone!cooldowns, cooldowns, Phone!messages, messages
<1>1. ASSUME NEW kind \in Kinds, StartTrigger(r, kind) PROVE Phone!StartTrigger(r, kind)
  BY <1>1 DEF StartTrigger, Phone!StartTrigger
<1>2. ASSUME StartPredict(r) PROVE Phone!StartPredict(r)
  BY <1>2 DEF StartPredict, Phone!StartPredict, Phone!OnCooldown, OnCooldown
<1>3. ASSUME NEW a \in Alerts, StartSend(r, a) PROVE Phone!StartSend(r, a)
  BY <1>3 DEF StartSend, Phone!StartSend, Phone!Dispatching, Dispatching
<1>4. ASSUME NEW a \in Alerts, StartCancel(r, a) PROVE Phone!StartCancel(r, a)
  BY <1>4 DEF StartCancel, Phone!StartCancel
<1>5. ASSUME NEW a \in Alerts, StartSafe(r, a) PROVE Phone!StartSafe(r, a)
  BY <1>5 DEF StartSafe, Phone!StartSafe
<1> QED
  BY <1>1, <1>2, <1>3, <1>4, <1>5 DEF Call, Phone!Call

LEMMA PhoneHandles == ASSUME NEW r \in Requests, Handle(r) PROVE Phone!Handle(r)
<1> USE DEF Phone!Alerts, Alerts, Phone!Kinds, Kinds, Phone!At, At, Phone!Become, Become,
            Phone!Local, Local, Phone!Triggering, Triggering, Phone!Unread, Unread,
            Phone!NoAlert, NoAlert, Phone!Idle, Idle, Phone!Loaded, Loaded,
            Phone!InCountdown, InCountdown, Phone!Save, Save, Phone!KindOf, KindOf,
            Phone!cooldowns, cooldowns, Phone!messages, messages
<1>1. ASSUME CheckCooldown(r) PROVE Phone!CheckCooldown(r)
  BY <1>1 DEF CheckCooldown, Phone!CheckCooldown, Phone!OnCooldown, OnCooldown,
              Phone!MarkAfterReturn, MarkAfterReturn
<1>2. ASSUME FindCountdown(r) PROVE Phone!FindCountdown(r)
  BY <1>2 DEF FindCountdown, Phone!FindCountdown, Phone!Stale, Stale,
              Phone!MarkAfterReturn, MarkAfterReturn
<1>3. ASSUME CancelStale(r) PROVE Phone!CancelStale(r)
  BY <1>3 DEF CancelStale, Phone!CancelStale
<1>4. ASSUME InsertAlert(r) PROVE Phone!InsertAlert(r)
  BY <1>4 DEF InsertAlert, Phone!InsertAlert, Phone!Created, Created
<1>5. ASSUME MarkAndArm(r) PROVE Phone!MarkAndArm(r)
  BY <1>5 DEF MarkAndArm, Phone!MarkAndArm, Phone!Watchdog, Watchdog
<1>6. ASSUME CommitCancel(r) PROVE Phone!CommitCancel(r)
  BY <1>6 DEF CommitCancel, Phone!CommitCancel, Phone!HeardOnCancel, HeardOnCancel
<1>7. ASSUME CommitSafe(r) PROVE Phone!CommitSafe(r)
  BY <1>7 DEF CommitSafe, Phone!CommitSafe
<1>8. ASSUME EndNotify(r) PROVE Phone!EndNotify(r)
  BY <1>8 DEF EndNotify, Phone!EndNotify
<1>9. ASSUME NEW c \in Contacts, SendAllClear(r, c) PROVE Phone!SendAllClear(r, c)
  BY <1>9 DEF SendAllClear, Phone!SendAllClear
<1> QED
  BY <1>1, <1>2, <1>3, <1>4, <1>5, <1>6, <1>7, <1>8, <1>9 DEF Handle, Phone!Handle

LEMMA PhoneDispatches ==
    ASSUME NEW t \in Threads
    PROVE  /\ Dispatch(t) => Phone!Dispatch(t)
           /\ FailDispatch(t) => Phone!FailDispatch(t)
<1> USE DEF Phone!Alerts, Alerts, Phone!At, At, Phone!Become, Become, Phone!Local, Local,
            Phone!Unread, Unread, Phone!NoAlert, NoAlert, Phone!Idle, Idle,
            Phone!Watchdog, Watchdog, Phone!cooldowns, cooldowns, Phone!messages, messages
<1>1. ASSUME CommitSent(t) PROVE Phone!CommitSent(t)
  BY <1>1 DEF CommitSent, Phone!CommitSent, Phone!Save, Save, Phone!Ended, Ended
<1>2. ASSUME NEW c \in Contacts, SendSos(t, c) PROVE Phone!SendSos(t, c)
  BY <1>2 DEF SendSos, Phone!SendSos
<1>3. ASSUME FailDispatch(t) PROVE Phone!FailDispatch(t)
  BY <1>3 DEF FailDispatch, Phone!FailDispatch
<1> QED
  BY <1>1, <1>2, <1>3 DEF Dispatch, Phone!Dispatch

LEMMA PhoneElse ==
    /\ \A a \in Alerts : WakeWatchdog(a) => Phone!WakeWatchdog(a)
    /\ ExpireStale => Phone!ExpireStale
    /\ Restart => Phone!Restart
    /\ Tick => Phone!Tick
<1> USE DEF Phone!Alerts, Alerts, Phone!Threads, Threads, Phone!At, At, Phone!Local, Local,
            Phone!Unread, Unread, Phone!NoAlert, NoAlert, Phone!Idle, Idle,
            Phone!Watchdog, Watchdog, Phone!InCountdown, InCountdown,
            Phone!cooldowns, cooldowns, Phone!messages, messages
<1>1. ASSUME NEW a \in Alerts, WakeWatchdog(a) PROVE Phone!WakeWatchdog(a)
  BY <1>1 DEF WakeWatchdog, Phone!WakeWatchdog, Phone!Become, Become,
              Phone!Dispatching, Dispatching, Phone!Loaded, Loaded
<1>2. ExpireStale => Phone!ExpireStale
  BY DEF ExpireStale, Phone!ExpireStale, Phone!Stale, Stale
<1>3. Restart => Phone!Restart
  BY DEF Restart, Phone!Restart
<1>4. Tick => Phone!Tick
  BY DEF Tick, Phone!Tick, Phone!Elapsed, Elapsed, Phone!Created, Created
<1> QED
  BY <1>1, <1>2, <1>3, <1>4

-----------------------------------------------------------------------------
(* Every step with the button is a step of the alerts, or leaves them be.  *)

\* A press that has not yet become a trigger or a cancel runs in a handler
\* that does nothing else.
PressIsIdle ==
    \A r \in Requests : press[r].pc \in {"record", "trigger", "find"} => At(r, "idle")

LEMMA PressTriggersIsACall ==
    ASSUME PressIsIdle, NEW r \in Requests, PressTriggers(r)
    PROVE  Phone!StartTrigger(r, "iot_button")
BY SameOperators
DEF PressIsIdle, PressTriggers, Pressing, Phone!StartTrigger, Phone!Become, Become,
    Phone!cooldowns, cooldowns, Phone!messages, messages

LEMMA DoubleTapIsACall ==
    ASSUME PressIsIdle, NEW r \in Requests, DoubleTap(r)
    PROVE  \E a \in Alerts : Phone!StartCancel(r, a)
<1>1. PICK a \in Alerts :
        LatestOpen(a) /\ Become(r, Local("cancel", "cancel", a, {}, Loaded(a)))
  BY DEF DoubleTap
<1>2. Phone!StartCancel(r, a)
  BY <1>1, SameOperators
  DEF PressIsIdle, DoubleTap, Pressing, LatestOpen, Phone!StartCancel, Phone!Become, Become,
      Phone!cooldowns, cooldowns, Phone!messages, messages
<1> QED
  BY <1>2

LEMMA PhoneStep == PressIsIdle /\ [ButtonNext]_buttonVars => [Phone!Next]_(Phone!vars)
<1> SUFFICES ASSUME PressIsIdle, [ButtonNext]_buttonVars
             PROVE  Phone!Next \/ UNCHANGED Phone!vars
  OBVIOUS
<1>1. ASSUME UNCHANGED vars PROVE UNCHANGED Phone!vars
  BY <1>1 DEF vars, Phone!vars, cooldowns, messages, Phone!cooldowns, Phone!messages
<1>2. ASSUME NEW r \in Requests, PressTriggers(r) PROVE Phone!Next
  <2>1. Phone!Call(r)
    BY <1>2, PressTriggersIsACall DEF Phone!Call, Phone!Kinds
  <2> QED
    BY <2>1 DEF Phone!Next
<1>3. ASSUME NEW r \in Requests, DoubleTap(r) PROVE Phone!Next
  <2>1. Phone!Call(r)
    BY <1>3, DoubleTapIsACall, SameOperators DEF Phone!Call
  <2> QED
    BY <2>1 DEF Phone!Next
<1>4. CASE AlertStep
  BY <1>4, SameOperators, PhoneCalls, PhoneHandles, PhoneDispatches, PhoneElse
  DEF AlertStep, Phone!Next
<1>5. CASE ButtonRestart \/ ButtonTick
  BY <1>5, PhoneElse DEF ButtonRestart, ButtonTick, Phone!Next
<1>6. ASSUME NEW r \in Requests,
             \/ StartPress(r) \/ RecordPress(r) \/ PressFails(r)
             \/ DoubleTapFindsNothing(r) \/ DoubleTapEnds(r)
      PROVE  UNCHANGED vars
  BY <1>6 DEF StartPress, RecordPress, PressFails, DoubleTapFindsNothing, DoubleTapEnds
<1>7. CASE Register \/ Remove
  BY <1>1, <1>7 DEF Register, Remove
<1>8. CASE UNCHANGED buttonVars
  BY <1>1, <1>8 DEF buttonVars
<1> QED
  BY <1>1, <1>2, <1>3, <1>4, <1>5, <1>6, <1>7, <1>8 DEF ButtonNext

(* The presses are well typed, whatever the alerts do.                     *)
LEMMA ButtonTypesStep ==
    ButtonTypeOK /\ TypeOK' /\ [ButtonNext]_buttonVars => ButtonTypeOK'
<1> SUFFICES ASSUME ButtonTypeOK, TypeOK', [ButtonNext]_buttonVars PROVE ButtonTypeOK'
  OBVIOUS
<1> DEFINE Left == 0 .. TapWindow
           Press == [pc : {"none", "record", "trigger", "find", "cancel"},
                     double : BOOLEAN, left : Left]
<1>a. 0 \in Left /\ TapWindow \in Left /\ \A n \in Left : Elapsed(n) \in Left
  BY ButtonAssumption DEF Elapsed
<1>b. /\ paired \in BOOLEAN /\ tapLeft \in Left /\ press \in [Requests -> Press]
      /\ \A r \in Requests : press[r].left \in Left
  BY DEF ButtonTypeOK
<1>c. NoPress \in Press
  BY <1>a DEF NoPress
<1> SUFFICES paired' \in BOOLEAN /\ tapLeft' \in Left /\ press' \in [Requests -> Press]
  BY DEF ButtonTypeOK
<1> HIDE DEF Left
<1>1. ASSUME NEW r \in Requests, StartPress(r)
      PROVE  UNCHANGED <<paired, tapLeft>> /\ press' \in [Requests -> Press]
  <2>1. [pc |-> "record", double |-> tapLeft > 0, left |-> TapWindow] \in Press
    <3>1. (tapLeft > 0) \in BOOLEAN
      OBVIOUS
    <3> QED
      BY <1>a, <3>1
  <2> QED
    BY <1>b, <1>1, <2>1 DEF StartPress
<1>2. ASSUME NEW r \in Requests, RecordPress(r)
      PROVE  UNCHANGED paired /\ tapLeft' \in Left /\ press' \in [Requests -> Press]
  BY <1>b, <1>2 DEF RecordPress, Move
<1>3. ASSUME NEW r \in Requests,
             \/ PressFails(r) \/ PressTriggers(r)
             \/ DoubleTapFindsNothing(r) \/ DoubleTapEnds(r)
      PROVE  UNCHANGED <<paired, tapLeft>> /\ press' \in [Requests -> Press]
  BY <1>b, <1>c, <1>3
  DEF PressFails, PressTriggers, DoubleTapFindsNothing, DoubleTapEnds, Release
<1>4. ASSUME NEW r \in Requests, DoubleTap(r)
      PROVE  UNCHANGED <<paired, tapLeft>> /\ press' \in [Requests -> Press]
  BY <1>b, <1>4 DEF DoubleTap, Move
<1>5. ASSUME Register \/ Remove
      PROVE  paired' \in BOOLEAN /\ tapLeft' \in Left /\ UNCHANGED press
  BY <1>a, <1>5 DEF Register, Remove
<1>6. ASSUME ButtonRestart
      PROVE  UNCHANGED <<paired, tapLeft>> /\ press' \in [Requests -> Press]
  BY <1>c, <1>6 DEF ButtonRestart
<1>7. ASSUME ButtonTick
      PROVE  UNCHANGED paired /\ tapLeft' \in Left /\ press' \in [Requests -> Press]
  <2>1. \A r \in Requests : [press[r] EXCEPT !.left = Elapsed(@)] \in Press
    BY <1>a, <1>b
  <2> QED
    BY <1>a, <1>b, <1>7, <2>1 DEF ButtonTick
<1>8. ASSUME AlertStep \/ UNCHANGED buttonVars PROVE UNCHANGED <<paired, tapLeft, press>>
  BY <1>8 DEF AlertStep, buttonVars
<1> QED
  BY <1>b, <1>1, <1>2, <1>3, <1>4, <1>5, <1>6, <1>7, <1>8 DEF ButtonNext

LEMMA SameTypes == Phone!TypeOK <=> TypeOK
BY SameOperators
DEF Phone!TypeOK, TypeOK, Phone!Row, Row, Phone!Thread, Thread, Phone!Seen, Seen, Phone!Pcs, Pcs,
    Phone!Jobs, Jobs, Phone!Statuses, Statuses, Phone!Resolutions, Resolutions,
    Phone!NoAlert, NoAlert

(* The invariants that the alerts have anyway, and what keeps them apart   *)
(* from the presses.                                                       *)
PhoneInv == ButtonTypeOK /\ Phone!TypeOK /\ Phone!MessagesInv /\ Phone!GuardInv /\ PressIsIdle

(* A handler in which no press waits may do what it likes; the others are  *)
(* left alone, by watchdogs too, because they are no alerts.               *)
LEMMA IdleStep == PhoneInv /\ [ButtonNext]_buttonVars => PressIsIdle'
<1> SUFFICES ASSUME PhoneInv, [ButtonNext]_buttonVars,
                    NEW r \in Requests, press'[r].pc \in {"record", "trigger", "find"}
             PROVE  thread'[r].pc = "idle"
  BY DEF PressIsIdle, At
<1> DEFINE Waiting(q) == press[q].pc \in {"record", "trigger", "find"}
<1>a. /\ PressIsIdle
      /\ r \in Threads /\ r \notin Alerts
      /\ thread \in [Threads -> Phone!Thread]
      /\ DOMAIN press = Requests
      /\ \A q \in Requests : At(q, "mark") => thread[q].alert \in Alerts
  BY ClientsAssumption, SameOperators
  DEF PhoneInv, ButtonTypeOK, Phone!TypeOK, Phone!GuardInv, Phone!WatchdogsKnowTheirAlert, Threads
<1>b. ASSUME Waiting(r), thread'[r] = thread[r] PROVE thread'[r].pc = "idle"
  BY <1>a, <1>b DEF PressIsIdle, At
<1>c. ASSUME NEW t, NEW l, Become(t, l), t # r PROVE thread'[r] = thread[r]
  BY <1>a, <1>c DEF Become
<1>1. ASSUME NEW q \in Requests, StartPress(q) PROVE thread'[r].pc = "idle"
  <2>1. thread' = thread /\ (q # r => press'[r] = press[r])
    BY <1>1 DEF StartPress, vars
  <2>2. At(q, "idle")
    BY <1>1 DEF StartPress
  <2> QED
    BY <1>b, <2>1, <2>2 DEF At
<1>2. ASSUME NEW q \in Requests, RecordPress(q) PROVE thread'[r].pc = "idle"
  <2>1. thread' = thread /\ (q # r => press'[r] = press[r]) /\ Pressing(q, "record")
    BY <1>2 DEF RecordPress, Move, vars
  <2> QED
    BY <1>b, <2>1 DEF Pressing
<1>3. ASSUME NEW q \in Requests,
             PressFails(q) \/ DoubleTapFindsNothing(q) \/ DoubleTapEnds(q)
      PROVE  thread'[r].pc = "idle"
  <2>1. thread' = thread /\ press' = [press EXCEPT ![q] = NoPress]
    BY <1>3 DEF PressFails, DoubleTapFindsNothing, DoubleTapEnds, Release, vars
  <2>2. Waiting(r)
    BY <1>a, <2>1 DEF NoPress
  <2> QED
    BY <1>b, <2>1, <2>2
<1>4. ASSUME NEW q \in Requests, PressTriggers(q) PROVE thread'[r].pc = "idle"
  <2>1. press' = [press EXCEPT ![q] = NoPress]
    BY <1>4 DEF PressTriggers, Release
  <2>2. q # r /\ Waiting(r)
    BY <1>a, <2>1 DEF NoPress
  <2> QED
    BY <1>4, <1>b, <1>c, <2>2 DEF PressTriggers
<1>5. ASSUME NEW q \in Requests, DoubleTap(q) PROVE thread'[r].pc = "idle"
  <2>1. press' = [press EXCEPT ![q].pc = "cancel"]
    BY <1>5 DEF DoubleTap, Move
  <2>2. q # r /\ Waiting(r)
    BY <1>a, <2>1
  <2> QED
    BY <1>5, <1>b, <1>c, <2>2 DEF DoubleTap
<1>6. CASE Register \/ Remove
  BY <1>6, <1>b DEF Register, Remove, vars
<1>7. CASE AlertStep
  <2>1. Waiting(r) /\ thread[r].pc = "idle"
    BY <1>7, <1>a DEF AlertStep, PressIsIdle, At
  <2>2. ASSUME NEW q \in Requests, Pressing(q, "none") /\ Call(q)
        PROVE  thread'[r] = thread[r]
    <3>1. q # r
      BY <2>1, <2>2 DEF Pressing
    <3> QED
      BY <1>c, <2>2, <3>1
      DEF Call, StartTrigger, StartPredict, StartSend, StartCancel, StartSafe
  <2>3. ASSUME NEW q \in Requests, Handle(q) PROVE thread'[r] = thread[r]
    <3>1. q # r
      BY <2>1, <2>3
      DEF Handle, CheckCooldown, FindCountdown, CancelStale, InsertAlert, MarkAndArm,
          CommitCancel, CommitSafe, EndNotify, SendAllClear, At
    <3>2. CASE MarkAndArm(q)
      BY <1>a, <3>1, <3>2 DEF MarkAndArm
    <3> QED
      BY <1>c, <2>3, <3>1, <3>2
      DEF Handle, CheckCooldown, FindCountdown, CancelStale, InsertAlert,
          CommitCancel, CommitSafe, EndNotify, SendAllClear
  <2>4. ASSUME NEW a \in Alerts, WakeWatchdog(a) PROVE thread'[r] = thread[r]
    BY <1>a, <1>c, <2>4 DEF WakeWatchdog
  <2>5. ASSUME NEW t \in Threads, Dispatch(t) \/ FailDispatch(t)
        PROVE  thread'[r] = thread[r]
    <3>1. t # r
      BY <2>1, <2>5 DEF Dispatch, CommitSent, SendSos, FailDispatch, At
    <3> QED
      BY <1>c, <2>5, <3>1 DEF Dispatch, CommitSent, SendSos, FailDispatch
  <2>6. ASSUME ExpireStale PROVE thread'[r] = thread[r]
    BY <2>6 DEF ExpireStale
  <2> QED
    BY <1>7, <2>1, <2>2, <2>3, <2>4, <2>5, <2>6 DEF AlertStep
<1>8. CASE ButtonRestart
  BY <1>8 DEF ButtonRestart, NoPress
<1>9. CASE ButtonTick
  <2>1. thread' = thread /\ press'[r] = [press[r] EXCEPT !.left = Elapsed(@)]
    BY <1>9 DEF ButtonTick, Tick
  <2> QED
    BY <1>b, <2>1
<1>10. CASE UNCHANGED buttonVars
  BY <1>10, <1>b DEF buttonVars, vars
<1> QED
  BY <1>1, <1>2, <1>3, <1>4, <1>5, <1>6, <1>7, <1>8, <1>9, <1>10 DEF ButtonNext

(* With the button the alerts go on as SosAlerts says, with two operations *)
(* more.                                                                   *)
LEMMA PhoneGoesOn == ButtonSpec => Phone!Spec /\ []PhoneInv
<1>1. ButtonInit => Phone!Init /\ PressIsIdle
  BY SameOperators
  DEF ButtonInit, Init, Phone!Init, NoRow, Phone!NoRow, PressIsIdle, NoPress
<1>0. ButtonInit /\ TypeOK => ButtonTypeOK
  BY ButtonAssumption DEF ButtonInit, ButtonTypeOK, NoPress
<1>2. Phone!Init => Phone!TypeOK /\ Phone!MessagesInv /\ Phone!GuardInv
  BY PhoneAssumptions, Phone!TypesInit, Phone!MessagesInit, Phone!GuardInit
<1>3. PhoneInv /\ [ButtonNext]_buttonVars
        => Phone!TypeOK' /\ Phone!MessagesInv' /\ Phone!GuardInv'
  <2> SUFFICES ASSUME PhoneInv, [ButtonNext]_buttonVars
               PROVE  Phone!TypeOK' /\ Phone!MessagesInv' /\ Phone!GuardInv'
    OBVIOUS
  <2>1. [Phone!Next]_(Phone!vars)
    BY PhoneStep DEF PhoneInv
  <2>2. Phone!TypeOK'
    BY <2>1, PhoneAssumptions, Phone!TypesStep DEF PhoneInv
  <2>3. Phone!MessagesInv'
    BY <2>1, PhoneAssumptions, Phone!MessagesStep DEF PhoneInv
  <2>4. Phone!WatchdogsKnowTheirAlert' /\ Phone!CountdownIsGuarded'
    BY <2>1, PhoneAssumptions, Phone!GuardStep DEF PhoneInv
  <2>5. Phone!GuardInv'
    BY <2>3, <2>4 DEF Phone!MessagesInv, Phone!GuardInv
  <2> QED
    BY <2>2, <2>3, <2>5
<1>4. PhoneInv /\ [ButtonNext]_buttonVars => [Phone!Next]_(Phone!vars)
  BY PhoneStep DEF PhoneInv
<1>5. ButtonInit /\ Phone!TypeOK => ButtonTypeOK
  BY <1>0, SameTypes
<1>6. ButtonTypeOK /\ Phone!TypeOK' /\ [ButtonNext]_buttonVars => ButtonTypeOK'
  <2>1. TypeOK' <=> Phone!TypeOK'
    BY SameTypes, PTL
  <2> QED
    BY <2>1, ButtonTypesStep
<1>7. PhoneInv <=> /\ ButtonTypeOK /\ Phone!TypeOK /\ Phone!MessagesInv
                   /\ Phone!GuardInv /\ PressIsIdle
  BY DEF PhoneInv
<1> QED
  BY <1>1, <1>2, <1>3, <1>4, <1>5, <1>6, <1>7, IdleStep, PTL DEF ButtonSpec, Phone!Spec

(* The button changes nothing about the alerts that a client of the API    *)
(* might not do by triggering and cancelling.                              *)
THEOREM ButtonIsAClient == ButtonSpec => Phone!Spec
BY PhoneGoesOn, PTL

(* Types: how much of a press still counts never leaves its window.        *)
THEOREM ButtonTypes == ButtonSpec => []ButtonTypeOK
<1>1. PhoneInv => ButtonTypeOK
  BY DEF PhoneInv
<1> QED
  BY <1>1, PhoneGoesOn, PTL

-----------------------------------------------------------------------------
(* What is proved of the alerts holds with the button.                     *)

LEMMA SameProperties ==
    /\ Phone!SentToldEveryone <=> SentToldEveryone
    /\ Phone!MarkedSafeWasSent <=> MarkedSafeWasSent
    /\ Phone!CountdownIsGuarded <=> CountdownIsGuarded
    /\ Phone!NoAllClearOutOfTheBlue <=> NoAllClearOutOfTheBlue
    /\ Phone!SoleCountdown <=> SoleCountdown
BY SameOperators
DEF Phone!SentToldEveryone, SentToldEveryone, Phone!MarkedSafeWasSent, MarkedSafeWasSent,
    Phone!CountdownIsGuarded, CountdownIsGuarded,
    Phone!NoAllClearOutOfTheBlue, NoAllClearOutOfTheBlue,
    Phone!SoleCountdown, SoleCountdown

(* With presses and double taps among the requests, an alert shown as sent *)
(* was sent to every contact, whoever was marked safe had been announced   *)
(* to all of them, a countdown has a thread that will see to it, and no    *)
(* contact hears "I am safe" of a silent alarm it was not sent.            *)
THEOREM ButtonKeepsPromises ==
    ButtonSpec => []( /\ SentToldEveryone
                      /\ MarkedSafeWasSent
                      /\ CountdownIsGuarded
                      /\ NoAllClearOutOfTheBlue )
<1>1. Phone!Spec => []Phone!SentToldEveryone
  BY PhoneAssumptions, Phone!SentIsTold
<1>2. Phone!Spec => []Phone!MarkedSafeWasSent
  BY PhoneAssumptions, Phone!MarkedSafeIsTold
<1>3. Phone!Spec => []Phone!CountdownIsGuarded
  BY PhoneAssumptions, Phone!CountdownGuarded
<1>4. Phone!Spec => []Phone!NoAllClearOutOfTheBlue
  BY PhoneAssumptions, Phone!AllClearFollowsSos
<1> QED
  BY <1>1, <1>2, <1>3, <1>4, SameProperties, ButtonIsAClient, PTL

(* A cancelled alert stays cancelled as soon as no dispatch of it is under *)
(* way, although a press may have read it before.                          *)
THEOREM ButtonKeepsCancelled == ButtonSpec => CancelledIsFinal
<1>1. Phone!Spec => Phone!CancelledIsFinal
  BY PhoneAssumptions, Phone!CancelledStays
<1>2. [\A a \in Phone!Alerts :
          row[a].status = "cancelled" /\ Phone!DispatchersOf(a) = {}
            => row'[a].status = "cancelled" /\ Phone!DispatchersOf(a)' = {}]_(Phone!vars)
        => [\A a \in Alerts :
               row[a].status = "cancelled" /\ DispatchersOf(a) = {}
                 => row'[a].status = "cancelled" /\ DispatchersOf(a)' = {}]_vars
  BY DEF Phone!DispatchersOf, DispatchersOf, Phone!At, At, Phone!Alerts, Alerts,
         Phone!Threads, Threads, Phone!vars, vars, Phone!cooldowns, cooldowns,
         Phone!messages, messages
<1> QED
  BY <1>1, <1>2, ButtonIsAClient, PTL DEF Phone!CancelledIsFinal, CancelledIsFinal

-----------------------------------------------------------------------------
(* Requests one at a time: a double tap ends what a press began.           *)

Lone == \A q, r \in Requests : q = r

(* With one handler, a press and a phone never race for the search of an   *)
(* alert in countdown: there is one at most, and it is the newest.         *)
LEMMA LonePhone ==
    ASSUME Lone
    PROVE  ButtonSpec => [](SoleCountdown /\ Phone!CountdownIsLatest)
<1>1. Phone!Lone
  BY DEF Lone, Phone!Lone
<1>2. Phone!Spec => []Phone!SoleCountdown
  BY <1>1, PhoneAssumptions, Phone!OneCountdown
<1>3. Phone!Spec => []Phone!CountdownIsLatest
  BY <1>1, PhoneAssumptions, Phone!LatestInCountdown
<1> QED
  BY <1>2, <1>3, SameProperties, ButtonIsAClient, PTL

(* The promise of trigger_sos, one countdown at a time, survives a button  *)
(* that knows nothing of the cooldowns, when requests come one by one.     *)
THEOREM ButtonOneCountdown ==
    ASSUME Lone
    PROVE  ButtonSpec => []SoleCountdown
BY LonePhone, PTL

\* A double tap that found an alert cancels the only one in countdown, if
\* there is one, and then there is none until it is answered.
TapInv ==
    \A r \in Requests : Pressing(r, "cancel") =>
        /\ thread[r].pc \in {"cancel", "notify", "idle"}
        /\ At(r, "cancel") =>
              /\ thread[r].alert \in Alerts
              /\ thread[r].seen.status \in {"countdown", "sent"}
              /\ \A b \in Alerts : InCountdown(b) => b = thread[r].alert
        /\ ~ At(r, "cancel") => \A b \in Alerts : ~ InCountdown(b)

LEMMA CountdownsEnd ==
    ASSUME TypeOK, NEW a, NEW seen, NEW resolution, NEW status \in {"sent", "cancelled"},
           Save(a, seen, status, resolution)
    PROVE  /\ \A b \in Alerts : InCountdown(b)' => InCountdown(b)
           /\ a \in Alerts /\ status # seen.status => ~ InCountdown(a)'
<1>1. ASSUME NEW b \in Alerts
      PROVE  row'[b].status = IF b = a /\ status # seen.status THEN status ELSE row[b].status
  <2>1. row[b] \in Row
    BY DEF TypeOK
  <2> QED
    BY <2>1 DEF Save, TypeOK, Row
<1> QED
  BY <1>1 DEF InCountdown

\* A step that leaves the handler of a double tap alone begins no countdown,
\* for only handlers insert alerts.
LEMMA TapStays ==
    ASSUME TapInv, NEW r \in Requests, Pressing(r, "cancel"), thread'[r] = thread[r],
           \A b \in Alerts : InCountdown(b)' => InCountdown(b),
           \A q \in Requests : q = r
    PROVE  TapInv'
BY DEF TapInv, Pressing, At

LEMMA TapStep ==
    ASSUME Lone
    PROVE  PhoneInv /\ TypeOK /\ Phone!CountdownIsLatest /\ TapInv /\ [ButtonNext]_buttonVars
             => TapInv'
<1> SUFFICES ASSUME PhoneInv, TypeOK, Phone!CountdownIsLatest, TapInv, [ButtonNext]_buttonVars,
                    NEW r \in Requests, press'[r].pc = "cancel"
             PROVE  TapInv'
  BY DEF TapInv, Pressing
<1>a. /\ r \in Threads /\ r \notin Alerts /\ thread[r] \in Thread
      /\ \A q \in Requests : q = r
      /\ DOMAIN press = Requests
      /\ \A q \in Requests :
            press[q] \in [pc : {"none", "record", "trigger", "find", "cancel"},
                          double : BOOLEAN, left : 0 .. TapWindow]
  BY ClientsAssumption DEF TypeOK, Threads, Lone, PhoneInv, ButtonTypeOK
<1>b. ASSUME NEW t, NEW l, Become(t, l) PROVE thread'[r] = IF t = r THEN l ELSE thread[r]
  BY <1>a, <1>b DEF Become, TypeOK
<1>1. ASSUME NEW q \in Requests,
             \/ StartPress(q) \/ RecordPress(q) \/ PressFails(q) \/ PressTriggers(q)
             \/ DoubleTapFindsNothing(q) \/ DoubleTapEnds(q)
      PROVE  FALSE
  <2>0. q = r
    BY <1>a
  <2>1. CASE StartPress(q)
    BY <1>a, <2>0, <2>1 DEF StartPress
  <2>2. CASE RecordPress(q)
    BY <1>a, <2>0, <2>2 DEF RecordPress, Move
  <2>3. CASE Release(q)
    BY <1>a, <2>0, <2>3 DEF Release, NoPress
  <2> QED
    BY <1>1, <2>1, <2>2, <2>3
    DEF PressFails, PressTriggers, DoubleTapFindsNothing, DoubleTapEnds
<1>2. ASSUME NEW q \in Requests, DoubleTap(q) PROVE TapInv'
  <2>1. PICK a \in Alerts :
          LatestOpen(a) /\ Become(q, Local("cancel", "cancel", a, {}, Loaded(a)))
    BY <1>2 DEF DoubleTap
  <2>2. /\ thread'[r].pc = "cancel"
        /\ thread'[r].alert = a
        /\ thread'[r].seen.status = row[a].status
    BY <1>a, <1>b, <2>1 DEF Local, Loaded
  <2>3. ASSUME NEW b \in Alerts, InCountdown(b) PROVE b = a
    <3>1. b <= a
      BY <2>1, <2>3 DEF LatestOpen, Open, InCountdown
    <3>2. a <= b
      BY <2>1, <2>3, SameOperators DEF Phone!CountdownIsLatest, LatestOpen, Open, Created
    <3> QED
      BY <3>1, <3>2, BoundsAssumption DEF Alerts
  <2>4. row' = row
    BY <1>2 DEF DoubleTap
  <2> QED
    BY <1>a, <2>1, <2>2, <2>3, <2>4 DEF TapInv, LatestOpen, Open, InCountdown, At
<1>3. ASSUME AlertStep \/ Register \/ Remove \/ ButtonTick \/ UNCHANGED buttonVars
      PROVE  Pressing(r, "cancel")
  <2>1. CASE ButtonTick
    BY <2>1, <1>a DEF ButtonTick, Pressing
  <2>2. CASE UNCHANGED press
    BY <2>2 DEF Pressing
  <2> QED
    BY <1>3, <2>1, <2>2 DEF AlertStep, Register, Remove, buttonVars
<1>4. CASE AlertStep
  <2>0. Pressing(r, "cancel") /\ thread[r].pc \in {"cancel", "notify", "idle"}
    BY <1>3, <1>4 DEF TapInv
  <2>1. ASSUME NEW q \in Requests, Pressing(q, "none") PROVE FALSE
    BY <1>a, <2>0, <2>1 DEF Pressing
  <2>2. ASSUME NEW q \in Requests, Handle(q) PROVE TapInv'
    <3>0. q = r
      BY <1>a
    <3>1. CASE CommitCancel(r)
      <4>1. /\ Save(thread[r].alert, thread[r].seen, "cancelled", "cancelled")
            /\ thread[r].alert \in Alerts
            /\ thread[r].seen.status # "cancelled"
            /\ \A b \in Alerts : InCountdown(b) => b = thread[r].alert
        BY <2>0, <3>1 DEF CommitCancel, TapInv
      <4>2. \A b \in Alerts : ~ InCountdown(b)'
        BY <4>1, CountdownsEnd
      <4>3. thread'[r].pc = "notify"
        BY <1>b, <3>1 DEF CommitCancel, Local
      <4> QED
        BY <1>a, <4>2, <4>3 DEF TapInv, At
    <3>2. CASE EndNotify(r) \/ \E c \in Contacts : SendAllClear(r, c)
      <4>1. At(r, "notify") /\ row' = row
        BY <3>2 DEF EndNotify, SendAllClear
      <4>2. \A b \in Alerts : ~ InCountdown(b)
        BY <2>0, <4>1 DEF TapInv, At
      <4>3. CASE EndNotify(r)
        <5>1. thread'[r].pc = "idle"
          BY <1>b, <4>3 DEF EndNotify, Idle, Local
        <5> QED
          BY <1>a, <4>1, <4>2, <5>1 DEF TapInv, InCountdown, At
      <4>4. ASSUME NEW c \in Contacts, SendAllClear(r, c) PROVE TapInv'
        <5>1. thread'[r].pc = "notify"
          BY <1>a, <1>b, <4>1, <4>4 DEF SendAllClear, At, Thread
        <5> QED
          BY <1>a, <4>1, <4>2, <5>1 DEF TapInv, InCountdown, At
      <4> QED
        BY <3>2, <4>3, <4>4
    <3> QED
      BY <2>0, <2>2, <3>0, <3>1, <3>2
      DEF Handle, CheckCooldown, FindCountdown, CancelStale, InsertAlert, MarkAndArm,
          CommitSafe, At
  <2>3. ASSUME NEW a \in Alerts, WakeWatchdog(a) PROVE TapInv'
    <3>1. thread'[r] = thread[r] /\ row' = row
      BY <1>a, <1>b, <2>3 DEF WakeWatchdog
    <3> QED
      BY <1>a, <2>0, <3>1, TapStays DEF InCountdown
  <2>4. ASSUME NEW t \in Threads, Dispatch(t) \/ FailDispatch(t) PROVE TapInv'
    <3>1. t # r
      BY <2>0, <2>4 DEF Dispatch, CommitSent, SendSos, FailDispatch, At
    <3>2. PICK l : Become(t, l)
      BY <2>4 DEF Dispatch, CommitSent, SendSos, FailDispatch
    <3>3. \A b \in Alerts : InCountdown(b)' => InCountdown(b)
      <4>1. CASE CommitSent(t)
        BY <4>1, CountdownsEnd DEF CommitSent
      <4>2. CASE row' = row
        BY <4>2 DEF InCountdown
      <4> QED
        BY <2>4, <4>1, <4>2 DEF Dispatch, SendSos, FailDispatch
    <3>4. thread'[r] = thread[r]
      BY <1>b, <3>1, <3>2
    <3> QED
      BY <1>a, <2>0, <3>3, <3>4, TapStays
  <2>5. CASE ExpireStale
    <3>1. thread' = thread /\ \A b \in Alerts : InCountdown(b)' => InCountdown(b)
      BY <2>5 DEF ExpireStale, InCountdown, TypeOK, Row
    <3> QED
      BY <1>a, <2>0, <3>1, TapStays
  <2> QED
    BY <1>4, <2>1, <2>2, <2>3, <2>4, <2>5 DEF AlertStep
<1>5. CASE Register \/ Remove \/ UNCHANGED buttonVars
  <2>1. thread' = thread /\ row' = row
    BY <1>5 DEF Register, Remove, buttonVars, vars
  <2> QED
    BY <1>3, <1>5, <1>a, <2>1, TapStays DEF InCountdown
<1>6. CASE ButtonRestart
  BY <1>6 DEF ButtonRestart, NoPress
<1>7. CASE ButtonTick
  <2>1. thread' = thread /\ \A b \in Alerts : InCountdown(b)' => InCountdown(b)
    BY <1>7 DEF ButtonTick, Tick, InCountdown, TypeOK, Row
  <2> QED
    BY <1>3, <1>7, <1>a, <2>1, TapStays
<1> QED
  BY <1>1, <1>2, <1>4, <1>5, <1>6, <1>7 DEF ButtonNext

(* When requests come one at a time, nothing is left in countdown when a   *)
(* double tap is answered, although it cancels one alert only and several  *)
(* may be open: the one it finds, the latest, is the one in countdown.  A  *)
(* dispatch that loaded the alert before goes on and is not spoken of.     *)
THEOREM DoubleTapDisarms ==
    ASSUME Lone
    PROVE  ButtonSpec => DoubleTapLeavesNoCountdown
<1> DEFINE Disarms(r) ==
              (Pressing(r, "cancel") \/ Pressing(r, "find"))
                /\ Pressing(r, "none")' /\ faults' = faults
                => \A a \in Alerts : ~ InCountdown(a)
<1>1. PhoneInv /\ TypeOK /\ TapInv /\ [ButtonNext]_buttonVars
        => [\A r \in Requests : Disarms(r)]_buttonVars
  <2> SUFFICES ASSUME PhoneInv, TypeOK, TapInv, ButtonNext, NEW r \in Requests,
                      press[r].pc \in {"cancel", "find"}, press'[r].pc = "none",
                      faults' = faults
               PROVE  \A a \in Alerts : ~ InCountdown(a)
    BY DEF Pressing
  <2>a. /\ DOMAIN press = Requests /\ \A q \in Requests : q = r
        /\ press[r] \in [pc : {"none", "record", "trigger", "find", "cancel"},
                         double : BOOLEAN, left : 0 .. TapWindow]
    BY DEF PhoneInv, ButtonTypeOK, Lone
  <2>1. ASSUME NEW q \in Requests, DoubleTapFindsNothing(q)
        PROVE  \A a \in Alerts : ~ InCountdown(a)
    BY <2>1 DEF DoubleTapFindsNothing, Open, InCountdown
  <2>2. ASSUME NEW q \in Requests, DoubleTapEnds(q)
        PROVE  \A a \in Alerts : ~ InCountdown(a)
    BY <2>2 DEF DoubleTapEnds, TapInv, At
  <2>3. ASSUME NEW q \in Requests,
               \/ StartPress(q) \/ RecordPress(q) \/ PressFails(q) \/ PressTriggers(q)
               \/ DoubleTap(q)
        PROVE  FALSE
    <3>1. q = r
      BY <2>a
    <3>2. CASE StartPress(q) \/ RecordPress(q) \/ PressFails(q) \/ PressTriggers(q)
      BY <3>1, <3>2 DEF StartPress, RecordPress, PressFails, PressTriggers, Pressing
    <3>3. CASE DoubleTap(q)
      BY <2>a, <3>1, <3>3 DEF DoubleTap, Move
    <3> QED
      BY <2>3, <3>2, <3>3
  <2>4. ASSUME AlertStep \/ Register \/ Remove PROVE FALSE
    BY <2>4 DEF AlertStep, Register, Remove
  <2>5. ASSUME ButtonRestart PROVE FALSE
    BY <2>5, BoundsAssumption DEF ButtonRestart, Restart, TypeOK
  <2>6. ASSUME ButtonTick PROVE FALSE
    BY <2>6, <2>a DEF ButtonTick
  <2> QED
    BY <2>1, <2>2, <2>3, <2>4, <2>5, <2>6 DEF ButtonNext
<1>2. ButtonInit => TapInv
  BY DEF ButtonInit, TapInv, Pressing, NoPress
<1>3. PhoneInv => TypeOK
  BY SameTypes DEF PhoneInv
<1> QED
  BY <1>1, <1>2, <1>3, TapStep, LonePhone, PhoneGoesOn, PTL
  DEF ButtonSpec, DoubleTapLeavesNoCountdown

(* A double tap that finds nothing overtook no press, when requests come   *)
(* one at a time: only two handlers make the violation of the ButtonRace   *)
(* run possible.                                                           *)
THEOREM NothingOvertaken ==
    ASSUME Lone
    PROVE  ButtonSpec => NothingFoundNothingComing
<1>1. PressIsIdle
        => [\A r \in Requests :
               Pressing(r, "find") /\ Pressing(r, "none")'
                 => \A q \in Requests :
                       ~ Pressing(q, "trigger")
                       /\ thread[q].pc \notin {"trigger", "find", "stale", "insert"}]_buttonVars
  BY DEF PressIsIdle, Pressing, At, Lone
<1>2. PhoneInv => PressIsIdle
  BY DEF PhoneInv
<1> QED
  BY <1>1, <1>2, PhoneGoesOn, PTL DEF NothingFoundNothingComing
=============================================================================
