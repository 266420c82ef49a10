----------------------------- MODULE DeviceButton -----------------------------
(***************************************************************************)
(* The wearable button (src/app/routes/device.py) together with the alerts *)
(* of SosAlerts: a press triggers an alert, a second press within the      *)
(* double-tap window cancels the latest open one.  What tells the two      *)
(* apart is the column last_button_press_at, read in one step of the       *)
(* handler and written in the next.                                        *)
(***************************************************************************)
EXTENDS SosAlerts

CONSTANTS
    TapWindow,   \* IOT_DOUBLE_TAP_WINDOW_SECONDS
    Pairing      \* whether the device is registered and removed in this instance

ASSUME ButtonAssumption == TapWindow \in Nat \ {0} /\ Pairing \in BOOLEAN

VARIABLES
    paired,    \* whether the user has the device in connected_devices
    tapLeft,   \* how long a press will still count as the second of two
    press      \* handlers of button events: where they are and what they hold

buttonVars == <<vars, paired, tapLeft, press>>

NoPress == [pc |-> "none", double |-> FALSE, left |-> 0]

ButtonTypeOK ==
    /\ TypeOK
    /\ paired \in BOOLEAN
    /\ tapLeft \in 0 .. TapWindow
    /\ press \in [Requests -> [pc : {"none", "record", "trigger", "find", "cancel"},
                               double : BOOLEAN, left : 0 .. TapWindow]]

ButtonInit ==
    /\ Init
    /\ paired = ~ Pairing
    /\ tapLeft = 0
    /\ press = [r \in Requests |-> NoPress]

Pressing(r, p) == press[r].pc = p
Move(r, p) == press' = [press EXCEPT ![r].pc = p]
Release(r) == press' = [press EXCEPT ![r] = NoPress]

-----------------------------------------------------------------------------
(* POST /device/button-event                                               *)

\* The device is read and the press is compared with the one before.
StartPress(r) ==
    /\ At(r, "idle") /\ Pressing(r, "none") /\ paired
    /\ press' = [press EXCEPT ![r] = [pc |-> "record", double |-> tapLeft > 0,
                                      left |-> TapWindow]]
    /\ UNCHANGED <<vars, paired, tapLeft>>

\* The commit of last_button_press_at, as of the start of the handler.
RecordPress(r) ==
    /\ Pressing(r, "record") /\ paired
    /\ tapLeft' = press[r].left
    /\ Move(r, IF press[r].double THEN "find" ELSE "trigger")
    /\ UNCHANGED <<vars, paired>>

\* The device was removed meanwhile: the UPDATE finds no row.
PressFails(r) ==
    /\ Pressing(r, "record") /\ ~ paired
    /\ Release(r)
    /\ UNCHANGED <<vars, paired, tapLeft>>

\* A single press goes on as a trigger of kind iot_button, given a contact.
PressTriggers(r) ==
    /\ Pressing(r, "trigger") /\ Contacts # {}
    /\ Become(r, Triggering("trigger", "iot_button"))
    /\ Release(r)
    /\ UNCHANGED <<row, cooldowns, sleep, messages, faults, paired, tapLeft>>

LatestOpen(a) == Open(a) /\ \A b \in Alerts : Open(b) => b <= a

\* Mutant: the query without its ORDER BY ... DESC.
DoubleTapOldest(r) ==
    /\ Pressing(r, "find")
    /\ \E a \in Alerts :
         /\ Open(a) /\ \A b \in Alerts : Open(b) => a <= b
         /\ Become(r, Local("cancel", "cancel", a, {}, Loaded(a)))
    /\ Move(r, "cancel")
    /\ UNCHANGED <<row, cooldowns, sleep, messages, faults, paired, tapLeft>>

\* A double tap goes on as a cancel of the latest open alert.
DoubleTap(r) ==
    /\ Pressing(r, "find")
    /\ \E a \in Alerts :
         /\ LatestOpen(a)
         /\ Become(r, Local("cancel", "cancel", a, {}, Loaded(a)))
    /\ Move(r, "cancel")
    /\ UNCHANGED <<row, cooldowns, sleep, messages, faults, paired, tapLeft>>

DoubleTapFindsNothing(r) ==
    /\ Pressing(r, "find")
    /\ \A a \in Alerts : ~ Open(a)
    /\ Release(r)
    /\ UNCHANGED <<vars, paired, tapLeft>>

\* The cancel is over and the event is answered.
DoubleTapEnds(r) ==
    /\ Pressing(r, "cancel") /\ At(r, "idle")
    /\ Release(r)
    /\ UNCHANGED <<vars, paired, tapLeft>>

\* POST /device/register (again, or by its user) and DELETE /device/{id}.
Register ==
    /\ Pairing
    /\ paired' = TRUE
    /\ tapLeft' = 0
    /\ UNCHANGED <<vars, press>>

Remove ==
    /\ Pairing /\ paired
    /\ paired' = FALSE
    /\ tapLeft' = 0
    /\ UNCHANGED <<vars, press>>

-----------------------------------------------------------------------------
(* The alerts go on underneath                                             *)

AlertStep ==
    /\ \/ \E r \in Requests : Handle(r) \/ (Pressing(r, "none") /\ Call(r))
       \/ \E a \in Alerts : WakeWatchdog(a)
       \/ \E t \in Threads : Dispatch(t) \/ FailDispatch(t)
       \/ ExpireStale
    /\ UNCHANGED <<paired, tapLeft, press>>

ButtonRestart ==
    /\ Restart
    /\ press' = [r \in Requests |-> NoPress]
    /\ UNCHANGED <<paired, tapLeft>>

ButtonTick ==
    /\ Tick
    /\ tapLeft' = Elapsed(tapLeft)
    /\ press' = [r \in Requests |-> [press[r] EXCEPT !.left = Elapsed(@)]]
    /\ UNCHANGED paired

ButtonNext ==
    \/ \E r \in Requests :
         \/ StartPress(r) \/ RecordPress(r) \/ PressFails(r) \/ PressTriggers(r)
         \/ DoubleTap(r) \/ DoubleTapFindsNothing(r) \/ DoubleTapEnds(r)
    \/ Register \/ Remove
    \/ AlertStep
    \/ ButtonRestart
    \/ ButtonTick

ButtonSpec == ButtonInit /\ [][ButtonNext]_buttonVars

-----------------------------------------------------------------------------
(* Properties                                                              *)

\* When a double tap is answered no alert is left in countdown: the one it found
\* was the latest open, although an older one may be open as well.  It holds back
\* no dispatch that had loaded the alert before: that one goes on telling contacts
\* and commits "sent" over the cancel.
DoubleTapLeavesNoCountdown ==
    [][\A r \in Requests :
          (Pressing(r, "cancel") \/ Pressing(r, "find"))
            /\ Pressing(r, "none")' /\ faults' = faults
            => \A a \in Alerts : ~ InCountdown(a)]_buttonVars

\* "Two button-press events received within this many seconds = cancel SOS":
\* when a double tap finds nothing to cancel, no earlier press is still about
\* to create its alert.
NothingFoundNothingComing ==
    [][\A r \in Requests :
          Pressing(r, "find") /\ Pressing(r, "none")'
            => \A q \in Requests :
                  ~ Pressing(q, "trigger")
                  /\ thread[q].pc \notin {"trigger", "find", "stale", "insert"}]_buttonVars
=============================================================================
