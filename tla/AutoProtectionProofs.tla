------------------------- MODULE AutoProtectionProofs -------------------------
(***************************************************************************)
(* Whatever the cache says and however many handlers run, commits fail or  *)
(* the process restarts: the answers of AutoProtection agree with a column *)
(* that kept its value during the call.                                    *)
(***************************************************************************)
EXTENDS AutoProtection, TLAPS

\* What each handler under way knows of the column is compatible with what
\* the column is now.
SteadyIsCurrent ==
    \A r \in Requests : ~ At(r, "idle") =>
        steady[r] # OnOff(~ enabled)

AnswersInv ==
    /\ TypeOK
    /\ SteadyIsCurrent
    /\ DisarmedRaisesNothing
    /\ ArmedMissedOnlyUnread

LEMMA IdleTyped == Idle \in Local
  BY DEF Idle, Local, Pcs

LEMMA AnswersInit == Init => AnswersInv
<1> SUFFICES ASSUME Init PROVE AnswersInv
  OBVIOUS
<1>1. enabled \in BOOLEAN /\ cached \in BOOLEAN
  BY DEF Init
<1>2. call \in [Requests -> Local]
  BY IdleTyped DEF Init
<1>3. /\ verdict \in [Requests -> Verdicts]
      /\ steady \in [Requests -> {"on", "off", "mixed"}]
  BY DEF Init, Verdicts
<1>4. SteadyIsCurrent /\ DisarmedRaisesNothing /\ ArmedMissedOnlyUnread
  BY DEF Init, SteadyIsCurrent, DisarmedRaisesNothing, ArmedMissedOnlyUnread, At, Idle
<1> QED
  BY <1>1, <1>2, <1>3, <1>4 DEF AnswersInv, TypeOK

\* Going on and answering keep every handler's record a record.
LEMMA GoTyped ==
  ASSUME call \in [Requests -> Local], NEW r \in Requests, NEW p \in Pcs, Go(r, p)
  PROVE  call' \in [Requests -> Local]
  BY DEF Go, Local

LEMMA AnswerTyped ==
  ASSUME call \in [Requests -> Local], NEW r \in Requests, NEW v, Answer(r, v)
  PROVE  call' \in [Requests -> Local]
  BY IdleTyped DEF Answer

\* A call begins with what it sees of the column and without an answer.
LEMMA StartKeeps ==
  ASSUME AnswersInv, NEW r \in Requests, NEW op, NEW p \in Pcs, NEW value \in BOOLEAN,
         Start(r, op, p, value)
  PROVE  AnswersInv'
<1> USE DEF AnswersInv, TypeOK, Verdicts
<1> DEFINE begun == [pc |-> p, op |-> op, value |-> value, seen |-> enabled]
<1>1. begun \in Local
  BY DEF Start, Local
<1>2. call' = [call EXCEPT ![r] = begun] /\ UNCHANGED <<enabled, cached>>
  BY DEF Start
<1>3. call' \in [Requests -> Local]
  BY <1>1, <1>2
<1>4. /\ verdict' \in [Requests -> Verdicts]
      /\ steady' \in [Requests -> {"on", "off", "mixed"}]
  BY DEF Start, OnOff
<1>5. TypeOK'
  BY <1>2, <1>3, <1>4
<1>6. /\ \A q \in Requests : q # r =>
            /\ At(q, "idle")' = At(q, "idle")
            /\ verdict'[q] = verdict[q] /\ steady'[q] = steady[q]
      /\ verdict'[r] = "none" /\ steady'[r] = OnOff(enabled)
  BY DEF Start, At
<1>7. SteadyIsCurrent' /\ DisarmedRaisesNothing' /\ ArmedMissedOnlyUnread'
  BY <1>2, <1>6 DEF SteadyIsCurrent, DisarmedRaisesNothing, ArmedMissedOnlyUnread, OnOff
<1> QED
  BY <1>5, <1>7

\* A commit keeps the calls that saw another value apart from the others.
LEMMA WriteKeeps ==
  ASSUME AnswersInv, NEW r \in Requests, NEW value \in BOOLEAN, NEW seen \in BOOLEAN,
         Write(value, seen)
  PROVE  /\ enabled' \in BOOLEAN
         /\ steady' \in [Requests -> {"on", "off", "mixed"}]
         /\ \A q \in Requests : ~ At(q, "idle") => steady'[q] # OnOff(~ enabled')
         /\ \A q \in Requests : steady[q] = "mixed" => steady'[q] = "mixed"
         /\ \A q \in Requests : At(q, "idle") => steady'[q] = steady[q]
         /\ \A q \in Requests : steady'[q] \in {steady[q], "mixed"}
  BY DEF AnswersInv, TypeOK, SteadyIsCurrent, Write, At, OnOff

LEMMA AnswersStep == AnswersInv /\ [Next]_vars => AnswersInv'
<1> SUFFICES ASSUME AnswersInv, [Next]_vars PROVE AnswersInv'
  OBVIOUS
<1> USE DEF AnswersInv, TypeOK, SteadyIsCurrent, DisarmedRaisesNothing,
            ArmedMissedOnlyUnread, At, Idle, Verdicts
<1>1. ASSUME NEW r \in Requests, NEW value \in BOOLEAN,
             StartToggle(r, value) \/ StartUpdate(r, value)
      PROVE  AnswersInv'
  BY <1>1, StartKeeps DEF StartToggle, StartUpdate, Pcs
<1>2. ASSUME NEW r \in Requests, StartStatus(r) \/ StartPredict(r)
      PROVE  AnswersInv'
  BY <1>2, StartKeeps DEF StartStatus, StartPredict, Pcs
<1>3. ASSUME NEW r \in Requests, CommitToggle(r) \/ CommitUpdate(r)
      PROVE  AnswersInv'
  <2>1. call[r].value \in BOOLEAN /\ call[r].seen \in BOOLEAN
    BY DEF Local
  <2>2. Write(call[r].value, call[r].seen)
    BY <1>3 DEF CommitToggle, CommitUpdate
  <2>3. call' \in [Requests -> Local]
    BY <1>3, GoTyped, AnswerTyped DEF CommitToggle, CommitUpdate, Pcs
  <2>4. /\ cached' = cached
        /\ verdict' \in [Requests -> Verdicts]
    BY <1>3 DEF CommitToggle, CommitUpdate, Answer
  <2>5. TypeOK'
    BY <2>1, <2>2, <2>3, <2>4, WriteKeeps
  <2>6. SteadyIsCurrent'
    BY <1>3, <2>1, <2>2, WriteKeeps
    DEF CommitToggle, CommitUpdate, Go, Answer, OnOff
  <2>7. DisarmedRaisesNothing' /\ ArmedMissedOnlyUnread'
    BY <1>3, <2>1, <2>2, WriteKeeps DEF CommitToggle, CommitUpdate, Go, Answer
  <2> QED
    BY <2>5, <2>6, <2>7
<1>4. ASSUME NEW r \in Requests,
             \/ FailToggle(r) \/ CacheToggle(r) \/ CacheUpdate(r) \/ FailUpdate(r)
             \/ FailRead(r) \/ FailFresh(r)
      PROVE  AnswersInv'
  <2>1. call' \in [Requests -> Local]
    BY <1>4, GoTyped, AnswerTyped
    DEF FailToggle, CacheToggle, CacheUpdate, FailUpdate, FailRead, FailFresh, Pcs
  <2>2. cached' \in BOOLEAN
    BY <1>4 DEF FailToggle, CacheToggle, CacheUpdate, FailUpdate, FailRead, FailFresh, Local
  <2>3. /\ verdict' \in [Requests -> Verdicts]
        /\ \A q \in Requests : verdict'[q] \in {verdict[q], "none", "unread"}
        /\ UNCHANGED <<enabled, steady>>
    BY <1>4 DEF FailToggle, CacheToggle, CacheUpdate, FailUpdate, FailRead, FailFresh, Go, Answer
  <2>4. \A q \in Requests : At(q, "idle") => At(q, "idle")'
    BY <1>4 DEF FailToggle, CacheToggle, CacheUpdate, FailUpdate, FailRead, FailFresh, Go, Answer
  <2> QED
    BY <2>1, <2>2, <2>3, <2>4 DEF OnOff
<1>5. ASSUME NEW r \in Requests, CheckCache(r) \/ FillCache(r)
      PROVE  AnswersInv'
  <2>1. call' \in [Requests -> Local]
    BY <1>5, GoTyped, AnswerTyped DEF CheckCache, FillCache, FoundActive, Pcs
  <2>2. cached' \in BOOLEAN
    BY <1>5 DEF CheckCache, FillCache
  <2>3. /\ verdict' \in [Requests -> Verdicts]
        /\ \A q \in Requests : verdict'[q] \in {verdict[q], "active"}
        /\ UNCHANGED <<enabled, steady>>
    BY <1>5 DEF CheckCache, FillCache, FoundActive, Go, Answer
  <2>4. \A q \in Requests : At(q, "idle") => At(q, "idle")'
    BY <1>5 DEF CheckCache, FillCache, FoundActive, Go, Answer
  <2> QED
    BY <2>1, <2>2, <2>3, <2>4 DEF OnOff
<1>6. ASSUME NEW r \in Requests, ReadSettings(r) \/ FreshCheck(r)
      PROVE  AnswersInv'
  <2>1. call' \in [Requests -> Local]
    BY <1>6, GoTyped, AnswerTyped DEF ReadSettings, FreshCheck, Pcs
  <2>2. /\ verdict' \in [Requests -> Verdicts]
        /\ UNCHANGED <<enabled, cached, steady>>
    BY <1>6 DEF ReadSettings, FreshCheck, Go, Answer
  <2>3. \A q \in Requests : At(q, "idle") => At(q, "idle")'
    BY <1>6 DEF ReadSettings, FreshCheck, Go, Answer
  <2>4. \A q \in Requests :
           \/ verdict'[q] = verdict[q]
           \/ q = r /\ enabled /\ verdict'[q] = "raised"
           \/ q = r /\ ~ enabled /\ verdict'[q] \in {"inactive", "suppressed"}
    BY <1>6 DEF ReadSettings, FreshCheck, Go, Answer
  <2>5. ~ At(r, "idle")
    BY <1>6 DEF ReadSettings, FreshCheck
  <2> QED
    BY <2>1, <2>2, <2>3, <2>4, <2>5 DEF OnOff
<1>7. ASSUME Restart PROVE AnswersInv'
  <2>1. call' \in [Requests -> Local]
    BY <1>7, IdleTyped DEF Restart
  <2>2. /\ cached' \in BOOLEAN
        /\ verdict' = [q \in Requests |-> "none"]
        /\ UNCHANGED <<enabled, steady>>
        /\ \A q \in Requests : At(q, "idle")'
    BY <1>7 DEF Restart
  <2> QED
    BY <2>1, <2>2
<1>8. ASSUME UNCHANGED vars PROVE AnswersInv'
  BY <1>8 DEF vars, OnOff
<1> QED
  BY <1>1, <1>2, <1>3, <1>4, <1>5, <1>6, <1>7, <1>8 DEF Next

THEOREM Answers == Spec => []AnswersInv
<1>1. Init => AnswersInv
  BY AnswersInit
<1>2. AnswersInv /\ [Next]_vars => AnswersInv'
  BY AnswersStep
<1> QED
  BY <1>1, <1>2, PTL DEF Spec

\* A prediction that runs while the user is disarmed all along raises no alert
\* (the second look at the settings in predict_from_window and
\* analyze_sensor_data), whatever the cache was left at.
THEOREM NoAlarmWhenDisarmed == Spec => []DisarmedRaisesNothing
<1>1. AnswersInv => DisarmedRaisesNothing
  BY DEF AnswersInv
<1> QED
  BY <1>1, Answers, PTL

\* An armed user is missed only by a handler that could not read the database
\* (the fallback of _is_protection_active), whatever the cache was left at.
THEOREM NoMissWhenRead == Spec => []ArmedMissedOnlyUnread
<1>1. AnswersInv => ArmedMissedOnlyUnread
  BY DEF AnswersInv
<1> QED
  BY <1>1, Answers, PTL
=============================================================================
