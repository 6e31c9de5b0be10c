------------------------ MODULE WatchSchedulerProofs ------------------------
(***************************************************************************)
(* Proofs about WatchScheduler, for every choice of the intervals, the     *)
(* retry budget, the hint limit and the drain limit.                       *)
(***************************************************************************)
EXTENDS WatchScheduler, SequenceTheorems, TLAPS

-----------------------------------------------------------------------------
(* The inductive invariant.                                                *)

(* The scheduler's own state: a spent retry budget is marked as exhausted, *)
(* exhaustion ends before work becomes pending, and an active attempt has  *)
(* neither a successor pending nor a retry scheduled.                      *)
Coherent(s) ==
    /\ ~s.exhausted => s.attempts <= MaxRetries
    /\ s.pending # None => ~s.exhausted
    /\ s.active => ~s.exhausted /\ s.pending = None /\ s.retry = Off

Attempting == pc \in {"reconciling", "finishing", "completing"}

Between == pc \in {"turn", "draining", "deciding", "waiting"}

(* Where the runner is determines what the scheduler records.              *)
InStep ==
    /\ Coherent(sched)
    /\ pc # "exited" => ~sched.cancelled
    /\ pc \in {"finishing", "completing"} => idle = 0

(* Between attempts the deadlines measure the time since the last one: a   *)
(* deadline that has not passed and the idle time make up its interval.    *)
Clocks ==
    Between =>
        /\ sourcePoll + idle >= PollInterval
        /\ sourcePoll > 0 => sourcePoll + idle = PollInterval
        /\ sched.retry # Off => sched.retry + idle >= RetryDelay
        /\ sched.retry > 0 => sched.retry + idle = RetryDelay

(* A wait ends at the source poll or at the retry, whichever it is for.    *)
WaitIsBounded ==
    (pc = "waiting" /\ wake > 0) => wake <= sourcePoll \/ wake <= sched.retry

(* After a failure and without an event, a retry is scheduled or the       *)
(* budget is exhausted.                                                    *)
FailureIsPaced ==
    (Between /\ result = "Retryable" /\ ~provoked) =>
        sched.pending = None /\ (sched.exhausted \/ sched.retry # Off)

WatchInv ==
    /\ WatchTypeOK
    /\ RunnerSurvives
    /\ ObservationsRemembered
    /\ BoundedIdleness
    /\ InStep
    /\ Clocks
    /\ WaitIsBounded
    /\ FailureIsPaced

-----------------------------------------------------------------------------
(* The operations of the scheduler.                                        *)

(* The values the scheduler stores in its deadlines and counters lie in    *)
(* their ranges, and Off is none of the deadlines.                         *)
LEMMA Ranges ==
    /\ Off \in Off .. Debounce /\ Debounce \in Off .. Debounce
    /\ Off \in Off .. RetryDelay /\ RetryDelay \in Off .. RetryDelay
    /\ Periodic \in 0 .. Periodic /\ 0 \in 0 .. MaxRetries + 1
    /\ Off # RetryDelay /\ Off # Debounce /\ 0 <= MaxRetries /\ Off < 0
    /\ None \notin Reasons
    /\ \A n \in 0 .. MaxRetries + 1 : n <= MaxRetries => n + 1 \in 0 .. MaxRetries + 1
  BY WatchAssumption DEF Off, Reasons

(* An observation is put on record, as full or as debounced work; it       *)
(* neither starts nor ends an attempt and moves no deadline but its own.   *)
LEMMA ObserveFacts ==
    ASSUME NEW s \in Schedule, NEW full \in BOOLEAN, Coherent(s)
    PROVE  /\ Observe(s, full) \in Schedule
           /\ Coherent(Observe(s, full))
           /\ ~s.cancelled => Observe(s, full).full \/ Observe(s, full).dirty # Off
           /\ Observe(s, full).active = s.active
           /\ Observe(s, full).cancelled = s.cancelled
           /\ Observe(s, full).periodic = s.periodic
           /\ Observe(s, full).retry \in {s.retry, Off}
           /\ (full /\ ~s.cancelled /\ ~s.active) => Observe(s, full).pending # None
<1> DEFINE r == Renewed(s)
           n == Noted(s, full)
<1>1. /\ r \in Schedule
      /\ Coherent(r)
      /\ ~r.exhausted
      /\ r.pending = s.pending /\ r.active = s.active /\ r.full = s.full
      /\ r.dirty = s.dirty /\ r.retry = s.retry /\ r.periodic = s.periodic
      /\ r.cancelled = s.cancelled
  BY Ranges DEF Renewed, Schedule, Coherent
<1>2. /\ n \in Schedule
      /\ Coherent(n)
      /\ ~n.exhausted
      /\ n.pending = s.pending /\ n.active = s.active /\ n.periodic = s.periodic
      /\ n.cancelled = s.cancelled
      /\ n.retry \in {s.retry, Off}
      /\ full => n.full
      /\ n.full \/ n.dirty # Off
  <2> HIDE DEF r
  <2>1. CASE full
    <3>1. n = [r EXCEPT !.full = TRUE, !.retry = Off]
      BY <2>1 DEF Noted, r
    <3> QED BY <1>1, <3>1, Ranges DEF Schedule, Coherent
  <2>2. CASE ~full
    <3>1. n = [r EXCEPT !.dirty = Debounce]
      BY <2>2 DEF Noted, r
    <3> QED BY <1>1, <2>2, <3>1, Ranges DEF Schedule, Coherent
  <2> QED BY <2>1, <2>2
<1> HIDE DEF r, n
<1>3. CASE s.cancelled
  BY <1>3 DEF Observe
<1>4. CASE ~s.cancelled /\ n.full /\ ~n.active /\ n.pending = None
  <2>1. Observe(s, full) = [n EXCEPT !.pending = "Full"]
    BY <1>4 DEF Observe, n
  <2> QED BY <1>2, <1>4, <2>1, Ranges DEF Schedule, Coherent, Reasons
<1>5. CASE ~s.cancelled /\ ~(n.full /\ ~n.active /\ n.pending = None)
  <2>1. Observe(s, full) = n
    BY <1>5 DEF Observe, n
  <2> QED BY <1>2, <1>5, <2>1
<1> QED BY <1>3, <1>4, <1>5

(* A poll makes work pending exactly when some is due.                     *)
LEMMA PollFacts ==
    ASSUME NEW s \in Schedule, Coherent(s)
    PROVE  /\ Poll(s) \in Schedule
           /\ Coherent(Poll(s))
           /\ Poll(s).active = s.active
           /\ Poll(s).cancelled = s.cancelled
           /\ Poll(s).periodic = s.periodic
           /\ Poll(s).retry = s.retry
           /\ Poll(s).full = s.full
           /\ Poll(s).dirty = s.dirty
           /\ s.pending # None => Poll(s) = s
           /\ Poll(s).pending = None => Poll(s) = s
           /\ (Poll(s).pending = None /\ ~s.cancelled /\ ~s.active) => Due(s) = None
           /\ (Poll(s).pending # None /\ s.pending = None) => Due(s) # None
<1>1. Due(s) \in Reasons \cup {None}
  BY DEF Due, Reasons
<1>2. CASE s.cancelled \/ s.pending # None \/ s.active \/ Due(s) = None
  <2>1. Poll(s) = s
    BY <1>2 DEF Poll
  <2> QED BY <1>2, <2>1
<1>3. CASE ~(s.cancelled \/ s.pending # None \/ s.active \/ Due(s) = None)
  <2> DEFINE d == Due(s)
  <2>1. Poll(s) = [Renewed(s) EXCEPT !.pending = d]
    BY <1>3 DEF Poll
  <2>2. d \in Reasons \cup {None} /\ d # None
    BY <1>1, <1>3
  <2> HIDE DEF d
  <2>3. CASE s.exhausted
    <3>1. Poll(s) = [s EXCEPT !.exhausted = FALSE, !.attempts = 0, !.pending = d]
      BY <2>1, <2>3 DEF Renewed, Schedule
    <3> QED BY <1>3, <2>2, <3>1, Ranges DEF Schedule, Coherent, d
  <2>4. CASE ~s.exhausted
    <3>1. Poll(s) = [s EXCEPT !.pending = d]
      BY <2>1, <2>4 DEF Renewed
    <3> QED BY <1>3, <2>2, <2>4, <3>1, Ranges DEF Schedule, Coherent, d
  <2> QED BY <2>3, <2>4
<1> QED BY <1>2, <1>3

(* An attempt begins with a clean record.                                  *)
LEMMA BeginFacts ==
    ASSUME NEW s \in Schedule, Coherent(s), s.pending # None
    PROVE  /\ BeginPending(s) \in Schedule
           /\ Coherent(BeginPending(s))
           /\ BeginPending(s).active
           /\ BeginPending(s).cancelled = s.cancelled
  BY Ranges DEF BeginPending, Schedule, Coherent

(* An attempt's end keeps what was observed while it ran, and a failure    *)
(* schedules a retry or exhausts the budget.                               *)
LEMMA CompletionFacts ==
    ASSUME NEW s \in Schedule, Coherent(s), s.active
    PROVE  /\ CompleteSuccess(s) \in Schedule /\ CompleteFailure(s) \in Schedule
           /\ Coherent(CompleteSuccess(s)) /\ Coherent(CompleteFailure(s))
           /\ ~CompleteSuccess(s).active /\ ~CompleteFailure(s).active
           /\ CompleteSuccess(s).cancelled = s.cancelled
           /\ CompleteFailure(s).cancelled = s.cancelled
           /\ CompleteSuccess(s).dirty = s.dirty /\ CompleteFailure(s).dirty = s.dirty
           /\ CompleteSuccess(s).full = s.full /\ (s.full => CompleteFailure(s).full)
           /\ CompleteSuccess(s).retry = Off
           /\ CompleteFailure(s).retry \in {Off, RetryDelay}
           /\ CompleteFailure(s).pending = None
           /\ CompleteFailure(s).exhausted \/ CompleteFailure(s).retry # Off
<1>1. /\ CompleteSuccess(s) \in Schedule
      /\ Coherent(CompleteSuccess(s))
      /\ ~CompleteSuccess(s).active
      /\ CompleteSuccess(s).cancelled = s.cancelled
      /\ CompleteSuccess(s).dirty = s.dirty
      /\ CompleteSuccess(s).full = s.full
      /\ CompleteSuccess(s).retry = Off
  BY Ranges DEF CompleteSuccess, Schedule, Coherent
<1>2. /\ s.attempts \in 0 .. MaxRetries + 1
      /\ s.attempts <= MaxRetries
      /\ s.attempts + 1 \in 0 .. MaxRetries + 1
      /\ s.pending = None
  BY Ranges DEF Schedule, Coherent
<1> DEFINE n == s.attempts + 1
           f == CompleteFailure(s)
<1>3. CASE n > MaxRetries
  <2>1. f = [s EXCEPT !.active = FALSE, !.attempts = n, !.retry = Off, !.exhausted = TRUE,
                      !.full = TRUE]
    BY <1>3 DEF CompleteFailure
  <2>2. n \in 0 .. MaxRetries + 1
    BY <1>2
  <2> HIDE DEF n, f
  <2>3. /\ f \in Schedule /\ Coherent(f) /\ ~f.active /\ f.cancelled = s.cancelled
        /\ f.dirty = s.dirty /\ f.full /\ f.retry = Off /\ f.pending = None /\ f.exhausted
    BY <1>2, <2>1, <2>2, Ranges DEF Schedule, Coherent
  <2> QED BY <1>1, <2>3 DEF f
<1>4. CASE ~(n > MaxRetries)
  <2>1. f = [s EXCEPT !.active = FALSE, !.attempts = n, !.retry = RetryDelay]
    BY <1>4 DEF CompleteFailure
  <2>2. n \in 0 .. MaxRetries + 1 /\ n <= MaxRetries
    BY <1>2, <1>4, WatchAssumption
  <2> HIDE DEF n, f
  <2>3. /\ f \in Schedule /\ Coherent(f) /\ ~f.active /\ f.cancelled = s.cancelled
        /\ f.dirty = s.dirty /\ f.full = s.full /\ f.retry = RetryDelay /\ f.pending = None
    BY <1>2, <2>1, <2>2, Ranges DEF Schedule, Coherent
  <2> QED BY <1>1, <2>3, Ranges DEF f
<1> QED BY <1>3, <1>4

(* Cancellation clears the record and leaves an active attempt active.     *)
LEMMA CancelFacts ==
    ASSUME NEW s \in Schedule, Coherent(s)
    PROVE  /\ Cancel(s) \in Schedule
           /\ Coherent(Cancel(s))
           /\ Cancel(s).active = s.active
  BY Ranges DEF Cancel, Schedule, Coherent

(* The accumulator stays an accumulator when it records an observation.    *)
LEMMA HintFacts ==
    ASSUME NEW h \in Hints, NEW o \in Observation
    PROVE  RecordHint(h, o) \in Hints
  BY DEF RecordHint, Hints, Observation

(* A scheduler with nothing due waits, and for a positive time: until its  *)
(* retry, or until the source poll at the latest.                          *)
LEMMA WaitFacts ==
    ASSUME NEW s \in Schedule, ~s.cancelled, ~s.active, s.pending = None, Due(s) = None,
           NEW p \in 0 .. PollInterval, SourcePollAdmissible(s) => p > 0
    PROVE  /\ Decision(s) \in {"Debouncing", "WaitingPeriodic", "WaitingRetry", "RetryExhausted"}
           /\ WaitFor(s, p) \in Nat
           /\ WaitFor(s, p) > 0
           /\ WaitFor(s, p) <= p \/ WaitFor(s, p) <= s.retry
<1>0. None # "Retry" /\ None # "Full" /\ None # "Periodic" /\ None # "Dirty"
  BY WatchAssumption
<1>1. /\ s.retry \in Int /\ s.retry >= Off /\ s.dirty \in Int /\ s.dirty >= Off
      /\ s.periodic \in Nat /\ p \in Nat /\ Off = -1
  BY WatchAssumption DEF Schedule, Off
<1>2. CASE s.exhausted
  <2>1. Decision(s) = "RetryExhausted"
    BY <1>2 DEF Decision
  <2>2. p > 0
    BY <2>1 DEF SourcePollAdmissible
  <2>3. WaitFor(s, p) = p
    BY <2>1 DEF WaitFor
  <2> QED BY <1>1, <2>1, <2>2, <2>3
<1>3. CASE ~s.exhausted /\ s.retry # Off
  <2>1. Decision(s) = "WaitingRetry"
    BY <1>3 DEF Decision
  <2>2. s.retry > 0
    BY <1>0, <1>1, <1>3 DEF Due
  <2>3. WaitFor(s, p) = s.retry
    BY <2>1 DEF WaitFor
  <2> QED BY <1>1, <2>1, <2>2, <2>3
<1>4. CASE ~s.exhausted /\ s.retry = Off /\ s.dirty # Off
  <2>1. Decision(s) = "Debouncing"
    BY <1>4 DEF Decision
  <2>2. p > 0
    BY <2>1 DEF SourcePollAdmissible
  <2>3. s.dirty > 0
    BY <1>0, <1>1, <1>4 DEF Due
  <2>4. WaitFor(s, p) = Earliest(s.dirty, p)
    BY <2>1 DEF WaitFor
  <2> QED BY <1>1, <2>1, <2>2, <2>3, <2>4 DEF Earliest
<1>5. CASE ~s.exhausted /\ s.retry = Off /\ s.dirty = Off
  <2>1. Decision(s) = "WaitingPeriodic"
    BY <1>5 DEF Decision
  <2>2. p > 0
    BY <2>1 DEF SourcePollAdmissible
  <2>3. s.periodic > 0
    BY <1>0, <1>1, <1>5 DEF Due
  <2>4. WaitFor(s, p) = Earliest(s.periodic, p)
    BY <2>1 DEF WaitFor
  <2> QED BY <1>1, <2>1, <2>2, <2>3, <2>4 DEF Earliest
<1> QED BY <1>2, <1>3, <1>4, <1>5

(* The decision of a turn: an attempt begins from a coherent scheduler     *)
(* with work pending, or the runner waits and nothing else changes.        *)
Begins(s) ==
    /\ Coherent(s) /\ s.pending # None /\ ~s.cancelled
    /\ sched' = BeginPending(s)
    /\ pc' = "reconciling"
    /\ wake' = 0
    /\ hints' = NoHints
    /\ sourcePoll' \in 0 .. PollInterval
    /\ provoked' = FALSE
    /\ (result = "Retryable" /\ ~provoked) =>
          idle >= RetryDelay \/ idle >= PollInterval \/ sched.periodic = 0

Waits ==
    /\ pc' = "waiting"
    /\ wake' \in Nat /\ wake' > 0
    /\ wake' <= sourcePoll \/ wake' <= sched.retry
    /\ UNCHANGED <<sched, hints, sourcePoll, provoked>>

(* Every decision is one of the two, so the runner never exits from it.    *)
LEMMA DecideFacts ==
    ASSUME WatchInv, Decide
    PROVE  /\ (\E s \in Schedule : Begins(s)) \/ Waits
           /\ unseen' \in BOOLEAN
           /\ UNCHANGED <<budget, result, exit, queue, cancelled, expired, idle>>
<1> DEFINE polled  == Poll(sched)
           sampled == SourcePollAdmissible(polled) /\ sourcePoll = 0
           s       == IF sampled THEN Poll(Observe(polled, TRUE)) ELSE polled
           poll    == IF sampled THEN PollInterval ELSE sourcePoll
           starts  == Decision(s) = "Pending"
           waits   == Decision(s) \in {"Debouncing", "WaitingPeriodic", "WaitingRetry",
                                       "RetryExhausted"}
<1>1. /\ pc = "deciding"
      /\ sched' = IF starts THEN BeginPending(s) ELSE s
      /\ hints' = IF starts THEN NoHints
                  ELSE IF sampled THEN RecordHint(hints, Unsupported) ELSE hints
      /\ sourcePoll' = poll
      /\ pc' = IF starts THEN "reconciling" ELSE IF waits THEN "waiting" ELSE "exited"
      /\ exit' = IF starts \/ waits THEN exit
                 ELSE IF s.cancelled THEN "Cancelled" ELSE "StateError"
      /\ wake' = IF waits THEN WaitFor(s, poll) ELSE 0
      /\ unseen' = (unseen /\ ~starts)
      /\ provoked' = (provoked /\ ~starts)
      /\ UNCHANGED <<budget, result, queue, cancelled, expired, idle>>
  BY DEF Decide
<1>2. /\ sched \in Schedule /\ Coherent(sched) /\ ~sched.active /\ ~sched.cancelled
      /\ sourcePoll \in 0 .. PollInterval /\ PollInterval \in 0 .. PollInterval
      /\ unseen \in BOOLEAN /\ provoked \in BOOLEAN
  BY <1>1, WatchAssumption DEF WatchInv, WatchTypeOK, RunnerSurvives, InStep
<1>3. polled \in Schedule /\ Coherent(polled) /\ ~polled.active /\ ~polled.cancelled
  BY <1>2, PollFacts
<1>4. ASSUME result = "Retryable", ~provoked, s.pending # None
      PROVE  idle >= RetryDelay \/ idle >= PollInterval \/ sched.periodic = 0
  <2>1. /\ sched.pending = None
        /\ sched.exhausted \/ sched.retry # Off
        /\ sourcePoll + idle >= PollInterval
        /\ sched.retry # Off => sched.retry + idle >= RetryDelay
        /\ idle \in Nat /\ RetryDelay \in Nat /\ PollInterval \in Nat
    BY <1>1, <1>4, WatchAssumption
       DEF WatchInv, FailureIsPaced, Clocks, Between, WatchTypeOK, Patience
  <2>2. CASE sampled
    BY <2>1, <2>2
  <2>3. CASE ~sampled
    <3>1. Due(sched) # None
      BY <1>2, <1>4, <2>1, <2>3, PollFacts
    <3> QED BY <2>1, <3>1 DEF Due
  <2> QED BY <2>2, <2>3
<1>5. CASE polled.pending # None
  <2>1. Decision(polled) = "Pending"
    BY <1>3, <1>5 DEF Decision
  <2>2. ~sampled /\ s = polled /\ poll = sourcePoll
    BY <2>1 DEF SourcePollAdmissible
  <2>3. starts /\ ~waits
    BY <2>1, <2>2
  <2>4. Begins(polled)
    <3> HIDE DEF polled, sampled, s, poll, starts, waits
    <3> QED BY <1>1, <1>2, <1>3, <1>4, <1>5, <2>2, <2>3 DEF Begins
  <2> HIDE DEF polled, sampled, s, poll, starts, waits
  <2> QED BY <1>1, <1>2, <1>3, <2>3, <2>4
<1>6. CASE polled.pending = None /\ sampled
  <2> DEFINE o == Observe(polled, TRUE)
  <2>1. /\ o \in Schedule /\ Coherent(o) /\ ~o.active /\ ~o.cancelled
        /\ o.pending # None
    BY <1>3, ObserveFacts
  <2>2. s = o
    BY <1>6, <2>1, PollFacts
  <2>3. starts /\ ~waits
    <3> HIDE DEF o, s
    <3>1. Decision(o) = "Pending"
      BY <2>1 DEF Decision
    <3> QED BY <2>2, <3>1
  <2>4. Begins(o)
    <3> HIDE DEF polled, sampled, s, poll, starts, waits, o
    <3>1. sourcePoll' \in 0 .. PollInterval
      BY <1>1, <1>2, <1>6 DEF poll
    <3> QED BY <1>1, <1>2, <1>4, <2>1, <2>2, <2>3, <3>1 DEF Begins
  <2> HIDE DEF polled, sampled, s, poll, starts, waits, o
  <2> QED BY <1>1, <1>2, <2>1, <2>3, <2>4
<1>7. CASE polled.pending = None /\ ~sampled
  <2>1. polled = sched /\ s = sched /\ poll = sourcePoll /\ Due(sched) = None
    BY <1>2, <1>7, PollFacts
  <2>2. SourcePollAdmissible(sched) => sourcePoll > 0
    BY <1>2, <1>7, <2>1
  <2>3. /\ waits
        /\ WaitFor(s, poll) \in Nat /\ WaitFor(s, poll) > 0
        /\ WaitFor(s, poll) <= sourcePoll \/ WaitFor(s, poll) <= sched.retry
    BY <1>2, <1>7, <2>1, <2>2, WaitFacts
  <2>4. ~starts
    BY <2>3
  <2> HIDE DEF polled, sampled, s, poll, starts, waits
  <2> QED BY <1>1, <1>2, <1>7, <2>1, <2>3, <2>4 DEF Waits
<1> QED BY <1>5, <1>6, <1>7

-----------------------------------------------------------------------------
(* Invariance.                                                             *)

(* A new service satisfies the invariant.                                  *)
LEMMA InitialInv == Init => WatchInv
<1> SUFFICES ASSUME Init PROVE WatchInv
  OBVIOUS
<1>1. /\ sched \in Schedule
      /\ Coherent(sched) /\ ~sched.active /\ ~sched.cancelled /\ sched.retry = Off
  BY Ranges DEF Init, Schedule, Coherent, Reasons
<1>2. WatchTypeOK
  <2>1. 0 \in 0 .. Patience + 1 /\ 0 \in 0 .. MaxPerTurn /\ PollInterval \in 0 .. PollInterval
    BY WatchAssumption DEF Patience
  <2>2. hints \in Hints
    BY DEF Init, Hints, NoHints
  <2>3. queue \in Seq(Observation)
    BY DEF Init
  <2> QED BY <1>1, <2>1, <2>2, <2>3 DEF Init, WatchTypeOK, Phases, Outcomes, Exits
<1>3. PollInterval \in Nat /\ Off = -1 /\ Patience >= 0
  BY WatchAssumption DEF Off, Patience
<1> QED BY <1>1, <1>2, <1>3
        DEF Init, WatchInv, RunnerSurvives, ObservationsRemembered, BoundedIdleness, InStep,
            Clocks, Between, WaitIsBounded, FailureIsPaced

(* Steps of the environment: they touch no record of the runner.           *)
LEMMA EnvironmentKeepsInv ==
    ASSUME WatchInv, RequestStop \/ \E o \in Observation : Change(o)
    PROVE  WatchInv'
<1>1. /\ UNCHANGED <<sched, hints, loopVars, history>>
      /\ queue' \in Seq(Observation) /\ cancelled' \in BOOLEAN /\ expired' \in BOOLEAN
      /\ unseen' \in BOOLEAN
  <2>1. CASE RequestStop
    BY <2>1 DEF RequestStop, WatchInv, WatchTypeOK
  <2>2. CASE \E o \in Observation : Change(o)
    <3> PICK o \in Observation : Change(o)
      BY <2>2
    <3> QED BY DEF Change, WatchInv, WatchTypeOK
  <2> QED BY <2>1, <2>2
<1> QED BY <1>1
        DEF WatchInv, WatchTypeOK, RunnerSurvives, ObservationsRemembered, BoundedIdleness,
            InStep, Clocks, Between, WaitIsBounded, FailureIsPaced, loopVars, history

(* The passage of time: the idle time grows as the deadlines shrink.       *)
LEMMA TickKeepsInv == ASSUME WatchInv, Tick PROVE WatchInv'
<1>1. /\ Debounce \in Nat /\ Periodic \in Nat /\ RetryDelay \in Nat /\ PollInterval \in Nat
      /\ Patience \in Nat /\ PollInterval <= Patience /\ RetryDelay <= Patience /\ Off = -1
  BY WatchAssumption DEF Off, Patience
<1> DEFINE d == Elapsed(sched.dirty)
           r == Elapsed(sched.retry)
           p == Elapsed(sched.periodic)
<1>2. /\ sched.dirty \in Off .. Debounce /\ sched.retry \in Off .. RetryDelay
      /\ sched.periodic \in 0 .. Periodic /\ wake \in Nat /\ sourcePoll \in 0 .. PollInterval
      /\ idle \in 0 .. Patience + 1 /\ idle <= Patience
  BY DEF WatchInv, WatchTypeOK, Schedule, BoundedIdleness
<1>3. /\ d \in Off .. Debounce /\ r \in Off .. RetryDelay /\ p \in 0 .. Periodic
      /\ d = Off <=> sched.dirty = Off
      /\ r = Off <=> sched.retry = Off
      /\ wake' \in Nat /\ sourcePoll' \in 0 .. PollInterval
  BY <1>1, <1>2 DEF Tick, Elapsed
<1>4. /\ sched' = [sched EXCEPT !.dirty = d, !.retry = r, !.periodic = p]
      /\ sched \in Schedule
      /\ UNCHANGED <<hints, pc, budget, result, exit, envVars, provoked>>
      /\ pc = "reconciling" \/ (pc = "waiting" /\ wake > 0)
      /\ idle' = IF pc = "waiting" THEN idle + 1 ELSE idle
  BY <1>2 DEF Tick, WatchInv, WatchTypeOK
<1>5. /\ wake' = IF wake > 0 THEN wake - 1 ELSE wake
      /\ sourcePoll' = IF sourcePoll > 0 THEN sourcePoll - 1 ELSE sourcePoll
      /\ r = IF sched.retry > 0 THEN sched.retry - 1 ELSE sched.retry
  BY DEF Tick, Elapsed
<1> HIDE DEF d, r, p
<1>6. /\ sched' \in Schedule
      /\ sched'.dirty = d /\ sched'.retry = r
      /\ sched'.pending = sched.pending /\ sched'.active = sched.active
      /\ sched'.full = sched.full /\ sched'.attempts = sched.attempts
      /\ sched'.exhausted = sched.exhausted /\ sched'.cancelled = sched.cancelled
  BY <1>3, <1>4 DEF Schedule
<1>7. /\ Clocks /\ WaitIsBounded
      /\ pc = "waiting" => Between
  BY DEF WatchInv, Between
<1>8. CASE pc = "reconciling"
  <2>1. idle' = idle /\ pc' = "reconciling"
    BY <1>4, <1>8
  <2>2. WatchTypeOK'
    BY <1>2, <1>3, <1>4, <1>6, <2>1 DEF WatchInv, WatchTypeOK, envVars
  <2>3. InStep'
    BY <1>3, <1>4, <1>6, <2>1 DEF WatchInv, InStep, Coherent
  <2> QED BY <1>2, <1>3, <1>4, <1>6, <2>1, <2>2, <2>3
          DEF WatchInv, RunnerSurvives, ObservationsRemembered, BoundedIdleness,
              Clocks, Between, WaitIsBounded, FailureIsPaced
<1>9. CASE pc = "waiting" /\ wake > 0
  <2>1. idle' = idle + 1 /\ pc' = "waiting"
    BY <1>4, <1>9
  <2>2. idle + wake <= Patience
    BY <1>1, <1>2, <1>7, <1>9 DEF Clocks, WaitIsBounded
  <2>3. BoundedIdleness' /\ idle' \in 0 .. Patience + 1
    BY <1>1, <1>2, <1>9, <2>1, <2>2 DEF BoundedIdleness, Patience
  <2>4. WatchTypeOK'
    BY <1>2, <1>3, <1>4, <1>6, <2>1, <2>3 DEF WatchInv, WatchTypeOK, envVars
  <2>5. InStep'
    BY <1>3, <1>4, <1>6, <2>1 DEF WatchInv, InStep, Coherent
  <2>6. Clocks'
    BY <1>1, <1>2, <1>3, <1>5, <1>6, <1>7, <1>9, <2>1 DEF Clocks, Between
  <2>7. WaitIsBounded'
    BY <1>1, <1>2, <1>3, <1>5, <1>6, <1>7, <1>9, <2>1 DEF WaitIsBounded
  <2>8. RunnerSurvives' /\ ObservationsRemembered' /\ FailureIsPaced'
    BY <1>3, <1>4, <1>6, <1>7, <1>9, <2>1
       DEF WatchInv, RunnerSurvives, ObservationsRemembered, FailureIsPaced, Between
  <2> QED BY <2>3, <2>4, <2>5, <2>6, <2>7, <2>8 DEF WatchInv
<1> QED BY <1>4, <1>8, <1>9

(* Steps of the runner that leave the scheduler alone.                     *)
LEMMA LoopKeepsInv ==
    ASSUME WatchInv, DrainedAll \/ Wake \/ \E outcome \in Outcomes : AttemptEnds(outcome)
    PROVE  WatchInv'
<1>1. MaxPerTurn \in 0 .. MaxPerTurn /\ 0 \in 0 .. Patience + 1 /\ 0 <= Patience
  BY WatchAssumption DEF Patience
<1>2. CASE DrainedAll
  BY <1>2 DEF DrainedAll, AfterDrain, Phases, envVars, history,
              WatchInv, WatchTypeOK, RunnerSurvives, ObservationsRemembered, BoundedIdleness,
              InStep, Clocks, Between, WaitIsBounded, FailureIsPaced
<1>3. CASE Wake
  BY <1>3 DEF Wake, Phases, envVars, history,
              WatchInv, WatchTypeOK, RunnerSurvives, ObservationsRemembered, BoundedIdleness,
              InStep, Clocks, Between, WaitIsBounded, FailureIsPaced
<1>4. CASE \E outcome \in Outcomes : AttemptEnds(outcome)
  <2> PICK outcome \in Outcomes : AttemptEnds(outcome)
    BY <1>4
  <2> QED BY <1>1
          DEF AttemptEnds, Phases, envVars,
              WatchInv, WatchTypeOK, RunnerSurvives, ObservationsRemembered, BoundedIdleness,
              InStep, Clocks, Between, WaitIsBounded, FailureIsPaced
<1> QED BY <1>2, <1>3, <1>4

(* The head of a turn.                                                     *)
LEMMA TurnKeepsInv == ASSUME WatchInv, Turn PROVE WatchInv'
<1>1. /\ MaxPerTurn \in 0 .. MaxPerTurn
      /\ sched \in Schedule /\ Coherent(sched) /\ pc = "turn" /\ ~sched.active
  BY WatchAssumption DEF WatchInv, WatchTypeOK, InStep, RunnerSurvives, Turn
<1>2. CASE StopRequested
  <2>1. Cancel(sched) \in Schedule /\ Coherent(Cancel(sched)) /\ ~Cancel(sched).active
    BY <1>1, CancelFacts
  <2>2. /\ pc' = "exited" /\ sched' = Cancel(sched) /\ hints' = NoHints
        /\ exit' \in {"Cancelled", "DeadlineExceeded"}
        /\ UNCHANGED <<wake, sourcePoll, budget, result, envVars, history>>
    BY <1>2 DEF Turn, Exit
  <2>3. NoHints \in Hints
    BY DEF NoHints, Hints
  <2> QED BY <2>1, <2>2, <2>3
          DEF Phases, Exits, envVars, history,
              WatchInv, WatchTypeOK, RunnerSurvives, ObservationsRemembered, BoundedIdleness,
              InStep, Clocks, Between, WaitIsBounded, FailureIsPaced
<1>3. CASE ~StopRequested
  BY <1>1, <1>3
     DEF Turn, Phases, envVars, history,
         WatchInv, WatchTypeOK, RunnerSurvives, ObservationsRemembered, BoundedIdleness,
         InStep, Clocks, Between, WaitIsBounded, FailureIsPaced
<1> QED BY <1>2, <1>3

(* An observation while the runner drains.                                 *)
LEMMA DrainKeepsInv == ASSUME WatchInv, DrainOne \/ DrainOverflow PROVE WatchInv'
<1>1. /\ sched \in Schedule /\ Coherent(sched) /\ hints \in Hints
      /\ queue \in Seq(Observation) /\ Unsupported \in Observation
      /\ pc \in {"draining", "finishing"} /\ ~sched.cancelled
      /\ sched.active <=> pc = "finishing"
  BY DEF WatchInv, WatchTypeOK, InStep, RunnerSurvives, DrainOne, DrainOverflow, Observation
<1>2. PICK full \in BOOLEAN :
          /\ sched' = Observe(sched, full)
          /\ hints' \in Hints
          /\ queue' \in Seq(Observation)
          /\ budget' \in 0 .. MaxPerTurn
          /\ pc' \in {pc, "deciding", "completing"}
          /\ pc' \in {"draining", "deciding"} <=> pc = "draining"
          /\ provoked' = TRUE
          /\ UNCHANGED <<wake, sourcePoll, result, exit, cancelled, expired, unseen, idle>>
  <2>1. CASE DrainOne
    <3>1. Head(queue) \in Observation
      BY <1>1, <2>1 DEF DrainOne
    <3>2. hints' \in Hints
      BY <1>1, <2>1, <3>1, HintFacts DEF DrainOne
    <3>3. queue' \in Seq(Observation)
      <4> PICK n \in 1 .. Len(queue) : queue' = SubSeq(queue, n + 1, Len(queue))
        BY <2>1 DEF DrainOne
      <4> QED BY <1>1, SubSeqProperties
    <3>4. hints'.full \in BOOLEAN
      BY <3>2 DEF Hints
    <3>5. budget' \in 0 .. MaxPerTurn
      BY <2>1, WatchAssumption DEF DrainOne, WatchInv, WatchTypeOK
    <3> QED BY <1>1, <2>1, <3>2, <3>3, <3>4, <3>5 DEF DrainOne
  <2>2. CASE DrainOverflow
    <3>1. hints' \in Hints
      BY <1>1, <2>2, HintFacts DEF DrainOverflow
    <3> QED BY <1>1, <2>2, <3>1
            DEF DrainOverflow, AfterDrain, WatchInv, WatchTypeOK, envVars
  <2> QED BY <2>1, <2>2
<1> DEFINE o == Observe(sched, full)
<1>3. /\ o \in Schedule /\ Coherent(o) /\ ~o.cancelled /\ o.active = sched.active
      /\ o.full \/ o.dirty # Off
      /\ o.retry \in {sched.retry, Off}
  BY <1>1, ObserveFacts
<1>4. sched' = o
  BY <1>2
<1> HIDE DEF o
<1>5. WatchTypeOK'
  BY <1>1, <1>2, <1>3, <1>4 DEF WatchInv, WatchTypeOK, Phases
<1>6. Off = -1 /\ sched.retry \in Int
  BY <1>1, WatchAssumption DEF Off, Schedule
<1>7. Clocks'
  <2>1. Between' => Between
    BY <1>1, <1>2 DEF Between
  <2> QED BY <1>2, <1>3, <1>4, <1>6, <2>1 DEF WatchInv, Clocks
<1>8. RunnerSurvives'
  BY <1>1, <1>2, <1>3, <1>4 DEF WatchInv, RunnerSurvives
<1> QED BY <1>1, <1>2, <1>3, <1>4, <1>5, <1>7, <1>8
        DEF WatchInv, ObservationsRemembered, BoundedIdleness, InStep, Between,
            WaitIsBounded, FailureIsPaced

(* The decision of a turn.                                                 *)
LEMMA DecideKeepsInv == ASSUME WatchInv, Decide PROVE WatchInv'
<1>1. /\ unseen' \in BOOLEAN
      /\ UNCHANGED <<budget, result, exit, queue, cancelled, expired, idle>>
      /\ (\E s \in Schedule : Begins(s)) \/ Waits
  BY DecideFacts
<1>2. pc = "deciding"
  BY DEF Decide
<1>3. CASE \E s \in Schedule : Begins(s)
  <2> PICK s \in Schedule : Begins(s)
    BY <1>3
  <2> DEFINE b == BeginPending(s)
  <2>1. b \in Schedule /\ Coherent(b) /\ b.active /\ ~b.cancelled
    BY BeginFacts DEF Begins
  <2>2. /\ sched' = b /\ pc' = "reconciling" /\ wake' = 0 /\ hints' \in Hints
        /\ sourcePoll' \in 0 .. PollInterval /\ provoked' = FALSE
    BY DEF Begins, Hints, NoHints
  <2> HIDE DEF b
  <2> QED BY <1>1, <1>2, <2>1, <2>2
          DEF Phases, WatchInv, WatchTypeOK, RunnerSurvives, ObservationsRemembered,
              BoundedIdleness, InStep, Clocks, Between, WaitIsBounded, FailureIsPaced
<1>4. CASE Waits
  BY <1>1, <1>2, <1>4
     DEF Waits, Phases, WatchInv, WatchTypeOK, RunnerSurvives, ObservationsRemembered,
         BoundedIdleness, InStep, Clocks, Between, WaitIsBounded, FailureIsPaced
<1> QED BY <1>1, <1>3, <1>4

(* The end of an attempt.                                                  *)
LEMMA CompleteKeepsInv == ASSUME WatchInv, Complete PROVE WatchInv'
<1>1. /\ sched \in Schedule /\ Coherent(sched) /\ sched.active /\ ~sched.cancelled
      /\ pc = "completing" /\ idle = 0 /\ hints \in Hints /\ NoHints \in Hints
      /\ result \in Outcomes /\ exit # "StateError"
  BY DEF Complete, WatchInv, WatchTypeOK, RunnerSurvives, InStep, NoHints, Hints
<1>2. /\ PollInterval \in 0 .. PollInterval /\ PollInterval \in Nat /\ RetryDelay \in Nat
      /\ RetryDelay > 0 /\ Off = -1
  BY WatchAssumption DEF Off
<1>3. /\ sourcePoll' = PollInterval /\ hints' \in Hints
      /\ UNCHANGED <<wake, budget, result, envVars, history>>
  BY <1>1 DEF Complete
<1>4. CASE result = "Fatal" \/ cancelled
  <2>1. /\ sched' \in Schedule /\ Coherent(sched')
        /\ sched'.active <=> result = "Fatal"
        /\ pc' = "exited"
        /\ exit' = IF result = "Fatal" THEN "Fatal" ELSE "Cancelled"
    <3>1. CASE result = "Fatal"
      <4>1. sched' = Cancel(sched) /\ pc' = "exited" /\ exit' = "Fatal"
        BY <3>1 DEF Complete
      <4> QED BY <1>1, <3>1, <4>1, CancelFacts
    <3>2. CASE result = "Succeeded" /\ cancelled
      <4>1. sched' = Cancel(CompleteSuccess(sched)) /\ pc' = "exited" /\ exit' = "Cancelled"
        BY <3>2 DEF Complete
      <4>2. /\ CompleteSuccess(sched) \in Schedule /\ Coherent(CompleteSuccess(sched))
            /\ ~CompleteSuccess(sched).active
        BY <1>1, CompletionFacts
      <4> QED BY <3>2, <4>1, <4>2, CancelFacts
    <3>3. CASE result = "Retryable" /\ cancelled
      <4> DEFINE a == [sched EXCEPT !.active = FALSE]
      <4>1. sched' = Cancel(a) /\ pc' = "exited" /\ exit' = "Cancelled"
        BY <3>3 DEF Complete
      <4>2. a \in Schedule /\ Coherent(a) /\ ~a.active
        BY <1>1 DEF Schedule, Coherent
      <4> HIDE DEF a
      <4> QED BY <3>3, <4>1, <4>2, CancelFacts
    <3> QED BY <1>1, <1>4, <3>1, <3>2, <3>3 DEF Outcomes
  <2> QED BY <1>1, <1>2, <1>3, <2>1
          DEF Phases, Exits, envVars, history, WatchInv, WatchTypeOK, RunnerSurvives,
              ObservationsRemembered, BoundedIdleness, InStep, Clocks, Between,
              WaitIsBounded, FailureIsPaced
<1>5. CASE ~(result = "Fatal" \/ cancelled)
  <2> DEFINE s == IF result = "Succeeded" THEN CompleteSuccess(sched)
                  ELSE CompleteFailure(sched)
  <2>1. sched' = s /\ pc' = "turn" /\ exit' = exit
    BY <1>5 DEF Complete
  <2>2. /\ s \in Schedule /\ Coherent(s) /\ ~s.active /\ ~s.cancelled
        /\ s.dirty = sched.dirty /\ (sched.full => s.full)
        /\ s.retry \in {Off, RetryDelay}
        /\ result = "Retryable" => s.pending = None /\ (s.exhausted \/ s.retry # Off)
    <3>1. CASE result = "Succeeded"
      BY <1>1, <3>1, CompletionFacts
    <3>2. CASE result # "Succeeded"
      BY <1>1, <3>2, CompletionFacts
    <3> QED BY <3>1, <3>2
  <2> HIDE DEF s
  <2>3. WatchTypeOK'
    BY <1>2, <1>3, <2>1, <2>2 DEF WatchInv, WatchTypeOK, Phases, envVars, history
  <2>4. Clocks'
    BY <1>1, <1>2, <1>3, <2>1, <2>2 DEF Clocks, history
  <2>5. ObservationsRemembered'
    BY <1>1, <1>3, <2>1, <2>2 DEF WatchInv, ObservationsRemembered, history
  <2> QED BY <1>1, <1>3, <2>1, <2>2, <2>3, <2>4, <2>5
          DEF history, WatchInv, RunnerSurvives, BoundedIdleness, InStep, Between,
              WaitIsBounded, FailureIsPaced
<1> QED BY <1>4, <1>5

(* Every step of the service preserves the invariant.                      *)
LEMMA StepKeepsInv == WatchInv /\ [Next]_vars => WatchInv'
<1> SUFFICES ASSUME WatchInv, [Next]_vars PROVE WatchInv'
  OBVIOUS
<1>1. CASE Turn
  BY <1>1, TurnKeepsInv
<1>2. CASE DrainOne \/ DrainOverflow
  BY <1>2, DrainKeepsInv
<1>3. CASE Decide
  BY <1>3, DecideKeepsInv
<1>4. CASE DrainedAll \/ Wake \/ \E outcome \in Outcomes : AttemptEnds(outcome)
  BY <1>4, LoopKeepsInv
<1>5. CASE Complete
  BY <1>5, CompleteKeepsInv
<1>6. CASE Tick
  BY <1>6, TickKeepsInv
<1>7. CASE RequestStop \/ \E o \in Observation : Change(o)
  BY <1>7, EnvironmentKeepsInv
<1>8. CASE UNCHANGED vars
  BY <1>8 DEF vars, loopVars, envVars, history, WatchInv, WatchTypeOK, RunnerSurvives,
              ObservationsRemembered, BoundedIdleness, InStep, Coherent, Clocks, Between,
              WaitIsBounded, FailureIsPaced
<1> QED BY <1>1, <1>2, <1>3, <1>4, <1>5, <1>6, <1>7, <1>8 DEF Next, RunnerStep

(* WatchInv holds throughout every run of the service.                     *)
THEOREM WatchInvariance == Spec => []WatchInv
  BY InitialInv, StepKeepsInv, PTL DEF Spec

(* Every variable keeps its type, and in particular an attempt is never    *)
(* retried more often than the retry budget allows.                        *)
THEOREM WatchTypeCorrectness == Spec => []WatchTypeOK
<1>1. WatchInv => WatchTypeOK
  BY DEF WatchInv
<1> QED BY <1>1, WatchInvariance, PTL

(* The runner never meets a state error of its own scheduler, whatever the *)
(* order of events, attempts and cancellations.                            *)
THEOREM RunnerNeverFails == Spec => []RunnerSurvives
<1>1. WatchInv => RunnerSurvives
  BY DEF WatchInv
<1> QED BY <1>1, WatchInvariance, PTL

(* What the runner observed stays on record until the next attempt begins. *)
THEOREM NothingForgotten == Spec => []ObservationsRemembered
<1>1. WatchInv => ObservationsRemembered
  BY DEF WatchInv
<1> QED BY <1>1, WatchInvariance, PTL

(* The time between two attempts never exceeds the longer of the source    *)
(* poll interval and the retry delay.                                      *)
THEOREM IdlenessBound == Spec => []BoundedIdleness
<1>1. WatchInv => BoundedIdleness
  BY DEF WatchInv
<1> QED BY <1>1, WatchInvariance, PTL

(* A failed attempt is followed at once only by one that an event or an    *)
(* overdue periodic deadline asks for.                                     *)
THEOREM BackoffAfterFailure == Spec => BackoffUnlessProvoked
<1> DEFINE A == (pc = "deciding" /\ pc' = "reconciling" /\ result = "Retryable") =>
                   idle >= RetryDelay \/ idle >= PollInterval \/ provoked \/ sched.periodic = 0
<1>1. WatchInv /\ [Next]_vars => [A]_vars
  <2> SUFFICES ASSUME WatchInv, Next, pc = "deciding", pc' = "reconciling",
                      result = "Retryable", ~provoked
               PROVE  idle >= RetryDelay \/ idle >= PollInterval \/ sched.periodic = 0
    OBVIOUS
  <2>1. Decide
    BY DEF Next, RunnerStep, Turn, DrainOne, DrainedAll, DrainOverflow, Wake, Complete,
           AttemptEnds, Tick, RequestStop, Change, loopVars
  <2>2. ~Waits
    BY DEF Waits
  <2> QED BY <2>1, <2>2, DecideFacts DEF Begins
<1>2. BackoffUnlessProvoked <=> [][A]_vars
  BY PTL DEF BackoffUnlessProvoked
<1> QED BY <1>1, <1>2, WatchInvariance, PTL DEF Spec

(* A decision to wait leaves time to wait, so the loop sleeps between two  *)
(* turns instead of polling the clock.                                     *)
THEOREM NeverSpins == Spec => NoSpin
<1> DEFINE A == pc = "deciding" /\ pc' = "waiting" => wake' > 0
<1>1. WatchInv /\ [Next]_vars => [A]_vars
  <2> SUFFICES ASSUME WatchInv, Next, pc = "deciding", pc' = "waiting"
               PROVE  wake' > 0
    OBVIOUS
  <2>1. Decide
    BY DEF Next, RunnerStep, Turn, DrainOne, DrainedAll, DrainOverflow, Wake, Complete,
           AttemptEnds, Tick, RequestStop, Change, loopVars
  <2>2. \A s \in Schedule : ~Begins(s)
    BY DEF Begins
  <2> QED BY <2>1, <2>2, DecideFacts DEF Waits
<1>2. NoSpin <=> [][A]_vars
  BY PTL DEF NoSpin
<1> QED BY <1>1, <1>2, WatchInvariance, PTL DEF Spec
=============================================================================
