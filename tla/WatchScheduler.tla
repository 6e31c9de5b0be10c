--------------------------- MODULE WatchScheduler ---------------------------
(***************************************************************************)
(* The watch service of one source slot: the polling runner's loop, the    *)
(* scheduler that decides when a complete reconciliation is due, and the   *)
(* bounded accumulator of dirty-path hints.  The runner is one thread; the *)
(* source, the event backend, the cancellation token and the clock move    *)
(* while it waits or reconciles.                                           *)
(*                                                                         *)
(* A deadline is represented by the time that remains until it; Off means  *)
(* that it is not set.  The runner reads the clock once per turn, so time  *)
(* passes only while it waits or reconciles.  The clock is monotonic, and  *)
(* 64-bit timestamps and counters do not overflow in a process's lifetime. *)
(***************************************************************************)
EXTENDS Integers, Sequences, FiniteSets

CONSTANTS
    Debounce,      \* WatcherScheduleLimits::debounce
    Periodic,      \* WatcherScheduleLimits::periodic
    RetryDelay,    \* WatcherScheduleLimits::retry_delay
    MaxRetries,    \* WatcherScheduleLimits::max_retries
    PollInterval,  \* effective_poll_interval
    MaxPerTurn,    \* MAX_OBSERVATIONS_PER_TURN
    Path,          \* repository paths a backend may report
    MaxHintPaths,  \* WatcherHintLimits::max_paths
    MaxQueue,      \* bound on the backend's unread events
    None           \* no reason is pending

Unsupported == "unsupported"

ASSUME WatchAssumption ==
    /\ Debounce \in Nat \ {0} /\ Periodic \in Nat \ {0} /\ RetryDelay \in Nat \ {0}
    /\ MaxRetries \in Nat \ {0} /\ MaxPerTurn \in Nat \ {0} /\ MaxHintPaths \in Nat \ {0}
    /\ PollInterval \in 1 .. Periodic
    /\ MaxQueue \in Nat
    /\ Unsupported \notin Path
    /\ None \notin {"Startup", "Dirty", "Periodic", "Full", "Retry"}

Off == -1

(* The scheduler's longest wait between two reconciliations.               *)
Patience == IF PollInterval > RetryDelay THEN PollInterval ELSE RetryDelay

VARIABLES
    sched,      \* WatcherPollingState
    hints,      \* WatcherHintAccumulator
    pc,         \* where the runner is
    wake,       \* the time left of the current wait
    sourcePoll, \* PollingLoopState::next_source_poll
    budget,     \* observations the current drain may still take
    result,     \* the outcome of the last attempt
    exit,       \* how the runner ended
    queue,      \* the backend's unread events
    cancelled,  \* the service's cancellation token
    expired,    \* the overall deadline has passed
    unseen,     \* history: the source changed since the last attempt began
    provoked,   \* history: an event was observed since the last attempt began
    idle        \* history: time since the last attempt ended

loopVars == <<pc, wake, sourcePoll, budget, result, exit>>
envVars  == <<queue, cancelled, expired, unseen>>
history  == <<provoked, idle>>
vars     == <<sched, hints, loopVars, envVars, history>>

-----------------------------------------------------------------------------
Reasons  == {"Startup", "Dirty", "Periodic", "Full", "Retry"}
Outcomes == {"Succeeded", "Retryable", "Fatal"}
Exits    == {"running", "Cancelled", "DeadlineExceeded", "Fatal", "StateError"}

(* A schedule has spent at most one attempt more than the retry budget.    *)
Schedule == [pending : Reasons \cup {None}, active : BOOLEAN, full : BOOLEAN,
             dirty : Off .. Debounce, retry : Off .. RetryDelay, periodic : 0 .. Periodic,
             attempts : 0 .. MaxRetries + 1, exhausted : BOOLEAN, cancelled : BOOLEAN]

Hints == [paths : SUBSET Path, full : BOOLEAN]

NoHints == [paths |-> {}, full |-> FALSE]

Init ==
    /\ sched = [pending |-> "Startup", active |-> FALSE, full |-> FALSE, dirty |-> Off,
                retry |-> Off, periodic |-> Periodic, attempts |-> 0, exhausted |-> FALSE,
                cancelled |-> FALSE]
    /\ hints = NoHints
    /\ pc = "turn"
    /\ wake = 0
    /\ sourcePoll = PollInterval
    /\ budget = 0
    /\ result = "Succeeded"
    /\ exit = "running"
    /\ queue = <<>>
    /\ cancelled = FALSE
    /\ expired = FALSE
    /\ unseen = TRUE
    /\ provoked = FALSE
    /\ idle = 0

-----------------------------------------------------------------------------
(* The scheduler: WatcherPollingState.                                     *)

(* An event resets an exhausted retry budget.                              *)
Renewed(s) == IF s.exhausted THEN [s EXCEPT !.exhausted = FALSE, !.attempts = 0] ELSE s

(* Full work is due at once and replaces a retry; other work is debounced.  *)
(* Faulty variant: the debounce postpones a retry too.                     *)
Noted_PostponesRetry(s, full) ==
    IF full THEN [Renewed(s) EXCEPT !.full = TRUE, !.retry = Off]
    ELSE [Renewed(s) EXCEPT !.dirty = Debounce, !.retry = IF @ = Off THEN Off ELSE RetryDelay]

Noted(s, full) ==
    IF full THEN [Renewed(s) EXCEPT !.full = TRUE, !.retry = Off]
    ELSE [Renewed(s) EXCEPT !.dirty = Debounce]

(* An observation behind a pending or active attempt is coalesced.         *)
Observe(s, full) ==
    LET n == Noted(s, full) IN
    IF s.cancelled THEN s
    ELSE IF n.full /\ ~n.active /\ n.pending = None THEN [n EXCEPT !.pending = "Full"]
    ELSE n

(* The reason, if any, for which work is due.                              *)
(* Faulty variant: an exhausted retry budget does not hold full work back. *)
Due_IgnoresExhaustion(s) ==
    IF s.retry # Off THEN IF s.retry = 0 THEN "Retry" ELSE None
    ELSE IF s.full THEN "Full"
    ELSE IF s.periodic = 0 THEN "Periodic"
    ELSE IF s.dirty = 0 THEN "Dirty"
    ELSE None

Due(s) ==
    IF s.exhausted THEN IF s.periodic = 0 THEN "Periodic" ELSE None
    ELSE IF s.retry # Off THEN IF s.retry = 0 THEN "Retry" ELSE None
    ELSE IF s.full THEN "Full"
    ELSE IF s.periodic = 0 THEN "Periodic"
    ELSE IF s.dirty = 0 THEN "Dirty"
    ELSE None

Poll(s) ==
    IF s.cancelled \/ s.pending # None \/ s.active \/ Due(s) = None THEN s
    ELSE [Renewed(s) EXCEPT !.pending = Due(s)]

(* The decision of the poll that left the scheduler in state s.            *)
Decision(s) ==
    IF s.cancelled THEN "Cancelled"
    ELSE IF s.pending # None THEN "Pending"
    ELSE IF s.active THEN "Backpressured"
    ELSE IF s.exhausted THEN "RetryExhausted"
    ELSE IF s.retry # Off THEN "WaitingRetry"
    ELSE IF s.dirty # Off THEN "Debouncing"
    ELSE "WaitingPeriodic"

BeginPending(s) ==
    [s EXCEPT !.pending = None, !.active = TRUE, !.dirty = Off, !.retry = Off, !.full = FALSE,
              !.exhausted = @ /\ s.pending # "Periodic",
              !.attempts = IF s.pending = "Periodic" THEN 0 ELSE @]

(* Faulty variants: success also forgets what was observed meanwhile; the  *)
(* attempt stays active.                                                   *)
CompleteSuccess_Forgets(s) ==
    [s EXCEPT !.active = FALSE, !.periodic = Periodic, !.retry = Off, !.attempts = 0,
              !.exhausted = FALSE, !.full = FALSE, !.dirty = Off]

CompleteSuccess_StaysActive(s) ==
    [s EXCEPT !.periodic = Periodic, !.retry = Off, !.attempts = 0, !.exhausted = FALSE]

CompleteSuccess(s) ==
    [s EXCEPT !.active = FALSE, !.periodic = Periodic, !.retry = Off, !.attempts = 0,
              !.exhausted = FALSE]

(* Faulty variant: one retry too many.                                     *)
CompleteFailure_OffByOne(s) ==
    IF s.attempts > MaxRetries
    THEN [s EXCEPT !.active = FALSE, !.attempts = @ + 1, !.retry = Off, !.exhausted = TRUE,
                   !.full = TRUE]
    ELSE [s EXCEPT !.active = FALSE, !.attempts = @ + 1, !.retry = RetryDelay]

CompleteFailure(s) ==
    IF s.attempts + 1 > MaxRetries
    THEN [s EXCEPT !.active = FALSE, !.attempts = @ + 1, !.retry = Off, !.exhausted = TRUE,
                   !.full = TRUE]
    ELSE [s EXCEPT !.active = FALSE, !.attempts = @ + 1, !.retry = RetryDelay]

Cancel(s) ==
    [s EXCEPT !.cancelled = TRUE, !.pending = None, !.dirty = Off, !.retry = Off,
              !.full = FALSE]

-----------------------------------------------------------------------------
(* The hint accumulator: a hint over the limit discards the set, and from  *)
(* then on complete work is required.  The limit on path bytes acts alike. *)

Observation == Path \cup {Unsupported}

RecordHint(h, o) ==
    IF o = Unsupported \/ h.full \/ Cardinality(h.paths \cup {o}) > MaxHintPaths
    THEN [paths |-> {}, full |-> TRUE]
    ELSE [h EXCEPT !.paths = @ \cup {o}]

-----------------------------------------------------------------------------
(* The environment.                                                        *)

(* The source changes; its event is queued or lost.                        *)
Change(o) ==
    /\ pc # "exited"
    /\ queue' \in {queue, Append(queue, o)}
    /\ Len(queue') <= MaxQueue
    /\ unseen' = TRUE
    /\ UNCHANGED <<sched, hints, loopVars, cancelled, expired, history>>

(* The cancellation token is set, or the overall deadline passes.          *)
RequestStop ==
    /\ pc # "exited"
    /\ \/ ~cancelled /\ cancelled' = TRUE /\ UNCHANGED expired
       \/ ~expired /\ expired' = TRUE /\ UNCHANGED cancelled
    /\ UNCHANGED <<sched, hints, loopVars, queue, unseen, history>>

Elapsed(t) == IF t > 0 THEN t - 1 ELSE t

(* Time passes while the runner sleeps or reconciles.                      *)
Tick ==
    /\ pc = "reconciling" \/ (pc = "waiting" /\ wake > 0)
    /\ sched' = [sched EXCEPT !.dirty = Elapsed(@), !.retry = Elapsed(@),
                              !.periodic = Elapsed(@)]
    /\ wake' = Elapsed(wake)
    /\ sourcePoll' = Elapsed(sourcePoll)
    /\ idle' = IF pc = "waiting" /\ idle <= Patience THEN idle + 1 ELSE idle
    /\ UNCHANGED <<hints, pc, budget, result, exit, envVars, provoked>>

-----------------------------------------------------------------------------
(* The runner: run_with_environment.                                       *)

Exit(how) ==
    /\ pc' = "exited"
    /\ exit' = how
    /\ sched' = Cancel(sched)
    /\ hints' = NoHints
    /\ UNCHANGED <<wake, sourcePoll, budget, result, envVars, history>>

(* Faulty variant: only the cancellation token ends the loop.              *)
StopRequested_CancelOnly == cancelled

StopRequested == cancelled \/ expired

Turn ==
    /\ pc = "turn"
    /\ IF StopRequested THEN Exit(IF cancelled THEN "Cancelled" ELSE "DeadlineExceeded")
       ELSE /\ pc' = "draining"
            /\ budget' = MaxPerTurn
            /\ UNCHANGED <<sched, hints, wake, sourcePoll, result, exit, envVars, history>>

(* drain_observations, before a poll and after an attempt.  A read returns *)
(* the first event of a batch; the rest of the batch is dropped.           *)
DrainOne ==
    /\ pc \in {"draining", "finishing"}
    /\ budget > 0
    /\ queue # <<>>
    /\ \E n \in 1 .. Len(queue) : queue' = SubSeq(queue, n + 1, Len(queue))
    /\ hints' = RecordHint(hints, Head(queue))
    /\ sched' = Observe(sched, hints'.full)
    /\ provoked' = TRUE
    /\ budget' = budget - 1
    /\ UNCHANGED <<pc, wake, sourcePoll, result, exit, cancelled, expired, unseen, idle>>

AfterDrain == IF pc = "draining" THEN "deciding" ELSE "completing"

DrainedAll ==
    /\ pc \in {"draining", "finishing"}
    /\ budget > 0
    /\ queue = <<>>
    /\ pc' = AfterDrain
    /\ UNCHANGED <<sched, hints, wake, sourcePoll, budget, result, exit, envVars, history>>

(* The limit of one drain counts as one more, unsupported, event.          *)
DrainOverflow ==
    /\ pc \in {"draining", "finishing"}
    /\ budget = 0
    /\ hints' = RecordHint(hints, Unsupported)
    /\ sched' = Observe(sched, TRUE)
    /\ provoked' = TRUE
    /\ pc' = AfterDrain
    /\ UNCHANGED <<wake, sourcePoll, budget, result, exit, envVars, idle>>

(* source_poll_is_admissible.                                              *)
SourcePollAdmissible(s) == Decision(s) \in {"Debouncing", "WaitingPeriodic", "RetryExhausted"}

(* How long to wait for a decision.                                        *)
Earliest(a, b) == IF a < b THEN a ELSE b

(* Faulty variant: an idle wait ignores the source poll.                   *)
WaitFor_Periodic(s, poll) ==
    CASE Decision(s) = "Debouncing"      -> Earliest(s.dirty, poll)
      [] Decision(s) = "WaitingPeriodic" -> s.periodic
      [] Decision(s) = "WaitingRetry"    -> s.retry
      [] OTHER                           -> poll

WaitFor(s, poll) ==
    CASE Decision(s) = "Debouncing"      -> Earliest(s.dirty, poll)
      [] Decision(s) = "WaitingPeriodic" -> Earliest(s.periodic, poll)
      [] Decision(s) = "WaitingRetry"    -> s.retry
      [] OTHER                           -> poll

(* Poll the scheduler, after a due source poll once more, and either begin *)
(* the pending attempt, which discards the hints, or wait.                 *)
Decide ==
    LET polled  == Poll(sched)
        sampled == SourcePollAdmissible(polled) /\ sourcePoll = 0
        s       == IF sampled THEN Poll(Observe(polled, TRUE)) ELSE polled
        poll    == IF sampled THEN PollInterval ELSE sourcePoll
        starts  == Decision(s) = "Pending"
        waits   == Decision(s) \in {"Debouncing", "WaitingPeriodic", "WaitingRetry",
                                    "RetryExhausted"}
    IN
    /\ pc = "deciding"
    /\ sched' = IF starts THEN BeginPending(s) ELSE s
    /\ hints' = IF starts THEN NoHints
                ELSE IF sampled THEN RecordHint(hints, Unsupported) ELSE hints
    /\ sourcePoll' = poll
    /\ pc' = IF starts THEN "reconciling" ELSE IF waits THEN "waiting" ELSE "exited"
    /\ exit' = IF starts \/ waits THEN exit
               ELSE IF s.cancelled THEN "Cancelled" ELSE "StateError"
    /\ wake' = IF waits THEN WaitFor(s, poll) ELSE 0
    /\ unseen' = (unseen /\ ~starts)
    /\ provoked' = (provoked /\ ~starts)
    /\ UNCHANGED <<budget, result, queue, cancelled, expired, idle>>

(* A wait ends at its deadline, or early for a stop request.               *)
Wake ==
    /\ pc = "waiting"
    /\ wake = 0 \/ cancelled \/ expired
    /\ pc' = "turn"
    /\ UNCHANGED <<sched, hints, wake, sourcePoll, budget, result, exit, envVars, history>>

(* The complete reconciliation returns; a cancelled one fails retryably.   *)
AttemptEnds(outcome) ==
    /\ pc = "reconciling"
    /\ result' = outcome
    /\ budget' = MaxPerTurn
    /\ pc' = "finishing"
    /\ idle' = 0
    /\ UNCHANGED <<sched, hints, wake, sourcePoll, exit, envVars, provoked>>

(* The rest of run_pending_attempt, after its drain.                       *)
Complete ==
    LET fails == result = "Fatal"
        s     == IF result = "Succeeded" THEN CompleteSuccess(sched)
                 ELSE IF cancelled THEN [sched EXCEPT !.active = FALSE]
                 ELSE CompleteFailure(sched)
    IN
    /\ pc = "completing"
    /\ sourcePoll' = PollInterval
    /\ sched' = IF fails THEN Cancel(sched) ELSE IF cancelled THEN Cancel(s) ELSE s
    /\ hints' = IF fails \/ (cancelled /\ result = "Succeeded") THEN NoHints ELSE hints
    /\ pc' = IF fails \/ cancelled THEN "exited" ELSE "turn"
    /\ exit' = IF fails THEN "Fatal" ELSE IF cancelled THEN "Cancelled" ELSE exit
    /\ UNCHANGED <<wake, budget, result, envVars, history>>

RunnerStep ==
    \/ Turn \/ DrainOne \/ DrainedAll \/ DrainOverflow \/ Decide \/ Wake \/ Complete
    \/ \E outcome \in Outcomes : AttemptEnds(outcome)

Next ==
    \/ RunnerStep
    \/ Tick
    \/ RequestStop
    \/ \E o \in Observation : Change(o)

(* The clock advances, the runner's thread is scheduled, and an attempt    *)
(* ends by its deadline at the latest.                                     *)
Spec == Init /\ [][Next]_vars /\ WF_vars(RunnerStep) /\ WF_vars(Tick)

-----------------------------------------------------------------------------
(* Properties.                                                             *)

Phases == {"turn", "draining", "deciding", "waiting", "reconciling", "finishing",
           "completing", "exited"}

(* Every variable has its type; failed attempts never exceed the budget.   *)
WatchTypeOK ==
    /\ sched \in Schedule
    /\ hints \in Hints
    /\ pc \in Phases
    /\ wake \in Nat
    /\ sourcePoll \in 0 .. PollInterval
    /\ budget \in 0 .. MaxPerTurn
    /\ result \in Outcomes
    /\ exit \in Exits
    /\ queue \in Seq(Observation)
    /\ cancelled \in BOOLEAN
    /\ expired \in BOOLEAN
    /\ unseen \in BOOLEAN
    /\ provoked \in BOOLEAN
    /\ idle \in 0 .. Patience + 1

(* The runner and the scheduler agree on whether an attempt is active, so  *)
(* the runner never meets backpressure and never ends by a state error:    *)
(* only a stop request or a fatal attempt ends the service.                *)
RunnerSurvives ==
    /\ sched.active <=> (pc \in {"reconciling", "finishing", "completing"}
                          \/ (pc = "exited" /\ exit = "Fatal"))
    /\ exit # "StateError"

(* No observation is lost: what was observed since the last attempt began  *)
(* stays on record through the attempt's completion, its failure and its   *)
(* retries until the next attempt begins.                                  *)
ObservationsRemembered ==
    (provoked /\ pc # "exited") => sched.full \/ sched.dirty # Off

(* Two attempts are never further apart than the longer of the source poll *)
(* interval and the retry delay, whatever fails, whichever events are lost *)
(* and however many arrive.                                                *)
BoundedIdleness == idle <= Patience

(* A failed attempt is not repeated at once: the next one has waited for   *)
(* the retry delay or the source poll, or answers an event, or is an       *)
(* overdue periodic one.                                                   *)
BackoffUnlessProvoked ==
    [][(pc = "deciding" /\ pc' = "reconciling" /\ result = "Retryable") =>
          idle >= RetryDelay \/ idle >= PollInterval \/ provoked \/ sched.periodic = 0]_vars

(* The loop never spins: when it decides to wait there is time to wait,    *)
(* at every boundary of the five deadlines.                                *)
NoSpin == [][pc = "deciding" /\ pc' = "waiting" => wake' > 0]_vars

(* Every change of the source is followed by the start of a complete       *)
(* reconciliation, also when its event is lost, when attempts keep failing *)
(* and in an endless storm of events, unless the service ends.             *)
EveryChangeReconciled == unseen ~> (~unseen \/ pc = "exited")

(* A cancellation or the overall deadline ends the service.                *)
StopsWhenAsked == (cancelled \/ expired) ~> pc = "exited"
=============================================================================
