--------------------------- MODULE LocalMutations ---------------------------
(***************************************************************************)
(* The operations that mutate the store through a writer of their own, and *)
(* what they report.  Each caller makes one mutation, as one of            *)
(*   task       append_local_task_checkpoint, from the command line;       *)
(*   review     an appended correspondence review, requested over MCP;     *)
(*   retention  apply_local_retention, from the command line;              *)
(*   thread     an append through a store shared with other threads.       *)
(* Reports, like answers, are "ok" with a receipt, "refused" for an error  *)
(* that says nothing was committed, and "unknown".                         *)
(***************************************************************************)
EXTENDS WriterWorker

CONSTANTS
    Assignment,  \* what the callers may be doing: functions from callers to kinds
    Permits      \* permits of the MCP operation supervisor

Kind == {"task", "review", "retention", "thread"}

ASSUME MutationAssumption ==
    /\ Assignment \subseteq [Caller -> Kind]
    /\ Permits \in Nat \ {0}

VARIABLES
    kind,      \* what a caller does
    step,      \* where its operation is
    result,    \* what the operation will return once its store is closed
    answer,    \* history: what the writer answered to the mutation
    report,    \* what the operation returned
    request,   \* where the supervisor of an MCP request is
    holders,   \* the requests that hold a permit
    response   \* what the supervisor answered

mutationVars == <<kind, step, result, answer, report, request, holders, response>>
allVars      == <<workerVars, mutationVars>>

-----------------------------------------------------------------------------
MutationInit ==
    /\ WorkerInit
    /\ kind \in Assignment
    /\ step = [c \in Caller |-> IF kind[c] = "review" THEN "queued" ELSE "leasing"]
    /\ result = [c \in Caller |-> None]
    /\ answer = [c \in Caller |-> None]
    /\ report = [c \in Caller |-> None]
    /\ request = [c \in Caller |-> IF kind[c] = "review" THEN "running" ELSE "none"]
    /\ holders = {}
    /\ response = [c \in Caller |-> None]

(* A request over MCP that has not been answered.                          *)
Supervised(c) == request[c] # "none" /\ response[c] = None

GoTo(c, p) == step' = [step EXCEPT ![c] = p]

(* The operation returns, and the supervisor answers if it has not given   *)
(* up.  The permit lives as long as the blocking task.                     *)
Report(c, outcome) ==
    /\ GoTo(c, "done")
    /\ report' = [report EXCEPT ![c] = outcome]
    /\ holders' = holders \ {c}
    /\ result' = [result EXCEPT ![c] = None]
    /\ response' = [response EXCEPT ![c] = IF Supervised(c) THEN outcome ELSE @]
    /\ Forget(c)
    /\ UNCHANGED <<user, late, cancelled, kind, request>>

Proceed(c, p) ==
    /\ GoTo(c, p)
    /\ UNCHANGED <<kind, report, request, holders, response>>

Unreported == UNCHANGED <<result, answer>>

serverVars == <<lease, opened, threadVars, dbVars, crashes>>

-----------------------------------------------------------------------------
(* Before the store is open.                                               *)

(* acquire_permit, and what happens when it is given up.                   *)
AcquirePermit(c) ==
    /\ step[c] = "queued" /\ ~late[c] /\ Cardinality(holders) < Permits
    /\ GoTo(c, "leasing")
    /\ holders' = holders \cup {c}
    /\ UNCHANGED <<workerVars, kind, result, answer, report, request, response>>

RefuseRequest(c) ==
    /\ step[c] = "queued"
    /\ GoTo(c, "done")
    /\ response' = [response EXCEPT ![c] = "refused"]
    /\ UNCHANGED <<workerVars, kind, result, answer, report, request, holders>>

(* The lease is polled until the deadline.                                 *)
AcquireLease(c) ==
    /\ step[c] = "leasing"
    /\ Start(c)
    /\ Proceed(c, "starting") /\ Unreported

LeaseTimesOut(c) ==
    /\ step[c] = "leasing" /\ late[c]
    /\ Report(c, "refused")
    /\ UNCHANGED <<serverVars, answer>>

(* A thread uses the store another thread of its program has opened.       *)
ShareStore(c) ==
    /\ step[c] = "leasing" /\ kind[c] = "thread"
    /\ \E d \in Caller :
        /\ kind[d] = "thread" /\ step[d] \in {"status", "mutate", "done"} /\ user[d] # 0
        /\ Join(c, user[d])
    /\ Proceed(c, "joined") /\ Unreported

FirstCommand(c) == CASE kind[c] \in {"task", "thread"} -> "status"
                     [] kind[c] = "review" -> "review"
                     [] kind[c] = "retention" -> "apply"

FirstCall(c) ==
    /\ \/ step[c] = "joined"
       \/ step[c] = "starting" /\ Answered(c) /\ call[c].reply.outcome = "ok"
    /\ Send(c, FirstCommand(c), 0)
    /\ Proceed(c, IF FirstCommand(c) = "status" THEN "status" ELSE "mutate") /\ Unreported

(* Retention reports every error of a start as one: nothing was applied.   *)
StartFails(c) ==
    /\ step[c] = "starting" /\ Answered(c) /\ call[c].reply.outcome # "ok"
    /\ Abandon(user[c])
    /\ Report(c, IF kind[c] = "retention" THEN "refused" ELSE call[c].reply.outcome)
    /\ UNCHANGED <<opened, worker, current, unresolved, barred, dbVars, crashes, answer>>

-----------------------------------------------------------------------------
(* The mutation and the end of the store.                                  *)

(* The checkpoint that follows the latest one the status showed.           *)
AppendNext(c) ==
    /\ step[c] = "status" /\ Answered(c) /\ call[c].reply.outcome = "ok"
    /\ Send(c, "append", call[c].reply.sequence + 1)
    /\ Proceed(c, "mutate") /\ Unreported

StatusFails(c) ==
    /\ step[c] = "status" /\ Answered(c) /\ call[c].reply.outcome # "ok"
    /\ Report(c, "refused")
    /\ IF kind[c] = "task" THEN Drop(user[c]) ELSE UNCHANGED <<handle, queue, lease>>
    /\ UNCHANGED <<opened, worker, current, unresolved, barred, dbVars, crashes, answer>>

MutationAnswered(c) ==
    /\ step[c] = "mutate" /\ Answered(c)
    /\ answer' = [answer EXCEPT ![c] = call[c].reply.outcome]

(* append_task_checkpoint checks its control once more, receipt in hand.   *)
TaskAnswered(c) ==
    /\ kind[c] = "task" /\ MutationAnswered(c)
    /\ result' = [result EXCEPT ![c] = IF answer'[c] = "ok" /\ ~Controlled(c)
                                       THEN "refused" ELSE answer'[c]]
    /\ Send(c, "shutdown", 0)
    /\ Proceed(c, "closing")

ThreadAnswered(c) ==
    /\ kind[c] = "thread" /\ MutationAnswered(c)
    /\ Report(c, answer'[c])
    /\ UNCHANGED serverVars

(* A known receipt is followed by a checkpoint of the write-ahead log.     *)
ReviewAnswered(c) ==
    /\ kind[c] = "review" /\ MutationAnswered(c)
    /\ result' = [result EXCEPT ![c] = answer'[c]]
    /\ IF answer'[c] = "ok" THEN Send(c, "checkpoint", 0) /\ Proceed(c, "checkpoint")
                            ELSE Send(c, "shutdown", 0) /\ Proceed(c, "closing")

CheckpointAnswered(c) ==
    /\ step[c] = "checkpoint" /\ Answered(c)
    /\ Send(c, "shutdown", 0)
    /\ Proceed(c, "closing") /\ Unreported

(* After an error retention shuts down under a deadline of its own.        *)
RetentionAnswered(c) ==
    /\ kind[c] = "retention" /\ MutationAnswered(c)
    /\ result' = [result EXCEPT ![c] = answer'[c]]
    /\ IF answer'[c] = "ok"
       THEN Send(c, "shutdown", 0) /\ Proceed(c, "closing")
       ELSE /\ Proceed(c, "recovering")
            /\ late' = [late EXCEPT ![c] = FALSE]
            /\ UNCHANGED <<lease, opened, threadVars, user, call, cancelled, dbVars, crashes>>

RecoveryShutdown(c) ==
    /\ step[c] = "recovering"
    /\ Send(c, "shutdown", 0)
    /\ Proceed(c, "closing") /\ Unreported

(* A task's receipt is given up when the shutdown fails.                   *)
Close(c) ==
    /\ step[c] = "closing" /\ Answered(c)
    /\ Drop(user[c])
    /\ IF kind[c] = "retention" /\ result[c] # "ok"
       THEN Proceed(c, "lookup") /\ UNCHANGED <<callVars, result>>
       ELSE IF kind[c] = "task" /\ result[c] = "ok" THEN Report(c, call[c].reply.outcome)
       ELSE Report(c, result[c])
    /\ UNCHANGED <<opened, worker, current, unresolved, barred, dbVars, crashes, answer>>

(* map_apply_store_error: an error that may have come after the commit is  *)
(* reported as an unknown outcome.                                         *)
(* Faulty variant: it is taken for a refusal.                              *)
MapApplyError_AllRefused(outcome) == IF outcome = "failed" THEN "refused" ELSE outcome

MapApplyError(outcome) == IF outcome = "failed" THEN "unknown" ELSE outcome

(* load_retention_apply_outcome_read_only; it may fail.                    *)
Lookup(c) ==
    /\ step[c] = "lookup"
    /\ \/ c \in log /\ Report(c, "ok")
       \/ Report(c, MapApplyError(result[c]))
    /\ UNCHANGED <<serverVars, answer>>

(* The last thread of a program is done with the store.                    *)
CloseShared(s) ==
    /\ handle[s] = "held"
    /\ \E c \in Caller : user[c] = s
    /\ \A c \in Caller : user[c] = s => kind[c] = "thread" /\ step[c] = "done"
    /\ Drop(s)
    /\ UNCHANGED <<opened, worker, current, unresolved, barred, callVars, dbVars, crashes, mutationVars>>

-----------------------------------------------------------------------------
(* The supervisor of an MCP mutation.                                      *)

(* The client cancels, or the deadline passes: the task is told.           *)
Interrupt(c) ==
    /\ Supervised(c) /\ request[c] = "running" /\ c \in holders
    /\ request' = [request EXCEPT ![c] = "resolving"]
    /\ cancelled' = [cancelled EXCEPT ![c] = TRUE]
    /\ UNCHANGED <<lease, opened, threadVars, user, call, late, dbVars, crashes,
                   kind, step, result, answer, report, holders, response>>

GiveUp_Refuses(c) ==
    /\ Supervised(c) /\ request[c] = "resolving"
    /\ response' = [response EXCEPT ![c] = "refused"]
    /\ UNCHANGED <<workerVars, kind, step, result, answer, report, request, holders>>

GiveUp_FreesPermit(c) ==
    /\ Supervised(c) /\ request[c] = "resolving"
    /\ response' = [response EXCEPT ![c] = "unknown"]
    /\ holders' = holders \ {c}
    /\ UNCHANGED <<workerVars, kind, step, result, answer, report, request>>

(* The resolution interval ends before the task does.                      *)
GiveUp(c) ==
    /\ Supervised(c) /\ request[c] = "resolving"
    /\ response' = [response EXCEPT ![c] = "unknown"]
    /\ UNCHANGED <<workerVars, kind, step, result, answer, report, request, holders>>

-----------------------------------------------------------------------------
(* A process with a session dies; the MCP server does not.                 *)
ProcessCrash(s) ==
    /\ \A c \in Caller : user[c] = s => kind[c] # "review"
    /\ Crash(s)
    /\ step' = [c \in Caller |-> IF user[c] = s /\ step[c] # "done" THEN "lost" ELSE step[c]]
    /\ result' = [c \in Caller |-> IF user[c] = s THEN None ELSE result[c]]
    /\ UNCHANGED <<kind, answer, report, request, holders, response>>

AllEnded ==
    /\ \A c \in Caller : step[c] \in {"done", "lost"}
    /\ \A s \in Session : worker[s] \in {"none", "gone"}
    /\ UNCHANGED allVars

WorkerStep(s) ==
    /\ \/ \E outcome \in Outcome : Startup(s, outcome)
       \/ Take(s) \/ ExecuteMutation(s) \/ CommitMutation(s) \/ ExecuteOther(s)
       \/ ExecuteShutdown(s) \/ Reply(s) \/ Disconnect(s) \/ Exit(s)
    /\ UNCHANGED mutationVars

WorkerPanics(s) == Panic(s) /\ UNCHANGED mutationVars

CallStep(c) ==
    /\ Receive(c) \/ Disconnected(c) \/ TimeOut(c) \/ GraceEnds(c) \/ Record(c)
    /\ UNCHANGED mutationVars

(* Deadlines pass once an operation has begun.                             *)
TimePasses(c) ==
    /\ step[c] \notin {"done", "lost"}
    /\ Expire(c)
    /\ UNCHANGED mutationVars

OperationStep(c) ==
    \/ AcquirePermit(c) \/ RefuseRequest(c) \/ AcquireLease(c) \/ LeaseTimesOut(c)
    \/ ShareStore(c) \/ FirstCall(c) \/ StartFails(c) \/ AppendNext(c) \/ StatusFails(c)
    \/ TaskAnswered(c) \/ ThreadAnswered(c) \/ ReviewAnswered(c) \/ CheckpointAnswered(c)
    \/ RetentionAnswered(c) \/ RecoveryShutdown(c) \/ Close(c) \/ Lookup(c)

MutationNext ==
    \/ \E c \in Caller : \/ OperationStep(c) \/ CallStep(c) \/ TimePasses(c)
                         \/ Interrupt(c) \/ GiveUp(c)
    \/ \E s \in Session : WorkerStep(s) \/ WorkerPanics(s) \/ CloseShared(s) \/ ProcessCrash(s)
    \/ AllEnded

MutationSpec == MutationInit /\ [][MutationNext]_allVars

(* A thread with something to do, or a deadline to meet, gets on with it.  *)
CallerStep(c) ==
    OperationStep(c) \/ CallStep(c) \/ TimePasses(c) \/ GiveUp(c) \/ (late[c] /\ Interrupt(c))

Fairness ==
    /\ \A c \in Caller : WF_allVars(CallerStep(c))
    /\ \A s \in Session : WF_allVars(WorkerStep(s) \/ CloseShared(s))

FairMutationSpec == MutationSpec /\ Fairness

-----------------------------------------------------------------------------
(* Types, and: the worker has a command exactly while it works on one, a   *)
(* caller that was answered has an outcome, and what is reported is one of *)
(* the three things an operation may be told.                              *)
MutationTypeOK ==
    /\ lease \in 0..MaxSession /\ opened \in 0..MaxSession
    /\ worker \in [Session -> {"none", "starting", "idle", "executing", "committing",
                           "replying", "exiting", "gone"}]
    /\ handle \in [Session -> {"none", "held", "dropped"}]
    /\ unresolved \in [Session -> BOOLEAN] /\ barred \subseteq Caller
    /\ user \in [Caller -> 0..MaxSession]
    /\ \A s \in Session :
        /\ queue[s] # None =>
               queue[s].caller \in Caller \cup {None} /\ queue[s].command \in Command
        /\ (worker[s] \in {"executing", "committing", "replying"}) <=> current[s] # None
        /\ current[s] # None => current[s].outcome \in Outcome \cup {None}
    /\ \A c \in Caller :
        /\ call[c].phase \in {"idle", "waiting", "grace", "record", "answered"}
        /\ call[c].command \in Command \cup {None}
        /\ call[c].phase = "answered" => call[c].reply.outcome \in Outcome
    /\ late \in [Caller -> BOOLEAN] /\ cancelled \in [Caller -> BOOLEAN]
    /\ log \subseteq Caller /\ holders \subseteq Caller
    /\ checkpoints \in 1..(1 + Cardinality(Caller))
    /\ kind \in [Caller -> Kind]
    /\ result \in [Caller -> Outcome \cup {None}] /\ answer \in [Caller -> Outcome \cup {None}]
    /\ report \in [Caller -> Told \cup {None}] /\ response \in [Caller -> Told \cup {None}]
    /\ request \in [Caller -> {"none", "running", "resolving"}]

(* An operation that reports success is durable, and one that reports      *)
(* that nothing was committed is not, also when the writer answered with   *)
(* the error of a clean-up after the commit.  The one exception is a       *)
(* task's receipt that the application or the facade gave up.              *)
ReportsAreHonest ==
    \A c \in Caller :
        /\ report[c] = "ok" => c \in log
        /\ (report[c] = "refused" /\ c \in log) => kind[c] = "task" /\ answer[c] = "ok"

(* What ADR 0033 promises: "Callers never receive a rollback-shaped error  *)
(* for known committed work."  The facade of task checkpoints does not     *)
(* keep it: it holds the receipt and reports a deadline or a shutdown that *)
(* came after the commit.                                                  *)
CommittedIsNeverDenied ==
    \A c \in Caller : answer[c] = "ok" => report[c] # "refused"

(* Whoever holds the lease knows what became of the operations of every    *)
(* earlier session: a worker left behind by its caller, timed out, dropped *)
(* or killed, commits nothing once another session has been opened.        *)
LeaseFencesEarlierSessions ==
    [][\A c \in Caller : (user[c] # 0 /\ lease # 0 /\ user[c] # lease) =>
           (c \in log' <=> c \in log)]_allVars

(* A mutation that waits in the queue when an earlier one of its session   *)
(* turns out to be unresolved never becomes durable.                       *)
QueuedBehindUnresolvedNeverCommits == barred \cap log = {}

(* What the server tells the client of a mutation is true whenever it is   *)
(* told: a receipt for what is durable, a refusal only for what is not and *)
(* never will be.                                                          *)
ResponsesAreHonest ==
    \A c \in Caller : /\ response[c] = "ok" => c \in log
                      /\ response[c] = "refused" => c \notin log

(* The supervisor bounds the tasks that still run, not the requests that   *)
(* are still unanswered: a task whose request was answered "unknown" keeps *)
(* its permit until it has finished with the store.                        *)
Working(c) == request[c] # "none" /\ step[c] \notin {"queued", "done"}

TasksHoldPermits == Cardinality({c \in Caller : Working(c)}) <= Permits

(* Wherever deadlines and faults find them, every operation comes to an    *)
(* end, every request to the server is answered, and the worker of every   *)
(* session lets the lease go.                                              *)
EverythingEnds ==
    <>(/\ lease = 0
       /\ \A c \in Caller : step[c] \in {"done", "lost"} /\ ~Supervised(c))

=============================================================================
