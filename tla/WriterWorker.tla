---------------------------- MODULE WriterWorker ----------------------------
(***************************************************************************)
(* The thread that owns the connection to the database, and the calls made *)
(* to it.  A session is one OwnedSqliteIndex: a handle held by its users   *)
(* and a worker thread joined by a queue of one command.  The worker, not  *)
(* the handle, holds the mutation lease: a handle that is dropped leaves a *)
(* worker that finishes what was queued before it lets the lease go.       *)
(*                                                                         *)
(* A commit and its reply are separate steps, so a caller that stops       *)
(* waiting cannot know what became of its command.  Its receiver is gone   *)
(* only after it has noted that: until then a reply is still accepted, by  *)
(* a caller that no longer reads it.                                       *)
(*                                                                         *)
(* Time is a flag per caller: its absolute deadline has passed or has not. *)
(***************************************************************************)
EXTENDS Naturals, FiniteSets

CONSTANTS
    Caller,       \* threads, each with one mutation to make
    MaxSession,   \* bound on sessions
    MaxCrashes,   \* bound on threads that panic and processes that die
    None

VARIABLES
    lease,        \* the session whose worker holds the mutation lease, or 0
    opened,       \* number of sessions so far
    worker,       \* where the worker thread of a session is
    handle,       \* where the OwnedSqliteIndex of a session is
    queue,        \* the command channel of a session: a command or None
    current,      \* the command the worker has taken, with its result
    unresolved,   \* unresolved_mutation of a session
    barred,       \* history: callers found queued behind an unresolved mutation
    user,         \* the session a caller uses, or 0
    call,         \* the call a caller is in
    late,         \* the caller's deadline has passed
    cancelled,    \* the caller's cancellation flag
    log,          \* the callers whose mutation is durable
    checkpoints,  \* MAX(sequence) of the engineering task all appends are for
    crashes       \* number of crashes so far

workerVars == <<lease, opened, worker, handle, queue, current, unresolved, barred, user, call,
                late, cancelled, log, checkpoints, crashes>>

-----------------------------------------------------------------------------
Session == 1..MaxSession

(* WriterCommand, reduced to those the callers of this module issue.       *)
Append == {"append", "review", "apply"}

Mutating == Append \cup {"checkpoint"}

Command == Mutating \cup {"start", "status", "shutdown"}

(* What an operation may be told: a receipt, an error that says nothing    *)
(* was committed, or that nobody knows.                                    *)
Told == {"ok", "refused", "unknown"}

(* The writer itself also answers with errors of the database or of its    *)
(* thread that may come before or after a commit.                          *)
Outcome == Told \cup {"failed"}

(* Only the facade of retention tells these errors from refusals; for the  *)
(* other commands they all come before the commit.                         *)
StoreError(command) == IF command = "apply" THEN "failed" ELSE "refused"

(* What the worker keeps of the command it has taken.                      *)
Taken == [caller : Caller \cup {None}, command : Command, sequence : Nat,
          outcome : Outcome \cup {None}, usable : BOOLEAN]

(* What a reply channel carries.                                           *)
Answer == [outcome : Outcome, sequence : Nat]

ASSUME WorkerAssumption ==
    /\ MaxSession \in Nat \ {0}
    /\ MaxCrashes \in Nat
    /\ IsFiniteSet(Caller)
    /\ None \notin Caller \cup Command \cup Outcome \cup Taken \cup Answer

NoCall == [phase |-> "idle", command |-> None, sequence |-> 0, reply |-> None]

WorkerInit ==
    /\ lease = 0 /\ opened = 0
    /\ worker = [s \in Session |-> "none"]
    /\ handle = [s \in Session |-> "none"]
    /\ queue = [s \in Session |-> None]
    /\ current = [s \in Session |-> None]
    /\ unresolved = [s \in Session |-> FALSE]
    /\ barred = {}
    /\ user = [c \in Caller |-> 0]
    /\ call = [c \in Caller |-> NoCall]
    /\ late = [c \in Caller |-> FALSE]
    /\ cancelled = [c \in Caller |-> FALSE]
    /\ log = {}
    /\ checkpoints = 1
    /\ crashes = 0

Ended(s) == worker[s] \in {"exiting", "gone"}

(* The receiving end of a call's reply channel exists.                     *)
Receiving(c) == call[c].phase \in {"waiting", "grace", "record"}

Answered(c) == call[c].phase = "answered"

(* reply.try_send finds its receiver.  The channel holds one reply.         *)
Reachable(r) == r.caller # None /\ Receiving(r.caller) /\ call[r.caller].command = r.command

Deliver(r, outcome, sequence) ==
    call' = IF Reachable(r)
            THEN [call EXCEPT ![r.caller].reply = [outcome |-> outcome, sequence |-> sequence]]
            ELSE call

Return(c, outcome, sequence) ==
    call' = [call EXCEPT ![c].phase = "answered",
                         ![c].reply = [outcome |-> outcome, sequence |-> sequence]]

ToPhase(c, p) == call' = [call EXCEPT ![c].phase = p]

(* The caller is done with its last call.                                  *)
Forget(c) == call' = [call EXCEPT ![c] = NoCall]

threadVars == <<worker, handle, queue, current, unresolved, barred>>
callVars   == <<user, call, late, cancelled>>
dbVars     == <<log, checkpoints>>

-----------------------------------------------------------------------------
(* Starting a session: the lease is taken and handed to a new thread.      *)

Start(c) ==
    /\ lease = 0 /\ opened < MaxSession /\ ~late[c]
    /\ LET s == opened + 1 IN
        /\ lease' = s /\ opened' = s
        /\ worker' = [worker EXCEPT ![s] = "starting"]
        /\ handle' = [handle EXCEPT ![s] = "held"]
        /\ user' = [user EXCEPT ![c] = s]
        /\ call' = [call EXCEPT ![c] = [NoCall EXCEPT !.phase = "waiting", !.command = "start"]]
    /\ UNCHANGED <<queue, current, unresolved, barred, late, cancelled, dbVars, crashes>>

(* Opening, migrating and recovering, on the new thread.  An error after a *)
(* migration leaves an unknown outcome; the thread ends when it fails or   *)
(* when nobody waits for it any more.                                      *)
Startup(s, outcome) ==
    /\ worker[s] = "starting" /\ outcome \in Told
    /\ \E c \in Caller :
        /\ user[c] = s
        /\ (late[c] \/ cancelled[c]) => outcome = "refused"
        /\ LET r == [caller |-> c, command |-> "start"] IN
            /\ Deliver(r, outcome, 0)
            /\ worker' = [worker EXCEPT ![s] = IF outcome = "ok" /\ Reachable(r)
                                              THEN "idle" ELSE "exiting"]
    /\ UNCHANGED <<lease, opened, handle, queue, current, unresolved, barred, user, late, cancelled,
                   dbVars, crashes>>

(* Another thread of the program borrows the open store.                   *)
Join(c, s) ==
    /\ handle[s] = "held"
    /\ user' = [user EXCEPT ![c] = s]
    /\ UNCHANGED <<lease, opened, threadVars, call, late, cancelled, dbVars, crashes>>

-----------------------------------------------------------------------------
(* A call.                                                                 *)

(* OwnedSqliteIndex::send, then a receive function is entered.             *)
Send(c, command, sequence) ==
    LET s == user[c]
        request == [caller |-> c, command |-> command, sequence |-> sequence]
        Fail(outcome) ==
            /\ call' = [call EXCEPT ![c] = [phase |-> "answered", command |-> command,
                            sequence |-> sequence, reply |-> [outcome |-> outcome, sequence |-> 0]]]
            /\ UNCHANGED queue
    IN  /\ IF late[c] THEN Fail("refused")
           ELSE IF command \in Mutating /\ unresolved[s] THEN Fail("unknown")
           ELSE IF Ended(s) THEN Fail(StoreError(command))
           ELSE IF queue[s] # None THEN Fail("refused")
           ELSE /\ queue' = [queue EXCEPT ![s] = request]
                /\ call' = [call EXCEPT ![c] = [phase |-> "waiting", command |-> command,
                                               sequence |-> sequence, reply |-> None]]
        /\ UNCHANGED <<lease, opened, worker, handle, current, unresolved, barred, user, late,
                       cancelled, dbVars, crashes>>

(* The rest of a call.  Startup and mutations are resolved with a grace    *)
(* interval; only mutations note an unknown outcome for the session.       *)
Resolved(c) == call[c].command \in Mutating \cup {"start"}

(* A shutdown also joins the thread, within the same deadline.             *)
Receive(c) ==
    /\ call[c].phase \in {"waiting", "grace"} /\ call[c].reply # None
    /\ call[c].command = "shutdown" => worker[user[c]] = "gone"
    /\ IF call[c].command \in Mutating /\ call[c].reply.outcome = "unknown"
       THEN ToPhase(c, "record")
       ELSE ToPhase(c, "answered")
    /\ UNCHANGED <<lease, opened, threadVars, user, late, cancelled, dbVars, crashes>>

(* The sending end is gone and left no reply.                              *)
Disconnected(c) ==
    /\ call[c].phase \in {"waiting", "grace"} /\ call[c].reply = None
    /\ Ended(user[c])
    /\ IF call[c].command \in Mutating THEN ToPhase(c, "record")
       ELSE Return(c, IF Resolved(c) THEN "unknown" ELSE "refused", 0)
    /\ UNCHANGED <<lease, opened, threadVars, user, late, cancelled, dbVars, crashes>>

(* The deadline passes in the wait.  A read or a shutdown ends here; other *)
(* calls are cancelled and wait a little longer.                           *)
TimeOut(c) ==
    /\ call[c].phase = "waiting" /\ late[c]
    /\ call[c].reply = None \/ (call[c].command = "shutdown" /\ worker[user[c]] # "gone")
    /\ IF Resolved(c) THEN ToPhase(c, "grace") ELSE Return(c, "refused", 0)
    /\ cancelled' = [cancelled EXCEPT ![c] = @ \/ call[c].command \notin {"checkpoint", "shutdown"}]
    /\ UNCHANGED <<lease, opened, threadVars, user, late, dbVars, crashes>>

GraceEnds(c) ==
    /\ call[c].phase = "grace" /\ call[c].reply = None
    /\ IF call[c].command \in Mutating THEN ToPhase(c, "record") ELSE Return(c, "unknown", 0)
    /\ UNCHANGED <<lease, opened, threadVars, user, late, cancelled, dbVars, crashes>>

(* A session turns out to have an unresolved mutation.                     *)
Unresolve(s) ==
    /\ unresolved' = [unresolved EXCEPT ![s] = TRUE]
    /\ barred' = barred \cup {c \in Caller : /\ queue[s] # None
                                             /\ queue[s].command \in Append
                                             /\ queue[s].caller = c}

(* record_mutation_outcome; the receiver is dropped as the call returns.   *)
Record(c) ==
    /\ call[c].phase = "record"
    /\ Unresolve(user[c])
    /\ Return(c, "unknown", 0)
    /\ UNCHANGED <<lease, opened, worker, handle, queue, current, user, late, cancelled,
                   dbVars, crashes>>

(* The absolute deadline of the caller's operation passes.                 *)
Expire(c) ==
    /\ ~late[c]
    /\ late' = [late EXCEPT ![c] = TRUE]
    /\ UNCHANGED <<lease, opened, threadVars, user, call, cancelled, dbVars, crashes>>

-----------------------------------------------------------------------------
(* The worker thread, run_writer.                                          *)

Admit(s, r) ==
    /\ current' = [current EXCEPT ![s] = [caller |-> r.caller, command |-> r.command,
                       sequence |-> r.sequence, outcome |-> None, usable |-> TRUE]]
    /\ worker' = [worker EXCEPT ![s] = "executing"]
    /\ UNCHANGED call

Take_Unfenced(s) ==
    /\ worker[s] = "idle" /\ queue[s] # None
    /\ queue' = [queue EXCEPT ![s] = None]
    /\ Admit(s, queue[s])
    /\ UNCHANGED <<lease, opened, handle, unresolved, barred, user, late, cancelled, dbVars, crashes>>

(* A mutation queued behind an unresolved one is rejected unexecuted.      *)
Take(s) ==
    /\ worker[s] = "idle" /\ queue[s] # None
    /\ queue' = [queue EXCEPT ![s] = None]
    /\ IF queue[s].command \in Mutating /\ unresolved[s]
       THEN Deliver(queue[s], "unknown", 0) /\ UNCHANGED <<worker, current>>
       ELSE Admit(s, queue[s])
    /\ UNCHANGED <<lease, opened, handle, unresolved, barred, user, late, cancelled, dbVars, crashes>>

Finish(s, outcome, usable) ==
    /\ current' = [current EXCEPT ![s].outcome = outcome, ![s].usable = usable]
    /\ worker' = [worker EXCEPT ![s] = "replying"]
    /\ UNCHANGED <<lease, opened, handle, queue, unresolved, barred, callVars, crashes>>

(* check_control before and during the transaction.                        *)
Controlled(c) == ~late[c] /\ ~cancelled[c]

(* The rows of a mutation.  An append must carry the next number.          *)
Applicable(r) == r.command = "append" => r.sequence = checkpoints + 1

Commit(r) ==
    /\ log' = log \cup {r.caller}
    /\ checkpoints' = IF r.command = "append" THEN checkpoints + 1 ELSE checkpoints

(* One transaction, up to the last look at the control: an error rolls it  *)
(* back.  The caller may give up between that look and the commit.         *)
ExecuteMutation(s) ==
    LET r == current[s] IN
    /\ worker[s] = "executing" /\ r.command \in Append
    /\ UNCHANGED dbVars
    /\ \/ \E outcome \in {"refused", StoreError(r.command)} : Finish(s, outcome, TRUE)
       \/ /\ Controlled(r.caller) /\ Applicable(r)
          /\ worker' = [worker EXCEPT ![s] = "committing"]
          /\ UNCHANGED <<lease, opened, handle, queue, current, unresolved, barred, callVars, crashes>>

(* Committed, or ended by an error of the commit itself, which leaves      *)
(* either.  Clearing the progress handler may fail afterwards: a review's  *)
(* receipt stands but the connection is given up, a retention's receipt is *)
(* replaced by the error of the database.                                  *)
CommitMutation(s) ==
    LET r == current[s] IN
    /\ worker[s] = "committing"
    /\ \/ /\ Commit(r)
          /\ \/ Finish(s, "ok", TRUE)
             \/ r.command = "review" /\ Finish(s, "ok", FALSE)
             \/ r.command = "apply" /\ Finish(s, StoreError(r.command), TRUE)
       \/ /\ Commit(r) \/ UNCHANGED dbVars
          /\ Finish(s, "unknown", TRUE)

(* A status read, or the checkpoint of the write-ahead log.                *)
ExecuteOther(s) ==
    LET r == current[s] IN
    /\ worker[s] = "executing" /\ r.command \in {"status", "checkpoint"}
    /\ \/ Finish(s, "refused", TRUE)
       \/ ~late[r.caller] /\ Finish(s, "ok", TRUE)
    /\ UNCHANGED dbVars

(* Breaking out of the loop drops the receiver and what is queued in it.   *)
Leave(s) ==
    /\ worker' = [worker EXCEPT ![s] = "exiting"]
    /\ current' = [current EXCEPT ![s] = None]

ExecuteShutdown(s) ==
    /\ worker[s] = "executing" /\ current[s].command = "shutdown"
    /\ Deliver(current[s], "ok", 0)
    /\ Leave(s)
    /\ queue' = [queue EXCEPT ![s] = None]
    /\ UNCHANGED <<lease, opened, handle, unresolved, barred, user, late, cancelled, dbVars, crashes>>

(* A mutation whose reply finds no receiver is unresolved as well.         *)
Reply(s) ==
    LET r == current[s] IN
    /\ worker[s] = "replying"
    /\ Deliver(r, r.outcome, checkpoints)
    /\ IF r.command \in Mutating /\ ~Reachable(r) THEN Unresolve(s)
       ELSE UNCHANGED <<unresolved, barred>>
    /\ worker' = [worker EXCEPT ![s] = IF r.usable THEN "idle" ELSE "exiting"]
    /\ queue' = [queue EXCEPT ![s] = IF r.usable THEN @ ELSE None]
    /\ current' = [current EXCEPT ![s] = None]
    /\ UNCHANGED <<lease, opened, handle, user, late, cancelled, dbVars, crashes>>

(* Every sender is gone and nothing is queued.                             *)
Disconnect(s) ==
    /\ worker[s] = "idle" /\ queue[s] = None /\ handle[s] = "dropped"
    /\ Leave(s)
    /\ UNCHANGED <<lease, opened, handle, queue, unresolved, barred, callVars, dbVars, crashes>>

(* The thread panics in the middle of a command, or of starting.  What it  *)
(* had committed stays; its callers find the sending ends gone.            *)
Panic(s) ==
    /\ worker[s] \in {"starting", "executing", "committing", "replying"}
    /\ crashes < MaxCrashes
    /\ crashes' = crashes + 1
    /\ Leave(s)
    /\ queue' = [queue EXCEPT ![s] = None]
    /\ UNCHANGED <<lease, opened, handle, unresolved, barred, callVars, dbVars>>

(* The thread ends, and with it the connection and the lease.              *)
Exit(s) ==
    /\ worker[s] = "exiting"
    /\ worker' = [worker EXCEPT ![s] = "gone"]
    /\ lease' = IF lease = s THEN 0 ELSE lease
    /\ UNCHANGED <<opened, handle, queue, current, unresolved, barred, callVars, dbVars, crashes>>

-----------------------------------------------------------------------------
(* The end of a handle.                                                    *)

(* Drop asks for shutdown if there is room and detaches the thread.        *)
DropQueue(s) == IF queue[s] = None /\ ~Ended(s)
                THEN [caller |-> None, command |-> "shutdown", sequence |-> 0]
                ELSE queue[s]

Drop_FreesLease(s) ==
    /\ handle' = [handle EXCEPT ![s] = "dropped"]
    /\ queue' = [queue EXCEPT ![s] = DropQueue(s)]
    /\ lease' = IF lease = s THEN 0 ELSE lease

Drop_KeepsSender(s) ==
    /\ handle' = [handle EXCEPT ![s] = "detached"]
    /\ queue' = [queue EXCEPT ![s] = DropQueue(s)]
    /\ UNCHANGED lease

Drop(s) ==
    /\ handle' = [handle EXCEPT ![s] = "dropped"]
    /\ queue' = [queue EXCEPT ![s] = DropQueue(s)]
    /\ UNCHANGED lease

(* A start that failed has no handle yet, only the sending end.            *)
Abandon(s) ==
    /\ handle' = [handle EXCEPT ![s] = "dropped"]
    /\ UNCHANGED <<lease, queue>>

(* The process dies: what had been committed stays, the rest is gone, and  *)
(* the operating system frees the lock.                                    *)
Crash(s) ==
    /\ worker[s] \notin {"none", "gone"} /\ crashes < MaxCrashes
    /\ crashes' = crashes + 1
    /\ worker' = [worker EXCEPT ![s] = "gone"]
    /\ handle' = [handle EXCEPT ![s] = "dropped"]
    /\ queue' = [queue EXCEPT ![s] = None]
    /\ current' = [current EXCEPT ![s] = None]
    /\ lease' = IF lease = s THEN 0 ELSE lease
    /\ call' = [c \in Caller |-> IF user[c] = s THEN NoCall ELSE call[c]]
    /\ UNCHANGED <<opened, unresolved, barred, user, late, cancelled, dbVars>>

=============================================================================
