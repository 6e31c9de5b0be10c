------------------------ MODULE LocalMutationsProofs ------------------------
(***************************************************************************)
(* Proofs about WriterWorker and LocalMutations: what becomes of a         *)
(* mutation, and what its caller is told, for every finite set of callers, *)
(* every assignment of operations to them, and any number of sessions,     *)
(* crashes and permits.                                                    *)
(***************************************************************************)
EXTENDS LocalMutations, FiniteSetTheorems, TLAPS

-----------------------------------------------------------------------------
(* The inductive invariant.                                                *)

(* Steps before the operation has sent its mutation.                       *)
Early == {"queued", "leasing", "starting", "joined", "status"}

(* The command that carries out the mutation of a caller.                  *)
MutationOf(c) == CASE kind[c] \in {"task", "thread"} -> "append"
                   [] kind[c] = "review" -> "review"
                   [] kind[c] = "retention" -> "apply"

Request == [caller : Caller \cup {None}, command : Command, sequence : Nat]

CallRecord == [phase : {"idle", "waiting", "grace", "record", "answered"},
               command : Command \cup {None}, sequence : Nat, reply : Answer \cup {None}]

Types ==
    /\ lease \in Nat /\ opened \in 0..MaxSession
    /\ worker \in [Session -> {"none", "starting", "idle", "executing", "committing",
                               "replying", "exiting", "gone"}]
    /\ handle \in [Session -> {"none", "held", "dropped"}]
    /\ queue \in [Session -> Request \cup {None}]
    /\ current \in [Session -> Taken \cup {None}]
    /\ unresolved \in [Session -> BOOLEAN] /\ barred \subseteq Caller
    /\ user \in [Caller -> 0..MaxSession]
    /\ call \in [Caller -> CallRecord]
    /\ late \in [Caller -> BOOLEAN] /\ cancelled \in [Caller -> BOOLEAN]
    /\ log \subseteq Caller /\ checkpoints \in Nat
    /\ kind \in [Caller -> Kind]
    /\ step \in [Caller -> Early \cup {"mutate", "checkpoint", "recovering", "closing",
                                       "lookup", "done", "lost"}]
    /\ result \in [Caller -> Outcome \cup {None}] /\ answer \in [Caller -> Outcome \cup {None}]
    /\ report \in [Caller -> Outcome \cup {None}] /\ response \in [Caller -> Outcome \cup {None}]
    /\ request \in [Caller -> {"none", "running", "resolving"}]
    /\ holders \subseteq Caller

(* A session's worker that has not ended holds the lease, and a caller     *)
(* past the lease is the user of one session.                              *)
SessionInv ==
    /\ lease \in 0..opened
    /\ \A s \in Session :
        /\ worker[s] = "none" <=> s > opened
        /\ worker[s] \notin {"none", "gone"} => lease = s
    /\ \A c \in Caller :
        /\ user[c] <= opened
        /\ step[c] \in {"queued", "leasing"} => user[c] = 0
        /\ step[c] \notin {"queued", "leasing", "done"} => user[c] # 0

(* A command of a session belongs to a user of the session, or is the      *)
(* shutdown its dropped handle asks for.  The worker has a command exactly *)
(* while it works on one, and a result when it replies.  Only a sweep ends *)
(* with an error that may have come after the commit.                      *)
CommandInv ==
    \A s \in Session :
        /\ queue[s] # None => \/ queue[s].caller \in Caller /\ user[queue[s].caller] = s
                              \/ queue[s].caller = None /\ queue[s].command = "shutdown"
        /\ current[s] # None => \/ current[s].caller \in Caller /\ user[current[s].caller] = s
                                \/ current[s].caller = None /\ current[s].command = "shutdown"
        /\ worker[s] \in {"executing", "committing", "replying"} <=> current[s] # None
        /\ worker[s] = "committing" => current[s].command \in Append
        /\ worker[s] = "replying" => current[s].outcome \in Outcome /\ current[s].caller # None
        /\ worker[s] = "replying" /\ current[s].outcome = "failed" => current[s].command = "apply"

(* The call a caller is in is the one its step made.                       *)
CallOK(c) ==
    /\ step[c] \in {"queued", "leasing", "joined", "done", "lost"} => call[c] = NoCall
    /\ step[c] = "starting" => call[c].command = "start"
    /\ step[c] = "status" => call[c].command = "status" /\ MutationOf(c) = "append"
    /\ step[c] \in {"mutate", "recovering"} => call[c].command = MutationOf(c)
    /\ step[c] = "checkpoint" => call[c].command = "checkpoint"
    /\ step[c] \in {"closing", "lookup"} => call[c].command = "shutdown"
    /\ call[c].phase = "answered" => call[c].reply # None

(* Where the mutation of a caller may be.                                  *)
Waiting(c, s) == queue[s] # None /\ queue[s].caller = c /\ queue[s].command \in Append

Held(c, s) == current[s] # None /\ current[s].caller = c /\ current[s].command \in Append

Undecided(c, s) == Held(c, s) /\ worker[s] \in {"executing", "committing"}

(* The mutation of a caller is not durable, and unless the caller sends it *)
(* again nothing can make it so.                                           *)
Void(c) == c \notin log /\ \A s \in Session : ~Waiting(c, s) /\ ~Undecided(c, s)

(* A mutation is sent once, is in one place at a time, and is not durable  *)
(* before it is committed.  One that is barred is never executed.          *)
AppendInv ==
    \A c \in Caller :
        /\ step[c] \in Early => c \notin log /\ \A s \in Session : ~Waiting(c, s) /\ ~Held(c, s)
        /\ \A s \in Session :
            /\ Waiting(c, s) => c \notin log /\ ~Held(c, s) /\ queue[s].command = MutationOf(c)
            /\ Held(c, s) => current[s].command = MutationOf(c)
            /\ Undecided(c, s) => c \notin log /\ c \notin barred
        /\ c \in barred => user[c] # 0 /\ unresolved[user[c]] /\ c \notin log

(* The result the worker is about to send agrees with the log.             *)
ResultInv ==
    \A s \in Session : \A c \in Caller :
        Held(c, s) /\ worker[s] = "replying" =>
            /\ current[s].outcome = "ok" => c \in log
            /\ current[s].outcome = "refused" => c \notin log

(* So does the answer a call holds, and the receipt it led to.             *)
Truthful(c, outcome) ==
    /\ outcome = "ok" => c \in log
    /\ outcome = "refused" => Void(c)

AnswerOK(c) ==
    /\ call[c].command \in Append /\ call[c].reply # None => Truthful(c, call[c].reply.outcome)
    /\ call[c].reply # None /\ call[c].reply.outcome = "failed" => call[c].command = "apply"
    /\ answer[c] = "ok" => c \in log

(* So does what the operation is going to report, what it reported, and    *)
(* what the supervisor responded.                                          *)
Permissible(c, outcome) ==
    /\ outcome = "ok" => c \in log
    /\ outcome = "refused" => \/ Void(c)
                              \/ kind[c] = "task" /\ answer[c] = "ok"
    /\ outcome = "failed" => kind[c] = "retention"

HonestOK(c) ==
    /\ Permissible(c, result[c]) /\ (result[c] = "ok" => answer[c] = "ok")
    /\ Permissible(c, report[c])
    /\ report[c] # "failed" /\ response[c] # "failed"
    /\ response[c] = "ok" => c \in log
    /\ response[c] = "refused" => Void(c)
    /\ step[c] \in Early \cup {"mutate"} => answer[c] = None /\ result[c] = None
    /\ step[c] # "done" => report[c] = None /\ response[c] \in {None, "unknown"}

(* Everything the invariant says of one caller.                            *)
CallerOK(c) == CallOK(c) /\ AnswerOK(c) /\ HonestOK(c)

CallerInv == \A c \in Caller : CallerOK(c)

(* A task that runs for a request holds a permit.                          *)
PermitInv ==
    /\ Cardinality(holders) <= Permits
    /\ \A c \in Caller : /\ Working(c) => c \in holders
                         /\ request[c] # "none" => kind[c] = "review"

(* Every checkpoint but the first is some caller's durable append.         *)
CheckpointInv == checkpoints >= 1 /\ checkpoints <= 1 + Cardinality(log)

MutationInv ==
    /\ Types
    /\ SessionInv
    /\ CommandInv
    /\ AppendInv
    /\ ResultInv
    /\ CallerInv
    /\ PermitInv
    /\ CheckpointInv

-----------------------------------------------------------------------------
(* What the helpers of the actions do to the calls and to the queue.       *)

(* A send either fails at once, with an answer that is no receipt, or puts *)
(* the command into an empty queue whose session is fit for it.            *)
LEMMA SendFacts ==
    ASSUME Types, NEW c \in Caller, user[c] # 0,
           NEW command \in Command, NEW sequence \in Nat, Send(c, command, sequence)
    PROVE  /\ user[c] \in Session
           /\ call' \in [Caller -> CallRecord] /\ queue' \in [Session -> Request \cup {None}]
           /\ \A d \in Caller \ {c} : call'[d] = call[d]
           /\ call'[c].command = command /\ call'[c].phase \in {"waiting", "answered"}
           /\ call'[c].phase = "answered" =>
                /\ call'[c].reply # None
                /\ call'[c].reply.outcome \in {"refused", "unknown", StoreError(command)}
                /\ queue' = queue
           /\ call'[c].phase = "waiting" =>
                /\ call'[c].reply = None
                /\ queue[user[c]] = None
                /\ queue' = [queue EXCEPT ![user[c]] =
                                [caller |-> c, command |-> command, sequence |-> sequence]]
                /\ ~(command \in Mutating /\ unresolved[user[c]])
           /\ UNCHANGED <<lease, opened, worker, handle, current, unresolved, barred, user, late,
                          cancelled, dbVars, crashes>>
<1> DEFINE Failed(outcome) == [phase |-> "answered", command |-> command, sequence |-> sequence,
                               reply |-> [outcome |-> outcome, sequence |-> 0]]
           Sent == [phase |-> "waiting", command |-> command, sequence |-> sequence, reply |-> None]
<1>1. user[c] \in Session
  BY WorkerAssumption DEF Types, Session
<1>2. \A outcome \in Outcome : Failed(outcome) \in CallRecord /\ Failed(outcome).reply # None
  BY WorkerAssumption DEF CallRecord, Answer
<1>3. Sent \in CallRecord
  BY DEF CallRecord
<1>4. CASE \E outcome \in {"refused", "unknown", StoreError(command)} :
            call' = [call EXCEPT ![c] = Failed(outcome)] /\ UNCHANGED queue
  <2>1. PICK outcome \in {"refused", "unknown", StoreError(command)} :
            call' = [call EXCEPT ![c] = Failed(outcome)] /\ UNCHANGED queue
    BY <1>4
  <2>2. outcome \in Outcome
    BY DEF StoreError, Outcome, Told
  <2>3. Failed(outcome) \in CallRecord /\ Failed(outcome).reply # None
    BY <1>2, <2>2
  <2>4. QED
    BY <1>1, <2>1, <2>3 DEF Types, Send
<1>5. CASE /\ queue[user[c]] = None /\ ~(command \in Mutating /\ unresolved[user[c]])
           /\ queue' = [queue EXCEPT ![user[c]] =
                            [caller |-> c, command |-> command, sequence |-> sequence]]
           /\ call' = [call EXCEPT ![c] = Sent]
  <2>1. queue' \in [Session -> Request \cup {None}]
    BY <1>1, <1>5 DEF Types, Request
  <2>2. QED
    BY <1>1, <1>3, <1>5, <2>1 DEF Types, Send
<1>6. QED
  BY <1>4, <1>5 DEF Send

(* A call that moves on keeps its command and its reply.                   *)
LEMMA ToPhaseFacts ==
    ASSUME Types, NEW c \in Caller, NEW p \in {"grace", "record", "answered"}, ToPhase(c, p)
    PROVE  /\ call' \in [Caller -> CallRecord]
           /\ \A d \in Caller \ {c} : call'[d] = call[d]
           /\ call'[c].phase = p
           /\ call'[c].command = call[c].command /\ call'[c].reply = call[c].reply
<1>1. call[c] \in CallRecord
  BY DEF Types
<1>2. /\ [call[c] EXCEPT !.phase = p] \in CallRecord
      /\ [call[c] EXCEPT !.phase = p].phase = p
      /\ [call[c] EXCEPT !.phase = p].command = call[c].command
      /\ [call[c] EXCEPT !.phase = p].reply = call[c].reply
  BY <1>1 DEF CallRecord
<1>3. call' = [call EXCEPT ![c] = [call[c] EXCEPT !.phase = p]]
  BY DEF ToPhase
<1>4. QED
  BY <1>2, <1>3 DEF Types

(* A call that returns has an answer.                                      *)
LEMMA ReturnFacts ==
    ASSUME Types, NEW c \in Caller, NEW outcome \in Outcome, Return(c, outcome, 0)
    PROVE  /\ call' \in [Caller -> CallRecord]
           /\ \A d \in Caller \ {c} : call'[d] = call[d]
           /\ call'[c].phase = "answered" /\ call'[c].command = call[c].command
           /\ call'[c].reply # None /\ call'[c].reply.outcome = outcome
<1> DEFINE reply == [outcome |-> outcome, sequence |-> 0]
           record == [call[c] EXCEPT !.phase = "answered", !.reply = reply]
<1>1. call[c] \in CallRecord
  BY DEF Types
<1>2. reply \in Answer /\ reply # None /\ reply.outcome = outcome
  BY WorkerAssumption DEF Answer
<1>3. /\ record \in CallRecord /\ record.phase = "answered"
      /\ record.command = call[c].command /\ record.reply = reply
  <2> HIDE DEF reply
  <2>1. QED BY <1>1, <1>2 DEF CallRecord
<1>4. call' = [call EXCEPT ![c] = record]
  BY DEF Return
<1>5. QED
  <2> HIDE DEF record, reply
  <2>1. QED BY <1>2, <1>3, <1>4 DEF Types

(* A reply reaches at most the call it is for, and only while that call    *)
(* still has its receiver.                                                 *)
LEMMA DeliverFacts ==
    ASSUME Types, NEW r, r.caller \in Caller \cup {None},
           NEW outcome \in Outcome, NEW sequence \in Nat, Deliver(r, outcome, sequence)
    PROVE  /\ call' \in [Caller -> CallRecord]
           /\ \A d \in Caller :
                \/ call'[d] = call[d]
                \/ /\ d = r.caller /\ call[d].command = r.command
                   /\ call[d].phase \in {"waiting", "grace", "record"}
                   /\ call'[d].phase = call[d].phase /\ call'[d].command = call[d].command
                   /\ call'[d].reply # None /\ call'[d].reply.outcome = outcome
<1> DEFINE reply == [outcome |-> outcome, sequence |-> sequence]
<1>1. CASE Reachable(r)
  <2> DEFINE c == r.caller
             record == [call[c] EXCEPT !.reply = reply]
  <2>1. /\ c \in Caller /\ call[c] \in CallRecord
        /\ call[c].phase \in {"waiting", "grace", "record"} /\ call[c].command = r.command
    BY <1>1, WorkerAssumption DEF Types, Reachable, Receiving
  <2>2. reply \in Answer /\ reply # None /\ reply.outcome = outcome
    BY WorkerAssumption DEF Answer
  <2>3. /\ record \in CallRecord /\ record.phase = call[c].phase
        /\ record.command = call[c].command /\ record.reply = reply
    <3> HIDE DEF reply
    <3>1. QED BY <2>1, <2>2 DEF CallRecord
  <2>4. call' = [call EXCEPT ![c] = record]
    BY <1>1 DEF Deliver
  <2>5. QED
    <3> HIDE DEF record, reply
    <3>1. QED BY <2>1, <2>2, <2>3, <2>4 DEF Types
<1>2. CASE ~Reachable(r)
  BY <1>2 DEF Types, Deliver
<1>3. QED
  BY <1>1, <1>2

(* The worker gets a result for the command it has.                        *)
LEMMA FinishFacts ==
    ASSUME Types, NEW s \in Session, current[s] # None,
           NEW outcome \in Outcome, NEW usable \in BOOLEAN, Finish(s, outcome, usable)
    PROVE  /\ current' \in [Session -> Taken \cup {None}]
           /\ \A t \in Session \ {s} : current'[t] = current[t]
           /\ current'[s] # None /\ current'[s].outcome = outcome
           /\ current'[s].caller = current[s].caller /\ current'[s].command = current[s].command
           /\ worker' = [worker EXCEPT ![s] = "replying"]
<1> DEFINE record == [current[s] EXCEPT !.outcome = outcome, !.usable = usable]
<1>1. current[s] \in Taken
  BY DEF Types
<1>2. /\ record \in Taken /\ record.outcome = outcome
      /\ record.caller = current[s].caller /\ record.command = current[s].command
  BY <1>1 DEF Taken
<1>3. record # None
  BY <1>2, WorkerAssumption
<1>4. current' = [current EXCEPT ![s] = record] /\ worker' = [worker EXCEPT ![s] = "replying"]
  BY DEF Finish
<1>5. QED
  <2> HIDE DEF record
  <2>1. QED BY <1>2, <1>3, <1>4 DEF Types

-----------------------------------------------------------------------------
(* What a step has to leave alone for a part of the invariant to survive.  *)

(* No mutation comes to a new place, and none that is decided becomes      *)
(* undecided.                                                              *)
PlacesShrink ==
    \A d \in Caller, t \in Session :
        /\ Waiting(d, t)' => Waiting(d, t) /\ queue'[t].command = queue[t].command
        /\ Held(d, t)' => Held(d, t) /\ current'[t].command = current[t].command
        /\ Undecided(d, t)' => Undecided(d, t)

(* Users of a session stay, unresolved sessions stay so, and no operation  *)
(* goes back to before its mutation.                                       *)
Forward ==
    /\ kind' = kind
    /\ \A d \in Caller : user[d] # 0 => user'[d] = user[d]
    /\ \A t \in Session : unresolved[t] => unresolved'[t]
    /\ \A d \in Caller : step'[d] \in Early => step[d] \in Early

(* Where nothing is sent, taken, committed or barred, what is known of the *)
(* mutations stays known, and what is void stays void.                     *)
LEMMA PlacesKept ==
    ASSUME Types, AppendInv, PlacesShrink, Forward, UNCHANGED <<log, barred>>
    PROVE  AppendInv' /\ \A d \in Caller : Void(d) => Void(d)'
<1>1. \A d \in Caller : Void(d) => Void(d)'
  BY DEF PlacesShrink, Void
<1>2. \A d \in Caller : MutationOf(d)' = MutationOf(d)
  BY DEF Forward, MutationOf
<1>3. \A d \in Caller : d \in barred => user[d] \in Session
  BY WorkerAssumption DEF AppendInv, Types, Session
<1>4. AppendInv'
  BY <1>2, <1>3 DEF AppendInv, PlacesShrink, Forward
<1>5. QED
  BY <1>1, <1>4

(* Queue, command and worker untouched: no place changes.                  *)
LEMMA PlacesUntouched ==
    ASSUME UNCHANGED <<queue, current, worker>>
    PROVE  PlacesShrink
BY DEF PlacesShrink, Waiting, Held, Undecided

(* A result the worker has already is still the one it sends.              *)
LEMMA ResultKept ==
    ASSUME ResultInv, UNCHANGED <<log, kind>>,
           \A t \in Session : worker'[t] = "replying" =>
                worker[t] = "replying" /\ current'[t] = current[t]
    PROVE  ResultInv'
BY DEF ResultInv, Held

(* A caller's operation is where it was, and nobody was told anything.     *)
Untold(c) ==
    /\ kind' = kind /\ step'[c] = step[c] /\ result'[c] = result[c] /\ answer'[c] = answer[c]
    /\ report'[c] = report[c] /\ response'[c] = response[c]

(* Durable stays durable, and void stays void.                             *)
Stable(c) == (c \in log => c \in log') /\ (Void(c) => Void(c)')

(* What a caller was told stays true while the log only grows and what is  *)
(* void stays void.                                                        *)
LEMMA HonestKept ==
    ASSUME NEW d \in Caller, HonestOK(d), Untold(d), Stable(d)
    PROVE  HonestOK(d)'
BY DEF HonestOK, Untold, Stable, Permissible

(* The answer a caller has is kept by a step that does not touch the       *)
(* caller.                                                                 *)
LEMMA AnswerKept ==
    ASSUME NEW d \in Caller, AnswerOK(d), Stable(d), kind' = kind,
           call'[d].command = call[d].command, call'[d].reply = call[d].reply,
           answer'[d] = answer[d]
    PROVE  AnswerOK(d)'
BY DEF AnswerOK, Stable, Truthful

(* What is known of a call is kept while the call and its operation's step *)
(* are.                                                                    *)
LEMMA CallKept ==
    ASSUME NEW d \in Caller, CallOK(d), kind' = kind,
           call'[d] = call[d], step'[d] = step[d]
    PROVE  CallOK(d)'
BY DEF CallOK, MutationOf

(* A caller that does nothing and whose call is untouched.                 *)
LEMMA PassiveCaller ==
    ASSUME NEW d \in Caller, CallerOK(d), Untold(d), Stable(d), call'[d] = call[d]
    PROVE  CallerOK(d)'
BY HonestKept, AnswerKept, CallKept DEF CallerOK, Untold

(* A step of one caller does not concern the others.                       *)
LEMMA OtherCallers ==
    ASSUME CallerInv, NEW c \in Caller, CallerOK(c)',
           \A d \in Caller \ {c} : Untold(d) /\ Stable(d) /\ call'[d] = call[d]
    PROVE  CallerInv'
BY PassiveCaller DEF CallerInv

-----------------------------------------------------------------------------
(* Commands that are no mutations, and the end of a handle.                *)

(* A status read, a checkpoint or a shutdown joins the queue: no mutation  *)
(* changes place.                                                          *)
LEMMA OtherSent ==
    ASSUME Types, CommandInv, NEW c \in Caller, user[c] # 0,
           NEW command \in {"status", "checkpoint", "shutdown"}, Send(c, command, 0)
    PROVE  PlacesShrink /\ CommandInv'
<1>1. command \in Command /\ command \notin Append /\ 0 \in Nat
  BY DEF Command, Mutating, Append
<1>2. /\ user[c] \in Session /\ UNCHANGED <<current, worker, user>>
      /\ \/ queue' = queue
         \/ queue' = [queue EXCEPT ![user[c]] = [caller |-> c, command |-> command, sequence |-> 0]]
  BY <1>1, SendFacts
<1>3. PlacesShrink
  BY <1>1, <1>2 DEF Types, PlacesShrink, Waiting, Held, Undecided
<1>4. CommandInv'
  BY <1>1, <1>2 DEF Types, CommandInv
<1>5. QED
  BY <1>3, <1>4

(* A caller drops its handle: what waits in the queue stays there.         *)
LEMMA DropFacts ==
    ASSUME Types, CommandInv, NEW s \in Session, Drop(s), UNCHANGED <<current, worker, user>>
    PROVE  /\ handle' \in [Session -> {"none", "held", "dropped"}]
           /\ queue' \in [Session -> Request \cup {None}]
           /\ lease' = lease /\ PlacesShrink /\ CommandInv'
<1> DEFINE request0 == [caller |-> None, command |-> "shutdown", sequence |-> 0]
<1>1. request0 \in Request /\ request0.command \notin Append
  BY DEF Request, Command, Mutating, Append
<1>2. DropQueue(s) \in {queue[s], request0}
  BY DEF DropQueue
<1>3. /\ handle' = [handle EXCEPT ![s] = "dropped"] /\ lease' = lease
      /\ queue' = [queue EXCEPT ![s] = DropQueue(s)]
  BY DEF Drop
<1>4. queue' \in [Session -> Request \cup {None}] /\ handle' \in [Session -> {"none", "held", "dropped"}]
  BY <1>1, <1>2, <1>3 DEF Types
<1>5. \A t \in Session : queue'[t] = queue[t] \/ (t = s /\ queue'[t] = request0)
  BY <1>2, <1>3 DEF Types
<1>6. PlacesShrink
  <2> HIDE DEF request0
  <2>1. QED BY <1>1, <1>5 DEF PlacesShrink, Waiting, Held, Undecided
<1>7. CommandInv'
  BY <1>5 DEF CommandInv
<1>8. QED
  BY <1>3, <1>4, <1>6, <1>7

-----------------------------------------------------------------------------
(* The steps of an operation.                                              *)

(* A step of one caller that commits nothing, takes nothing and bars       *)
(* nobody preserves the invariant if it does so for that caller.           *)
LEMMA OperationKept ==
    ASSUME MutationInv, NEW c \in Caller,
           Types', SessionInv', CommandInv', PermitInv',
           PlacesShrink, Forward, UNCHANGED <<log, barred, checkpoints>>,
           \A t \in Session : worker'[t] = "replying" =>
                worker[t] = "replying" /\ current'[t] = current[t],
           \A d \in Caller \ {c} : Untold(d) /\ call'[d] = call[d],
           Stable(c) => CallerOK(c)'
    PROVE  MutationInv'
<1>1. AppendInv' /\ \A d \in Caller : Stable(d)
  BY PlacesKept DEF MutationInv, Stable
<1>2. ResultInv'
  BY ResultKept DEF MutationInv, Forward
<1>3. CallerInv'
  BY <1>1, OtherCallers DEF MutationInv
<1>4. QED
  BY <1>1, <1>2, <1>3 DEF MutationInv, CheckpointInv

(* A caller before its mutation has not been told anything, and its        *)
(* mutation is void.                                                       *)
LEMMA EarlyFacts ==
    ASSUME MutationInv, NEW c \in Caller, step[c] \in Early
    PROVE  Void(c) /\ answer[c] = None /\ result[c] = None /\ report[c] = None
BY DEF MutationInv, AppendInv, Void, Undecided, CallerInv, CallerOK, HonestOK, Early

(* An operation past the lease uses a session.                             *)
LEMMA UserFacts ==
    ASSUME Types, SessionInv, NEW c \in Caller, step[c] \notin {"queued", "leasing", "done"}
    PROVE  user[c] # 0 /\ user[c] \in Session
<1>1. user[c] # 0
  BY DEF SessionInv
<1>2. user[c] \in 0..MaxSession
  BY DEF Types
<1>3. QED
  BY <1>1, <1>2, WorkerAssumption DEF Session

(* The permits that are held are finitely many.                            *)
LEMMA PermitsFinite ==
    ASSUME Types
    PROVE  IsFiniteSet(holders) /\ Cardinality(holders) \in Nat
BY WorkerAssumption, FS_Subset, FS_CardinalityType DEF Types

(* The end of an operation: what it reports has to be permissible, with    *)
(* the answer it has by then.                                              *)
LEMMA ReportFacts ==
    ASSUME MutationInv, NEW c \in Caller, NEW outcome \in Outcome \cup {None}, Report(c, outcome),
           step[c] # "done", log' = log, Permissible(c, outcome)', outcome # "failed", Stable(c),
           answer'[c] = "ok" => c \in log,
           \A d \in Caller \ {c} : answer'[d] = answer[d]
    PROVE  /\ call' \in [Caller -> CallRecord] /\ step' = [step EXCEPT ![c] = "done"]
           /\ result' \in [Caller -> Outcome \cup {None}]
           /\ report' \in [Caller -> Outcome \cup {None}]
           /\ response' \in [Caller -> Outcome \cup {None}]
           /\ holders' \subseteq Caller
           /\ UNCHANGED <<user, late, cancelled, kind, request>>
           /\ \A d \in Caller \ {c} : Untold(d) /\ call'[d] = call[d]
           /\ CallerOK(c)' /\ PermitInv'
<1> USE DEF MutationInv
<1>1. /\ step' = [step EXCEPT ![c] = "done"] /\ holders' = holders \ {c}
      /\ report' = [report EXCEPT ![c] = outcome] /\ result' = [result EXCEPT ![c] = None]
      /\ response' = [response EXCEPT ![c] = IF Supervised(c) THEN outcome ELSE response[c]]
      /\ call' = [call EXCEPT ![c] = NoCall]
      /\ UNCHANGED <<user, late, cancelled, kind, request>>
  BY DEF Report, GoTo, Forget
<1>2. NoCall \in CallRecord
  BY DEF NoCall, CallRecord
<1>3. /\ call' \in [Caller -> CallRecord]
      /\ result' \in [Caller -> Outcome \cup {None}]
      /\ report' \in [Caller -> Outcome \cup {None}]
      /\ response' \in [Caller -> Outcome \cup {None}]
      /\ holders' \subseteq Caller
  BY <1>1, <1>2 DEF Types
<1>4. \A d \in Caller \ {c} : Untold(d) /\ call'[d] = call[d]
  BY <1>1 DEF Types, Untold
<1>5. /\ step'[c] = "done" /\ call'[c] = NoCall /\ result'[c] = None /\ report'[c] = outcome
      /\ response'[c] = IF Supervised(c) THEN outcome ELSE response[c]
  BY <1>1 DEF Types
<1>6. CallOK(c)'
  BY <1>5, WorkerAssumption DEF CallOK, NoCall
<1>7. AnswerOK(c)'
  BY <1>5 DEF AnswerOK, NoCall
<1>8. HonestOK(c)'
  <2>1. Supervised(c) => kind[c] = "review"
    BY DEF PermitInv, Supervised
  <2>2. Supervised(c) => (outcome = "ok" => c \in log') /\ (outcome = "refused" => Void(c)')
    BY <1>1, <2>1 DEF Permissible
  <2>3. /\ (response[c] = "ok" => c \in log') /\ (response[c] = "refused" => Void(c)')
        /\ response[c] # "failed"
    BY DEF CallerInv, CallerOK, HonestOK, Stable
  <2>4. Permissible(c, result[c])'
    BY <1>5, WorkerAssumption DEF Permissible, Outcome, Told
  <2>5. QED
    BY <1>5, <2>2, <2>3, <2>4, WorkerAssumption DEF HonestOK, Early, Outcome, Told
<1>9. PermitInv'
  <2>1. Cardinality(holders') <= Permits
    BY <1>1, PermitsFinite, FS_Subset, FS_CardinalityType, MutationAssumption DEF PermitInv
  <2>2. \A d \in Caller : Working(d)' => d \in holders'
    BY <1>1 DEF Types, PermitInv, Working
  <2>3. QED
    BY <1>1, <2>1, <2>2 DEF PermitInv
<1>10. QED
  BY <1>1, <1>3, <1>4, <1>6, <1>7, <1>8, <1>9 DEF CallerOK

(* An operation that has not sent its mutation moves on: nothing has been  *)
(* said yet.                                                               *)
LEMMA EarlyMove ==
    ASSUME MutationInv, NEW c \in Caller, step[c] \in Early, step'[c] \in Early \cup {"mutate"},
           UNCHANGED <<kind, result, answer, report, response>>
    PROVE  HonestOK(c)'
<1>1. /\ answer[c] = None /\ result[c] = None /\ report[c] = None
      /\ response[c] \in {None, "unknown"}
  BY DEF MutationInv, CallerInv, CallerOK, HonestOK, Early
<1>2. QED
  BY <1>1, WorkerAssumption DEF HonestOK, Permissible, Outcome, Told

(* A request takes a permit of the operation supervisor.                   *)
LEMMA AcquirePermitStep ==
    ASSUME MutationInv, NEW c \in Caller, AcquirePermit(c)
    PROVE  MutationInv'
<1> USE DEF MutationInv, AcquirePermit, GoTo, workerVars, dbVars
<1>1. Types'
  BY DEF Types, Early
<1>2. SessionInv' /\ CommandInv'
  BY DEF Types, SessionInv, CommandInv
<1>3. PermitInv'
  <2>1. Cardinality(holders') <= Permits
    <3>1. /\ Cardinality(holders) < Permits /\ holders' = holders \cup {c}
          /\ IsFiniteSet(holders) /\ Cardinality(holders) \in Nat /\ Permits \in Nat
      BY PermitsFinite, MutationAssumption
    <3>2. Cardinality(holders \cup {c}) \in {Cardinality(holders), Cardinality(holders) + 1}
      BY <3>1, FS_AddElement
    <3>3. QED
      BY <3>1, <3>2
  <2>2. QED
    BY <2>1 DEF Types, PermitInv, Working
<1>4. PlacesShrink /\ Forward
  BY PlacesUntouched DEF Types, Forward, Early
<1>5. \A d \in Caller \ {c} : Untold(d) /\ call'[d] = call[d]
  BY DEF Types, Untold
<1>6. Stable(c) => CallerOK(c)'
  <2>1. HonestOK(c)'
    BY EarlyMove DEF Types, Early
  <2>2. QED
    BY <2>1, AnswerKept DEF Types, CallerInv, CallerOK, CallOK
<1>7. QED
  BY <1>1, <1>2, <1>3, <1>4, <1>5, <1>6, OperationKept

(* The supervisor is at its limit and refuses a request.                   *)
LEMMA RefuseRequestStep ==
    ASSUME MutationInv, NEW c \in Caller, RefuseRequest(c)
    PROVE  MutationInv'
<1> USE DEF MutationInv, RefuseRequest, GoTo, workerVars, dbVars
<1>1. Types'
  BY DEF Types, Early, Outcome, Told
<1>2. SessionInv' /\ CommandInv'
  BY DEF Types, SessionInv, CommandInv
<1>3. PermitInv'
  BY DEF Types, PermitInv, Working
<1>4. PlacesShrink /\ Forward
  BY PlacesUntouched DEF Types, Forward, Early
<1>5. \A d \in Caller \ {c} : Untold(d) /\ call'[d] = call[d]
  BY DEF Types, Untold
<1>6. Stable(c) => CallerOK(c)'
  <2>1. HAVE Stable(c)
  <2>2. Void(c)' /\ step'[c] = "done" /\ response'[c] = "refused"
    BY <2>1, EarlyFacts DEF Types, Stable, Early
  <2>3. HonestOK(c)'
    BY <2>2, EarlyFacts, WorkerAssumption DEF Types, HonestOK, Permissible, Outcome, Told, Early
  <2>4. QED
    BY <2>1, <2>2, <2>3, AnswerKept DEF Types, CallerInv, CallerOK, CallOK
<1>7. QED
  BY <1>1, <1>2, <1>3, <1>4, <1>5, <1>6, OperationKept

(* An operation acquires the mutation lease and starts its writer.         *)
LEMMA AcquireLeaseStep ==
    ASSUME MutationInv, NEW c \in Caller, AcquireLease(c)
    PROVE  MutationInv'
<1> DEFINE s == opened + 1
           started == [NoCall EXCEPT !.phase = "waiting", !.command = "start"]
<1> USE DEF MutationInv
<1>1. /\ step[c] = "leasing" /\ lease = 0 /\ s \in Session /\ lease' = s /\ opened' = s
      /\ worker' = [worker EXCEPT ![s] = "starting"] /\ handle' = [handle EXCEPT ![s] = "held"]
      /\ user' = [user EXCEPT ![c] = s] /\ call' = [call EXCEPT ![c] = started]
      /\ step' = [step EXCEPT ![c] = "starting"]
      /\ UNCHANGED <<queue, current, unresolved, barred, late, cancelled, log, checkpoints, crashes,
                     kind, report, request, holders, response, result, answer>>
  <2>2. call' = [call EXCEPT ![c] = started]
    BY DEF AcquireLease, Start
  <2>3. s \in Session
    BY WorkerAssumption DEF Types, AcquireLease, Start, Session
  <2>4. QED
    BY <2>2, <2>3 DEF AcquireLease, Start, Proceed, GoTo, Unreported, dbVars
<1>2. /\ started \in CallRecord
      /\ started.phase = "waiting" /\ started.command = "start" /\ started.reply = None
  BY DEF NoCall, CallRecord, Command, Mutating
<1>3. Types'
  <2> HIDE DEF started
  <2>1. QED BY <1>1, <1>2, WorkerAssumption DEF Types, Early, Session
<1>4. SessionInv'
  BY <1>1, WorkerAssumption DEF Types, SessionInv, Session
<1>5. worker[s] = "none" /\ user[c] = 0
  BY <1>1 DEF SessionInv, Types, Session
<1>6. CommandInv'
  <2>1. \A d \in Caller, t \in Session : user[d] = t => user'[d] = t
    BY <1>1, <1>5 DEF Types, Session
  <2>2. current[s] = None
    BY <1>1, <1>5 DEF CommandInv
  <2>3. QED
    BY <1>1, <2>1, <2>2 DEF Types, CommandInv
<1>7. PermitInv'
  BY <1>1 DEF Types, PermitInv, Working
<1>8. PlacesShrink /\ Forward
  BY <1>1, <1>5 DEF Types, PlacesShrink, Waiting, Held, Undecided, Forward, Early
<1>9. \A d \in Caller \ {c} : Untold(d) /\ call'[d] = call[d]
  BY <1>1 DEF Types, Untold
<1>10. CallerOK(c)'
  <2>1. HonestOK(c)'
    BY <1>1, EarlyMove DEF Types, Early
  <2>2. step'[c] = "starting" /\ call'[c] = started
    BY <1>1 DEF Types
  <2> HIDE DEF started
  <2>3. CallOK(c)'
    BY <1>2, <2>2 DEF CallOK
  <2>4. AnswerOK(c)'
    BY <1>1, <1>2, <2>2 DEF AnswerOK, CallerInv, CallerOK
  <2>5. QED
    BY <2>1, <2>3, <2>4 DEF CallerOK
<1>11. \A t \in Session : worker'[t] = "replying" => worker[t] = "replying" /\ current'[t] = current[t]
  BY <1>1 DEF Types
<1>12. QED
  BY <1>1, <1>3, <1>4, <1>6, <1>7, <1>8, <1>9, <1>10, <1>11, OperationKept

(* Another process holds the lease until the deadline.                     *)
LEMMA LeaseTimesOutStep ==
    ASSUME MutationInv, NEW c \in Caller, LeaseTimesOut(c)
    PROVE  MutationInv'
<1> USE DEF MutationInv, LeaseTimesOut, serverVars, threadVars, dbVars
<1>1. PlacesShrink /\ kind' = kind /\ step' = [step EXCEPT ![c] = "done"] /\ user' = user
  BY PlacesUntouched DEF Report, GoTo
<1>2. Forward
  BY <1>1 DEF Types, Forward, Early
<1>3. Stable(c)
  BY <1>1, <1>2, PlacesKept DEF Stable
<1>4. Permissible(c, "refused")'
  BY <1>3, EarlyFacts DEF Permissible, Stable, Early
<1> USE <1>4
<1>5. /\ call' \in [Caller -> CallRecord]
      /\ result' \in [Caller -> Outcome \cup {None}]
      /\ report' \in [Caller -> Outcome \cup {None}]
      /\ response' \in [Caller -> Outcome \cup {None}]
      /\ holders' \subseteq Caller
      /\ UNCHANGED <<late, cancelled, request>>
      /\ \A d \in Caller \ {c} : Untold(d) /\ call'[d] = call[d]
      /\ CallerOK(c)' /\ PermitInv'
  BY <1>3, ReportFacts, EarlyFacts, WorkerAssumption DEF Early, Outcome, Told
<1>6. Types'
  BY <1>1, <1>5 DEF Types
<1>7. SessionInv' /\ CommandInv'
  BY <1>1 DEF Types, SessionInv, CommandInv
<1>8. QED
  BY <1>1, <1>2, <1>5, <1>6, <1>7, OperationKept

(* A thread joins the store its program has open.                          *)
LEMMA ShareStoreStep ==
    ASSUME MutationInv, NEW c \in Caller, ShareStore(c)
    PROVE  MutationInv'
<1> USE DEF MutationInv
<1>1. PICK d \in Caller : user[d] # 0 /\ Join(c, user[d])
  BY DEF ShareStore
<1>2. /\ step[c] = "leasing" /\ step' = [step EXCEPT ![c] = "joined"]
      /\ user' = [user EXCEPT ![c] = user[d]]
      /\ UNCHANGED <<lease, opened, worker, handle, queue, current, unresolved, barred, call, late,
                     cancelled, log, checkpoints, crashes, kind, report, request, holders, response,
                     result, answer>>
  BY <1>1 DEF ShareStore, Join, Proceed, GoTo, Unreported, threadVars, dbVars
<1>3. Types'
  BY <1>2 DEF Types, Early
<1>4. SessionInv'
  BY <1>1, <1>2 DEF Types, SessionInv
<1>5. user[c] = 0
  BY <1>2 DEF SessionInv
<1>6. CommandInv'
  BY <1>2, <1>5, WorkerAssumption DEF Types, CommandInv, Session
<1>7. PermitInv'
  BY <1>2 DEF Types, PermitInv, Working
<1>8. PlacesShrink /\ Forward
  BY <1>2, <1>5, PlacesUntouched DEF Types, Forward, Early
<1>9. \A e \in Caller \ {c} : Untold(e) /\ call'[e] = call[e]
  BY <1>2 DEF Types, Untold
<1>10. Stable(c) => CallerOK(c)'
  <2>1. HonestOK(c)'
    BY <1>2, EarlyMove DEF Types, Early
  <2>2. QED
    BY <1>2, <2>1, AnswerKept DEF Types, CallerInv, CallerOK, CallOK
<1>11. QED
  BY <1>2, <1>3, <1>4, <1>6, <1>7, <1>8, <1>9, <1>10, OperationKept

(* A caller sends its mutation, for the first and only time.               *)
LEMMA MutationSent ==
    ASSUME MutationInv, NEW c \in Caller, step[c] \in {"starting", "joined", "status"},
           NEW sequence \in Nat, Send(c, MutationOf(c), sequence),
           Proceed(c, "mutate"), Unreported
    PROVE  MutationInv'
<1> DEFINE s == user[c]
           entry == [caller |-> c, command |-> MutationOf(c), sequence |-> sequence]
<1> USE DEF MutationInv
<1>1. user[c] # 0 /\ MutationOf(c) \in Command /\ MutationOf(c) \in Append
  BY DEF Types, SessionInv, MutationOf, Kind, Command, Mutating, Append
<1>2. /\ s \in Session
      /\ call' \in [Caller -> CallRecord] /\ queue' \in [Session -> Request \cup {None}]
      /\ \A d \in Caller \ {c} : call'[d] = call[d]
      /\ call'[c].command = MutationOf(c)
      /\ \/ /\ call'[c].phase = "answered" /\ queue' = queue
            /\ call'[c].reply # None
            /\ call'[c].reply.outcome \in {"refused", "unknown", StoreError(MutationOf(c))}
         \/ /\ call'[c].phase = "waiting" /\ call'[c].reply = None
            /\ queue' = [queue EXCEPT ![s] = entry]
      /\ UNCHANGED <<lease, opened, worker, handle, current, unresolved, barred, user, late,
                     cancelled, log, checkpoints, crashes>>
  BY <1>1, SendFacts DEF dbVars
<1>3. /\ step' = [step EXCEPT ![c] = "mutate"]
      /\ UNCHANGED <<kind, report, request, holders, response, result, answer>>
  BY DEF Proceed, GoTo, Unreported
<1>4. Types'
  BY <1>2, <1>3 DEF Types, Early
<1>5. SessionInv'
  BY <1>2, <1>3 DEF Types, SessionInv
<1>6. CommandInv'
  BY <1>2 DEF Types, CommandInv
<1>7. /\ c \notin log /\ \A t \in Session : ~Waiting(c, t) /\ ~Held(c, t)
      /\ Void(c) /\ answer[c] = None /\ result[c] = None /\ report[c] = None
  BY EarlyFacts DEF AppendInv, Early
<1>8. \A d \in Caller, t \in Session :
        /\ Held(d, t)' <=> Held(d, t)
        /\ Undecided(d, t)' <=> Undecided(d, t)
        /\ Waiting(d, t)' => \/ Waiting(d, t) /\ queue'[t] = queue[t]
                             \/ d = c /\ queue'[t].command = MutationOf(c)
        /\ queue' = queue => (Waiting(d, t)' <=> Waiting(d, t))
  BY <1>2 DEF Types, Waiting, Held, Undecided
<1>9. \A d \in Caller : MutationOf(d)' = MutationOf(d)
  BY <1>3 DEF MutationOf
<1>10. AppendInv'
  BY <1>2, <1>3, <1>7, <1>8, <1>9 DEF Types, AppendInv, Early
<1>11. \A d \in Caller \ {c} : Untold(d) /\ Stable(d)
  BY <1>2, <1>3, <1>8 DEF Types, Untold, Stable, Void
<1>12. ResultInv'
  BY <1>2, <1>3, ResultKept
<1>13. CallerOK(c)'
  <2>1. HonestOK(c)'
    BY <1>3, EarlyMove DEF Types, Early
  <2>2. CallOK(c)'
    BY <1>2, <1>3, <1>9 DEF Types, CallOK
  <2>3. call'[c].reply # None => Void(c)'
    BY <1>2, <1>7, <1>8 DEF Void
  <2>4. AnswerOK(c)'
    BY <1>2, <1>3, <1>7, <2>3, WorkerAssumption DEF AnswerOK, Truthful, StoreError, Outcome, Told
  <2>5. QED
    BY <2>1, <2>2, <2>4 DEF CallerOK
<1>14. CallerInv'
  BY <1>2, <1>11, <1>13, OtherCallers
<1>15. PermitInv' /\ CheckpointInv'
  BY <1>2, <1>3 DEF Types, PermitInv, Working, CheckpointInv
<1>16. QED
  BY <1>4, <1>5, <1>6, <1>10, <1>12, <1>14, <1>15

(* A caller sends another command.                                         *)
LEMMA CommandSent ==
    ASSUME MutationInv, NEW c \in Caller, step[c] \notin {"queued", "leasing", "done", "lost"},
           NEW command \in {"status", "checkpoint", "shutdown"}, Send(c, command, 0),
           NEW p, p = IF command = "shutdown" THEN "closing" ELSE command, Proceed(c, p),
           command = "status" => step[c] \in Early /\ MutationOf(c) = "append",
           result' \in [Caller -> Outcome \cup {None}], answer' \in [Caller -> Outcome \cup {None}],
           \A d \in Caller \ {c} : result'[d] = result[d] /\ answer'[d] = answer[d],
           answer'[c] = "ok" => c \in log,
           Stable(c) => HonestOK(c)'
    PROVE  MutationInv'
<1> USE DEF MutationInv
<1>1. user[c] # 0 /\ command \in Command /\ command \notin Append
  BY DEF SessionInv, Command, Mutating, Append
<1>2. /\ call' \in [Caller -> CallRecord] /\ queue' \in [Session -> Request \cup {None}]
      /\ \A d \in Caller \ {c} : call'[d] = call[d]
      /\ call'[c].command = command
      /\ call'[c].phase = "answered" => call'[c].reply # None
      /\ call'[c].reply # None => call'[c].reply.outcome \in {"refused", "unknown"}
      /\ UNCHANGED <<lease, opened, worker, handle, current, unresolved, barred, user, late,
                     cancelled, log, checkpoints, crashes>>
  BY <1>1, SendFacts DEF dbVars, StoreError
<1>3. step' = [step EXCEPT ![c] = p] /\ UNCHANGED <<kind, report, request, holders, response>>
  BY DEF Proceed, GoTo
<1>4. Types'
  BY <1>2, <1>3 DEF Types, Early
<1>5. SessionInv'
  BY <1>2, <1>3 DEF Types, SessionInv
<1>6. PlacesShrink /\ CommandInv'
  BY <1>1, OtherSent
<1>7. Forward
  BY <1>2, <1>3 DEF Types, Forward, Early
<1>8. \A d \in Caller \ {c} : Untold(d) /\ call'[d] = call[d]
  BY <1>2, <1>3 DEF Types, Untold
<1>9. CallOK(c)' /\ AnswerOK(c)'
  BY <1>1, <1>2, <1>3 DEF Types, CallOK, AnswerOK, MutationOf
<1>10. PermitInv'
  BY <1>3 DEF Types, PermitInv, Working
<1>11. QED
  BY <1>2, <1>4, <1>5, <1>6, <1>7, <1>8, <1>9, <1>10, OperationKept DEF CallerOK

(* An operation makes its first call of the writer.                        *)
LEMMA FirstCallStep ==
    ASSUME MutationInv, NEW c \in Caller, FirstCall(c)
    PROVE  MutationInv'
<1> USE DEF MutationInv
<1>1. /\ step[c] \in {"starting", "joined"} /\ Send(c, FirstCommand(c), 0)
      /\ Proceed(c, IF FirstCommand(c) = "status" THEN "status" ELSE "mutate") /\ Unreported
  BY DEF FirstCall
<1>2. IF FirstCommand(c) = "status" THEN MutationOf(c) = "append" ELSE MutationOf(c) = FirstCommand(c)
  BY DEF Types, Kind, FirstCommand, MutationOf
<1>3. CASE FirstCommand(c) = "status"
  <2>1. HonestOK(c)'
    BY <1>1, <1>3, EarlyMove DEF Types, Early, Proceed, GoTo, Unreported
  <2>2. UNCHANGED <<result, answer>> /\ answer[c] = None
    BY <1>1, EarlyFacts DEF Unreported, Early
  <2>3. QED
    BY <1>1, <1>2, <1>3, <2>1, <2>2, CommandSent, WorkerAssumption DEF Types, Early, Outcome, Told
<1>4. CASE FirstCommand(c) # "status"
  BY <1>1, <1>2, <1>4, MutationSent
<1>5. QED
  BY <1>3, <1>4

(* A status read is followed by the append it was made for.                *)
LEMMA AppendNextStep ==
    ASSUME MutationInv, NEW c \in Caller, AppendNext(c)
    PROVE  MutationInv'
<1>1. /\ step[c] = "status" /\ call[c].phase = "answered" /\ Send(c, "append", call[c].reply.sequence + 1)
      /\ Proceed(c, "mutate") /\ Unreported
  BY DEF AppendNext, Answered
<1>2. call[c].reply.sequence + 1 \in Nat
  BY <1>1 DEF MutationInv, Types, CallRecord, Answer, CallerInv, CallerOK, CallOK
<1>3. MutationOf(c) = "append"
  BY <1>1 DEF MutationInv, CallerInv, CallerOK, CallOK
<1>4. QED
  BY <1>1, <1>2, <1>3, MutationSent

(* An operation ends, with or without its handle.                          *)
LEMMA OperationEnds ==
    ASSUME MutationInv, NEW c \in Caller, NEW outcome \in Outcome \cup {None}, Report(c, outcome),
           step[c] # "done", PlacesShrink, CommandInv',
           handle' \in [Session -> {"none", "held", "dropped"}],
           queue' \in [Session -> Request \cup {None}],
           UNCHANGED <<lease, opened, worker, current, unresolved, barred, log, checkpoints>>,
           answer' \in [Caller -> Outcome \cup {None}],
           answer'[c] = "ok" => c \in log,
           \A d \in Caller \ {c} : answer'[d] = answer[d],
           outcome # "failed", Stable(c) => Permissible(c, outcome)'
    PROVE  MutationInv'
<1> USE DEF MutationInv
<1>1. step' = [step EXCEPT ![c] = "done"] /\ kind' = kind /\ user' = user
  BY DEF Report, GoTo
<1>2. Forward
  BY <1>1 DEF Types, Forward, Early
<1>3. Stable(c)
  BY <1>2, PlacesKept DEF Stable
<1>4. /\ call' \in [Caller -> CallRecord]
      /\ result' \in [Caller -> Outcome \cup {None}]
      /\ report' \in [Caller -> Outcome \cup {None}]
      /\ response' \in [Caller -> Outcome \cup {None}]
      /\ holders' \subseteq Caller
      /\ UNCHANGED <<late, cancelled, request>>
      /\ \A d \in Caller \ {c} : Untold(d) /\ call'[d] = call[d]
      /\ CallerOK(c)' /\ PermitInv'
  BY <1>3, ReportFacts
<1>5. Types'
  BY <1>1, <1>4 DEF Types
<1>6. SessionInv'
  BY <1>1 DEF Types, SessionInv
<1>7. QED
  BY <1>1, <1>2, <1>4, <1>5, <1>6, OperationKept

(* The same with everything but the calls left alone.                      *)
LEMMA UntouchedCommands ==
    ASSUME CommandInv, UNCHANGED <<queue, current, worker, user>>
    PROVE  CommandInv' /\ PlacesShrink
BY PlacesUntouched DEF CommandInv

(* The writer did not start: the operation fails before any mutation.      *)
LEMMA StartFailsStep ==
    ASSUME MutationInv, NEW c \in Caller, StartFails(c)
    PROVE  MutationInv'
<1> USE DEF MutationInv
<1>1. /\ step[c] = "starting" /\ call[c].phase = "answered" /\ call[c].reply.outcome # "ok"
      /\ Report(c, IF kind[c] = "retention" THEN "refused" ELSE call[c].reply.outcome)
      /\ handle' = [handle EXCEPT ![user[c]] = "dropped"] /\ user' = user
      /\ UNCHANGED <<lease, queue, opened, worker, current, unresolved, barred, log, checkpoints, answer>>
  BY DEF StartFails, Answered, Abandon, Report, dbVars
<1>2. /\ call[c].reply # None /\ call[c].command = "start"
      /\ call[c].reply.outcome \in Outcome /\ call[c].reply.outcome # "failed"
  <2>1. call[c].reply # None /\ call[c].command = "start"
    BY <1>1 DEF CallerInv, CallerOK, CallOK
  <2>2. call[c].reply.outcome \in Outcome
    BY <2>1 DEF Types, CallRecord, Answer
  <2>3. QED
    BY <2>1, <2>2 DEF CallerInv, CallerOK, AnswerOK
<1>3. PICK outcome \in Outcome : outcome \notin {"ok", "failed"} /\ Report(c, outcome)
  <2>1. CASE kind[c] = "retention"
    <3>1. Report(c, "refused") /\ "refused" \in Outcome
      BY <1>1, <2>1 DEF Outcome, Told
    <3>2. QED
      BY <3>1
  <2>2. CASE kind[c] # "retention"
    BY <1>1, <1>2, <2>2
  <2>3. QED
    BY <2>1, <2>2
<1> Void(c) /\ answer[c] = None
  BY <1>1, EarlyFacts DEF Early
<1>4. CommandInv' /\ PlacesShrink
  BY <1>1, UntouchedCommands
<1>5. Stable(c) => Permissible(c, outcome)'
  BY <1>1, <1>3 DEF Permissible, Stable
<1>6. handle' \in [Session -> {"none", "held", "dropped"}] /\ answer \in [Caller -> Outcome \cup {None}]
  BY <1>1 DEF Types
<1>7. queue \in [Session -> Request \cup {None}] /\ ~(answer[c] = "ok") /\ step[c] # "done"
  BY <1>1, WorkerAssumption DEF Types, Outcome, Told
<1>8. QED
  BY <1>1, <1>3, <1>4, <1>5, <1>6, <1>7, OperationEnds

(* The status read failed: the operation ends without an append.           *)
LEMMA StatusFailsStep ==
    ASSUME MutationInv, NEW c \in Caller, StatusFails(c)
    PROVE  MutationInv'
<1> USE DEF MutationInv
<1>1. /\ step[c] = "status" /\ Report(c, "refused") /\ user' = user
      /\ Drop(user[c]) \/ UNCHANGED <<handle, queue, lease>>
      /\ UNCHANGED <<opened, worker, current, unresolved, barred, log, checkpoints, answer>>
  BY DEF StatusFails, Report, dbVars
<1>2. Void(c) /\ answer[c] = None
  BY <1>1, EarlyFacts DEF Early
<1>3. user[c] \in Session
  BY <1>1, UserFacts
<1>4. /\ CommandInv' /\ PlacesShrink /\ lease' = lease
      /\ handle' \in [Session -> {"none", "held", "dropped"}]
      /\ queue' \in [Session -> Request \cup {None}]
  BY <1>1, <1>3, UntouchedCommands, DropFacts DEF Types
<1>5. Stable(c) => Permissible(c, "refused")'
  BY <1>1, <1>2 DEF Permissible, Stable
<1>6. /\ answer \in [Caller -> Outcome \cup {None}] /\ ~(answer[c] = "ok") /\ step[c] # "done"
      /\ "refused" \in Outcome
  BY <1>1, <1>2, WorkerAssumption DEF Types, Outcome, Told
<1>7. QED
  BY <1>1, <1>4, <1>5, <1>6, OperationEnds

(* The answer to a mutation is true.                                       *)
LEMMA MutationAnsweredFacts ==
    ASSUME MutationInv, NEW c \in Caller, MutationAnswered(c)
    PROVE  /\ step[c] = "mutate" /\ user[c] # 0
           /\ answer' = [answer EXCEPT ![c] = answer'[c]]
           /\ answer'[c] \in Outcome /\ answer' \in [Caller -> Outcome \cup {None}]
           /\ Truthful(c, answer'[c]) /\ (answer'[c] = "failed" => kind[c] = "retention")
           /\ result[c] = None /\ report[c] = None /\ response[c] \in {None, "unknown"}
<1> DEFINE outcome == call[c].reply.outcome
<1> USE DEF MutationInv
<1>1. /\ step[c] = "mutate" /\ call[c].phase = "answered"
      /\ answer' = [answer EXCEPT ![c] = outcome]
  BY DEF MutationAnswered, Answered
<1>2. call[c].reply # None /\ call[c].command = MutationOf(c)
  BY <1>1 DEF CallerInv, CallerOK, CallOK
<1>3. outcome \in Outcome
  BY <1>2 DEF Types, CallRecord, Answer
<1>4. answer'[c] = outcome /\ answer' \in [Caller -> Outcome \cup {None}]
  BY <1>1, <1>3 DEF Types
<1>5. MutationOf(c) \in Append
  BY DEF Types, MutationOf, Kind, Append
<1>6. Truthful(c, outcome) /\ (outcome = "failed" => kind[c] = "retention")
  BY <1>2, <1>5 DEF CallerInv, CallerOK, AnswerOK, MutationOf, Types, Kind
<1>7. result[c] = None /\ report[c] = None /\ response[c] \in {None, "unknown"}
  BY <1>1 DEF CallerInv, CallerOK, HonestOK
<1>8. user[c] # 0
  BY <1>1 DEF SessionInv
<1>9. QED
  <2> HIDE DEF outcome
  <2>1. QED BY <1>1, <1>3, <1>4, <1>6, <1>7, <1>8

(* A mutation has been answered, and the operation goes on to use or close *)
(* its store with a result that the answer permits.                        *)
LEMMA AnswerTaken ==
    ASSUME MutationInv, NEW c \in Caller, MutationAnswered(c), kind' = kind, log' = log,
           UNCHANGED <<report, response>>, step'[c] \in {"closing", "checkpoint", "recovering"},
           Stable(c), NEW r \in Outcome, result' = [result EXCEPT ![c] = r],
           \/ r = answer'[c]
           \/ r = "refused" /\ kind[c] = "task" /\ answer'[c] = "ok"
    PROVE  HonestOK(c)'
<1> USE DEF MutationInv
<1>1. /\ Truthful(c, answer'[c]) /\ report[c] = None /\ response[c] \in {None, "unknown"}
      /\ answer'[c] = "failed" => kind[c] = "retention"
  BY MutationAnsweredFacts
<1>2. result'[c] = r
  BY DEF Types
<1>3. Permissible(c, result[c])'
  BY <1>1, <1>2 DEF Truthful, Permissible, Stable
<1>4. Permissible(c, report[c])'
  BY <1>1, WorkerAssumption DEF Permissible, Outcome, Told
<1>5. QED
  BY <1>1, <1>2, <1>3, <1>4, WorkerAssumption DEF HonestOK, Early, Outcome, Told

(* A task has the outcome of its append and shuts its writer down.         *)
LEMMA TaskAnsweredStep ==
    ASSUME MutationInv, NEW c \in Caller, TaskAnswered(c)
    PROVE  MutationInv'
<1> USE DEF MutationInv
<1>1. /\ kind[c] = "task" /\ MutationAnswered(c)
      /\ result' = [result EXCEPT ![c] = IF answer'[c] = "ok" /\ ~Controlled(c)
                                         THEN "refused" ELSE answer'[c]]
      /\ Send(c, "shutdown", 0) /\ Proceed(c, "closing")
  BY DEF TaskAnswered
<1>2. /\ step[c] = "mutate" /\ answer'[c] \in Outcome /\ answer' \in [Caller -> Outcome \cup {None}]
      /\ answer' = [answer EXCEPT ![c] = answer'[c]] /\ Truthful(c, answer'[c])
  BY <1>1, MutationAnsweredFacts
<1>3. PICK r \in Outcome : /\ result' = [result EXCEPT ![c] = r]
                            /\ \/ r = answer'[c]
                               \/ r = "refused" /\ kind[c] = "task" /\ answer'[c] = "ok"
  BY <1>1, <1>2 DEF Outcome, Told
<1>4. UNCHANGED <<kind, report, response, log>> /\ step'[c] = "closing"
  BY <1>1 DEF Types, Proceed, GoTo, Send, dbVars
<1>5. Stable(c) => HonestOK(c)'
  BY <1>1, <1>3, <1>4, AnswerTaken
<1>6. /\ result' \in [Caller -> Outcome \cup {None}]
      /\ \A d \in Caller \ {c} : result'[d] = result[d] /\ answer'[d] = answer[d]
  BY <1>2, <1>3 DEF Types
<1>7. answer'[c] = "ok" => c \in log
  BY <1>2 DEF Truthful
<1>8. QED
  BY <1>1, <1>2, <1>5, <1>6, <1>7, CommandSent

(* A thread of a program reports the outcome of its mutation.              *)
LEMMA ThreadAnsweredStep ==
    ASSUME MutationInv, NEW c \in Caller, ThreadAnswered(c)
    PROVE  MutationInv'
<1> USE DEF MutationInv
<1>1. /\ kind[c] = "thread" /\ MutationAnswered(c) /\ Report(c, answer'[c]) /\ UNCHANGED <<user, kind>>
      /\ UNCHANGED <<lease, opened, worker, handle, queue, current, unresolved, barred, log, checkpoints>>
  BY DEF ThreadAnswered, Report, serverVars, threadVars, dbVars
<1>2. /\ step[c] = "mutate" /\ answer'[c] \in Outcome /\ answer' \in [Caller -> Outcome \cup {None}]
      /\ answer' = [answer EXCEPT ![c] = answer'[c]] /\ Truthful(c, answer'[c])
  BY <1>1, MutationAnsweredFacts
<1>3. CommandInv' /\ PlacesShrink
  BY <1>1, UntouchedCommands
<1>4. PICK outcome \in Outcome : outcome = answer'[c] /\ outcome # "failed"
  BY <1>1, <1>2, MutationAnsweredFacts
<1>5. Stable(c) => Permissible(c, outcome)'
  BY <1>1, <1>2, <1>4 DEF Permissible, Truthful, Stable
<1>6. /\ queue \in [Session -> Request \cup {None}] /\ handle \in [Session -> {"none", "held", "dropped"}]
      /\ \A d \in Caller \ {c} : answer'[d] = answer[d]
  BY <1>2 DEF Types
<1>7. QED
  BY <1>1, <1>2, <1>3, <1>4, <1>5, <1>6, OperationEnds DEF Truthful

(* A review has the outcome of its mutation: a checkpoint or the shutdown  *)
(* follows.                                                                *)
LEMMA ReviewAnsweredStep ==
    ASSUME MutationInv, NEW c \in Caller, ReviewAnswered(c)
    PROVE  MutationInv'
<1> USE DEF MutationInv
<1>1. PICK command \in {"checkpoint", "shutdown"} :
        /\ Send(c, command, 0)
        /\ Proceed(c, IF command = "shutdown" THEN "closing" ELSE command)
  BY DEF ReviewAnswered
<1>2. MutationAnswered(c) /\ result' = [result EXCEPT ![c] = answer'[c]]
  BY DEF ReviewAnswered
<1>3. /\ step[c] = "mutate" /\ answer'[c] \in Outcome /\ answer' \in [Caller -> Outcome \cup {None}]
      /\ answer' = [answer EXCEPT ![c] = answer'[c]] /\ Truthful(c, answer'[c])
  BY <1>2, MutationAnsweredFacts
<1>4. PICK r \in Outcome : r = answer'[c]
  BY <1>3
<1>5. UNCHANGED <<kind, report, response, log>> /\ step'[c] \in {"closing", "checkpoint"}
  BY <1>1 DEF Types, Proceed, GoTo, Send, dbVars
<1>6. Stable(c) => HonestOK(c)'
  BY <1>2, <1>4, <1>5, AnswerTaken
<1>7. /\ result' \in [Caller -> Outcome \cup {None}]
      /\ \A d \in Caller \ {c} : result'[d] = result[d] /\ answer'[d] = answer[d]
  BY <1>2, <1>3 DEF Types
<1>8. answer'[c] = "ok" => c \in log
  BY <1>3 DEF Truthful
<1>9. QED
  BY <1>1, <1>3, <1>6, <1>7, <1>8, CommandSent

(* The operation sends another command with its result unchanged.          *)
LEMMA ResultCarried ==
    ASSUME MutationInv, NEW c \in Caller, Send(c, "shutdown", 0),
           Proceed(c, "closing"), Unreported, step[c] \in {"checkpoint", "recovering"}
    PROVE  MutationInv'
<1> USE DEF MutationInv
<1>1. UNCHANGED <<kind, report, response, result, answer, log>> /\ step'[c] = "closing"
  BY DEF Types, Proceed, GoTo, Unreported, Send, dbVars
<1>2. HonestOK(c) /\ AnswerOK(c)
  BY DEF CallerInv, CallerOK
<1>3. Stable(c) => HonestOK(c)'
  BY <1>1, <1>2 DEF HonestOK, Permissible, Stable, Early
<1>4. answer[c] = "ok" => c \in log
  BY <1>2 DEF AnswerOK
<1>5. result \in [Caller -> Outcome \cup {None}] /\ answer \in [Caller -> Outcome \cup {None}]
  BY DEF Types
<1>6. QED
  BY <1>1, <1>3, <1>4, <1>5, CommandSent

(* The checkpoint after an append is answered; its outcome is not          *)
(* reported.                                                               *)
LEMMA CheckpointAnsweredStep ==
    ASSUME MutationInv, NEW c \in Caller, CheckpointAnswered(c)
    PROVE  MutationInv'
BY ResultCarried DEF CheckpointAnswered

(* A recovering operation goes on to shut its writer down.                 *)
LEMMA RecoveryShutdownStep ==
    ASSUME MutationInv, NEW c \in Caller, RecoveryShutdown(c)
    PROVE  MutationInv'
BY ResultCarried DEF RecoveryShutdown

(* A retention operation has the outcome of its sweep and shuts its writer *)
(* down.                                                                   *)
LEMMA RetentionAnsweredStep ==
    ASSUME MutationInv, NEW c \in Caller, RetentionAnswered(c)
    PROVE  MutationInv'
<1> USE DEF MutationInv
<1>1. MutationAnswered(c) /\ result' = [result EXCEPT ![c] = answer'[c]]
  BY DEF RetentionAnswered
<1>2. /\ step[c] = "mutate" /\ answer'[c] \in Outcome /\ answer' \in [Caller -> Outcome \cup {None}]
      /\ answer' = [answer EXCEPT ![c] = answer'[c]] /\ Truthful(c, answer'[c])
  BY <1>1, MutationAnsweredFacts
<1>3. PICK r \in Outcome : r = answer'[c]
  BY <1>2
<1>4. /\ result' \in [Caller -> Outcome \cup {None}]
      /\ \A d \in Caller \ {c} : result'[d] = result[d] /\ answer'[d] = answer[d]
  BY <1>1, <1>2 DEF Types
<1>5. answer'[c] = "ok" => c \in log
  BY <1>2 DEF Truthful
<1>6. CASE Send(c, "shutdown", 0) /\ Proceed(c, "closing")
  <2>1. UNCHANGED <<kind, report, response, log>> /\ step'[c] = "closing"
    BY <1>6 DEF Types, Proceed, GoTo, Send, dbVars
  <2>2. Stable(c) => HonestOK(c)'
    BY <1>1, <1>3, <2>1, AnswerTaken
  <2>3. QED
    BY <1>2, <1>4, <1>5, <1>6, <2>2, CommandSent
<1>7. CASE /\ Proceed(c, "recovering") /\ late' = [late EXCEPT ![c] = FALSE]
           /\ UNCHANGED <<lease, opened, threadVars, user, call, cancelled, dbVars, crashes>>
  <2>1. /\ step' = [step EXCEPT ![c] = "recovering"] /\ late' = [late EXCEPT ![c] = FALSE]
        /\ UNCHANGED <<kind, report, request, holders, response>>
        /\ UNCHANGED <<lease, opened, worker, handle, queue, current, unresolved, barred, user, call,
                       cancelled, log, checkpoints>>
    BY <1>7 DEF Proceed, GoTo, threadVars, dbVars
  <2>2. Types'
    BY <1>2, <1>4, <2>1 DEF Types
  <2>3. SessionInv'
    BY <1>2, <2>1 DEF Types, SessionInv
  <2>4. CommandInv' /\ PlacesShrink
    BY <2>1, UntouchedCommands
  <2>5. Forward
    BY <2>1 DEF Types, Forward, Early
  <2>6. \A d \in Caller \ {c} : Untold(d) /\ call'[d] = call[d]
    BY <1>4, <2>1 DEF Types, Untold
  <2>7. PermitInv'
    BY <1>2, <2>1 DEF Types, PermitInv, Working
  <2>8. Stable(c) => CallerOK(c)'
    <3>1. HAVE Stable(c)
    <3>2. step'[c] = "recovering" /\ CallerOK(c)
      BY <2>1 DEF Types, CallerInv
    <3>3. HonestOK(c)'
      BY <1>1, <1>3, <2>1, <3>1, <3>2, AnswerTaken
    <3>4. CallOK(c)'
      BY <1>2, <2>1, <3>2 DEF CallerOK, CallOK, MutationOf
    <3>5. AnswerOK(c)'
      BY <1>5, <2>1, <3>1, <3>2 DEF CallerOK, AnswerOK, Truthful, Stable
    <3>6. QED
      BY <3>3, <3>4, <3>5 DEF CallerOK
  <2>9. QED
    BY <2>1, <2>2, <2>3, <2>4, <2>5, <2>6, <2>7, <2>8, OperationKept
<1>8. QED
  BY <1>6, <1>7 DEF RetentionAnswered

(* An operation closes its session and reports.                            *)
LEMMA CloseStep ==
    ASSUME MutationInv, NEW c \in Caller, Close(c)
    PROVE  MutationInv'
<1> USE DEF MutationInv
<1>1. /\ step[c] = "closing" /\ call[c].phase = "answered" /\ Drop(user[c])
      /\ UNCHANGED <<opened, worker, current, unresolved, barred, log, checkpoints, crashes, answer>>
  BY DEF Close, Answered, dbVars
<1>2. user' = user
  BY DEF Close, Report, callVars
<1>3. user[c] \in Session
  BY <1>1, UserFacts
<1>4. /\ CommandInv' /\ PlacesShrink /\ lease' = lease
      /\ handle' \in [Session -> {"none", "held", "dropped"}]
      /\ queue' \in [Session -> Request \cup {None}]
  BY <1>1, <1>2, <1>3, DropFacts
<1>5. /\ CallerOK(c) /\ step[c] # "done" /\ (answer[c] = "ok" => c \in log)
      /\ answer \in [Caller -> Outcome \cup {None}]
  BY <1>1 DEF Types, CallerInv, CallerOK, AnswerOK
<1>6. CASE kind[c] = "retention" /\ result[c] # "ok"
  <2>1. /\ step' = [step EXCEPT ![c] = "lookup"]
        /\ UNCHANGED <<kind, report, request, holders, response, result, call, late, cancelled>>
    BY <1>6 DEF Close, Proceed, GoTo, callVars
  <2>2. Types'
    BY <1>1, <1>2, <1>4, <2>1 DEF Types
  <2>3. SessionInv'
    BY <1>1, <1>2, <1>4, <2>1 DEF Types, SessionInv
  <2>4. Forward
    BY <1>1, <1>2, <2>1 DEF Types, Forward, Early
  <2>5. \A d \in Caller \ {c} : Untold(d) /\ call'[d] = call[d]
    BY <1>1, <2>1 DEF Types, Untold
  <2>6. PermitInv'
    BY <1>1, <2>1 DEF Types, PermitInv, Working
  <2>7. Stable(c) => CallerOK(c)'
    <3>1. HAVE Stable(c)
    <3>2. step'[c] = "lookup" /\ CallOK(c) /\ AnswerOK(c) /\ HonestOK(c)
      BY <1>5, <2>1 DEF Types, CallerOK
    <3>3. AnswerOK(c)' /\ CallOK(c)'
      BY <1>1, <2>1, <3>1, <3>2, AnswerKept DEF CallOK
    <3>4. HonestOK(c)'
      BY <1>1, <2>1, <3>1, <3>2 DEF HonestOK, Permissible, Stable, Early
    <3>5. QED
      BY <3>3, <3>4 DEF CallerOK
  <2>8. QED
    BY <1>1, <1>4, <2>1, <2>2, <2>3, <2>4, <2>5, <2>6, <2>7, OperationKept
<1>7. CASE kind[c] = "task" /\ result[c] = "ok"
  <2>1. Report(c, call[c].reply.outcome) /\ kind' = kind
    BY <1>7 DEF Close, Report
  <2>2. PICK outcome \in Outcome : outcome = call[c].reply.outcome /\ outcome # "failed"
    <3>1. call[c].reply # None /\ call[c].command = "shutdown"
      BY <1>1, <1>5 DEF CallerOK, CallOK
    <3>2. call[c].reply.outcome \in Outcome
      BY <3>1 DEF Types, CallRecord, Answer
    <3>3. QED
      BY <1>5, <3>1, <3>2 DEF CallerOK, AnswerOK
  <2>3. answer[c] = "ok"
    BY <1>5, <1>7 DEF CallerOK, HonestOK
  <2>4. Permissible(c, outcome)'
    BY <1>1, <1>5, <1>7, <2>1, <2>2, <2>3 DEF Permissible
  <2>5. QED
    BY <1>1, <1>4, <1>5, <2>1, <2>2, <2>4, OperationEnds
<1>8. CASE ~(kind[c] = "retention" /\ result[c] # "ok") /\ ~(kind[c] = "task" /\ result[c] = "ok")
  <2>1. Report(c, result[c]) /\ kind' = kind
    BY <1>8 DEF Close, Report
  <2>2. PICK outcome \in Outcome \cup {None} : outcome = result[c] /\ outcome # "failed"
    <3>1. result[c] = "failed" => kind[c] = "retention"
      BY <1>5 DEF CallerOK, HonestOK, Permissible
    <3>2. QED
      BY <1>8, <3>1 DEF Types
  <2>3. Stable(c) => Permissible(c, outcome)'
    BY <1>1, <1>5, <2>1, <2>2 DEF Permissible, Stable, CallerOK, HonestOK
  <2>4. QED
    BY <1>1, <1>4, <1>5, <2>1, <2>2, <2>3, OperationEnds
<1>9. QED
  BY <1>6, <1>7, <1>8

(* A retention operation looks its outcome up in the store.                *)
LEMMA LookupStep ==
    ASSUME MutationInv, NEW c \in Caller, Lookup(c)
    PROVE  MutationInv'
<1> USE DEF MutationInv
<1>1. /\ step[c] = "lookup" /\ kind' = kind /\ user' = user
      /\ UNCHANGED <<lease, opened, worker, handle, queue, current, unresolved, barred, log,
                     checkpoints, answer>>
  BY DEF Lookup, Report, serverVars, threadVars, dbVars
<1>2. PICK outcome \in Outcome \cup {None} :
        /\ Report(c, outcome) /\ outcome # "failed"
        /\ outcome \in {result[c], "unknown"} \/ (outcome = "ok" /\ c \in log)
  <2>1. CASE c \in log /\ Report(c, "ok")
    <3>1. "ok" \in Outcome
      BY DEF Outcome, Told
    <3>2. QED
      BY <2>1, <3>1
  <2>2. CASE Report(c, MapApplyError(result[c]))
    <3>1. /\ MapApplyError(result[c]) \in Outcome \cup {None} /\ MapApplyError(result[c]) # "failed"
          /\ MapApplyError(result[c]) \in {result[c], "unknown"}
      BY DEF Types, MapApplyError, Outcome, Told
    <3>2. QED
      BY <2>2, <3>1
  <2>3. QED
    BY <2>1, <2>2 DEF Lookup
<1>3. /\ CallerOK(c) /\ (answer[c] = "ok" => c \in log) /\ answer \in [Caller -> Outcome \cup {None}]
      /\ handle \in [Session -> {"none", "held", "dropped"}]
      /\ queue \in [Session -> Request \cup {None}]
  BY DEF Types, CallerInv, CallerOK, AnswerOK
<1>4. CommandInv' /\ PlacesShrink
  BY <1>1, UntouchedCommands
<1>5. Stable(c) => Permissible(c, outcome)'
  BY <1>1, <1>2, <1>3 DEF Permissible, Stable, CallerOK, HonestOK
<1>6. QED
  BY <1>1, <1>2, <1>3, <1>4, <1>5, OperationEnds

-----------------------------------------------------------------------------
(* The rest of a call, and the supervisor.                                 *)

(* A step that only moves a call on, and may cancel it, preserves the      *)
(* invariant if the command stays and the reply of a mutation does, too.   *)
LEMMA CallProgress ==
    ASSUME MutationInv, NEW c \in Caller, UNCHANGED mutationVars,
           call[c].phase \in {"waiting", "grace", "record"},
           call' \in [Caller -> CallRecord], \A d \in Caller \ {c} : call'[d] = call[d],
           call'[c].command = call[c].command,
           call'[c].phase = "answered" => call'[c].reply # None,
           \/ call'[c].reply = call[c].reply
           \/ call[c].command \notin Append /\ call'[c].reply.outcome # "failed"
           \/ call'[c].reply.outcome = "unknown",
           cancelled' \in [Caller -> BOOLEAN],
           UNCHANGED <<lease, opened, worker, handle, queue, current, unresolved, barred, user, late,
                       log, checkpoints, crashes>>
    PROVE  MutationInv'
<1> USE DEF MutationInv
<1>1. UNCHANGED <<kind, step, result, answer, report, request, holders, response>>
  BY DEF mutationVars
<1>2. Types'
  BY <1>1 DEF Types
<1>3. SessionInv' /\ PermitInv'
  BY <1>1 DEF SessionInv, PermitInv, Working
<1>4. CommandInv' /\ PlacesShrink
  BY UntouchedCommands
<1>5. Forward /\ \A d \in Caller : Untold(d)
  BY <1>1 DEF Forward, Untold
<1>6. Stable(c) => CallerOK(c)'
  <2>1. HAVE Stable(c)
  <2>2. CallOK(c) /\ AnswerOK(c) /\ HonestOK(c)
    BY DEF CallerInv, CallerOK
  <2>3. HonestOK(c)'
    BY <1>5, <2>1, <2>2, HonestKept
  <2>4. CallOK(c)'
    <3>1. call[c] # NoCall
      BY DEF NoCall
    <3>2. MutationOf(c)' = MutationOf(c)
      BY <1>1 DEF MutationOf
    <3>3. QED
      BY <1>1, <2>2, <3>1, <3>2 DEF CallOK
  <2>5. AnswerOK(c)'
    BY <1>1, <2>1, <2>2 DEF AnswerOK, Truthful, Stable
  <2>6. QED
    BY <2>3, <2>4, <2>5 DEF CallerOK
<1>7. QED
  BY <1>2, <1>3, <1>4, <1>5, <1>6, OperationKept

(* A caller receives the reply of the worker.                              *)
LEMMA ReceiveStep ==
    ASSUME MutationInv, NEW c \in Caller, Receive(c), UNCHANGED mutationVars
    PROVE  MutationInv'
<1>1. PICK p \in {"record", "answered"} : ToPhase(c, p)
  BY DEF Receive
<1>2. QED
  BY <1>1, ToPhaseFacts, CallProgress DEF MutationInv, Types, Receive, threadVars, dbVars

(* Only a mutation is not resolved when its wait ends without an answer.   *)
LEMMA CallEnds ==
    ASSUME MutationInv, NEW c \in Caller, call[c].phase \in {"waiting", "grace"},
           UNCHANGED mutationVars, cancelled' \in [Caller -> BOOLEAN],
           UNCHANGED <<lease, opened, worker, handle, queue, current, unresolved, barred, user, late,
                       log, checkpoints, crashes>>,
           \/ ToPhase(c, "grace") \/ ToPhase(c, "record")
           \/ /\ call[c].command \notin Append
              /\ Return(c, "unknown", 0) \/ Return(c, "refused", 0)
    PROVE  MutationInv'
<1>1. CASE ToPhase(c, "grace") \/ ToPhase(c, "record")
  <2>1. PICK p \in {"grace", "record"} : ToPhase(c, p)
    BY <1>1
  <2>2. QED
    BY <2>1, ToPhaseFacts, CallProgress DEF MutationInv
<1>2. CASE /\ call[c].command \notin Append
           /\ Return(c, "unknown", 0) \/ Return(c, "refused", 0)
  <2>1. PICK outcome \in Outcome : outcome # "failed" /\ Return(c, outcome, 0)
    <3>1. {"unknown", "refused"} \subseteq Outcome
      BY DEF Outcome, Told
    <3>2. QED
      BY <1>2, <3>1
  <2>2. QED
    BY <1>2, <2>1, ReturnFacts, CallProgress DEF MutationInv
<1>3. QED
  BY <1>1, <1>2

(* A caller's wait ends because the worker is gone.                        *)
LEMMA DisconnectedStep ==
    ASSUME MutationInv, NEW c \in Caller, Disconnected(c), UNCHANGED mutationVars
    PROVE  MutationInv'
BY CallEnds DEF MutationInv, Types, Disconnected, threadVars, dbVars, Mutating

(* A caller's wait ends at the end of the grace period.                    *)
LEMMA GraceEndsStep ==
    ASSUME MutationInv, NEW c \in Caller, GraceEnds(c), UNCHANGED mutationVars
    PROVE  MutationInv'
BY CallEnds DEF MutationInv, Types, GraceEnds, threadVars, dbVars, Mutating

(* A caller's wait ends at its deadline.                                   *)
LEMMA TimeOutStep ==
    ASSUME MutationInv, NEW c \in Caller, TimeOut(c), UNCHANGED mutationVars
    PROVE  MutationInv'
BY CallEnds DEF MutationInv, Types, TimeOut, Resolved, threadVars, dbVars, Mutating

(* A deadline passes while the caller waits.                               *)
LEMMA TimePassesStep ==
    ASSUME MutationInv, NEW c \in Caller, TimePasses(c)
    PROVE  MutationInv'
<1> USE DEF MutationInv
<1>1. /\ late' \in [Caller -> BOOLEAN]
      /\ UNCHANGED <<kind, step, result, answer, report, request, holders, response>>
      /\ UNCHANGED <<lease, opened, worker, handle, queue, current, unresolved, barred, user, call,
                     cancelled, log, checkpoints>>
  BY DEF Types, TimePasses, Expire, mutationVars, threadVars, dbVars
<1>2. Types' /\ SessionInv' /\ PermitInv'
  BY <1>1 DEF Types, SessionInv, PermitInv, Working
<1>3. CommandInv' /\ PlacesShrink
  BY <1>1, UntouchedCommands
<1>4. Forward /\ \A d \in Caller : Untold(d) /\ call'[d] = call[d]
  BY <1>1 DEF Forward, Untold
<1>5. Stable(c) => CallerOK(c)'
  BY <1>4, PassiveCaller DEF CallerInv
<1>6. QED
  BY <1>1, <1>2, <1>3, <1>4, <1>5, OperationKept

(* The supervisor cancels the operation of a request that is running.      *)
LEMMA InterruptStep ==
    ASSUME MutationInv, NEW c \in Caller, Interrupt(c)
    PROVE  MutationInv'
<1> USE DEF MutationInv
<1>1. /\ request' = [request EXCEPT ![c] = "resolving"] /\ cancelled' = [cancelled EXCEPT ![c] = TRUE]
      /\ request[c] = "running"
      /\ UNCHANGED <<kind, step, result, answer, report, holders, response>>
      /\ UNCHANGED <<lease, opened, worker, handle, queue, current, unresolved, barred, user, call,
                     late, log, checkpoints>>
  BY DEF Interrupt, threadVars, dbVars
<1>2. Types' /\ SessionInv' /\ PermitInv'
  BY <1>1 DEF Types, SessionInv, PermitInv, Working
<1>3. CommandInv' /\ PlacesShrink
  BY <1>1, UntouchedCommands
<1>4. Forward /\ \A d \in Caller : Untold(d) /\ call'[d] = call[d]
  BY <1>1 DEF Forward, Untold
<1>5. Stable(c) => CallerOK(c)'
  BY <1>4, PassiveCaller DEF CallerInv
<1>6. QED
  BY <1>1, <1>2, <1>3, <1>4, <1>5, OperationKept

(* The resolution interval ends before the operation does.                 *)
LEMMA GiveUpStep ==
    ASSUME MutationInv, NEW c \in Caller, GiveUp(c)
    PROVE  MutationInv'
<1> USE DEF MutationInv
<1>1. /\ response' = [response EXCEPT ![c] = "unknown"]
      /\ UNCHANGED <<kind, step, result, answer, report, holders, request>>
      /\ UNCHANGED <<lease, opened, worker, handle, queue, current, unresolved, barred, user, call,
                     late, cancelled, log, checkpoints>>
  BY DEF GiveUp, workerVars
<1>2. Types' /\ SessionInv' /\ PermitInv'
  BY <1>1 DEF Types, SessionInv, PermitInv, Working, Outcome, Told
<1>3. CommandInv' /\ PlacesShrink
  BY <1>1, UntouchedCommands
<1>4. Forward /\ \A d \in Caller \ {c} : Untold(d) /\ call'[d] = call[d]
  BY <1>1 DEF Types, Forward, Untold
<1>5. Stable(c) => CallerOK(c)'
  <2>1. HAVE Stable(c)
  <2>2. response'[c] = "unknown" /\ CallerOK(c)
    BY <1>1 DEF Types, CallerInv
  <2>3. HonestOK(c)'
    BY <1>1, <2>1, <2>2 DEF CallerOK, HonestOK, Permissible, Stable
  <2>4. QED
    BY <1>1, <2>1, <2>2, <2>3, CallKept, AnswerKept DEF CallerOK
<1>6. QED
  BY <1>1, <1>2, <1>3, <1>4, <1>5, OperationKept

-----------------------------------------------------------------------------
(* The steps of the worker.                                                *)

(* Commands only leave their places and the log is unchanged: what is void *)
(* stays void.                                                             *)
LEMMA VoidKept ==
    ASSUME PlacesShrink, log' = log, NEW d \in Caller
    PROVE  Stable(d)
BY DEF PlacesShrink, Void, Stable

(* What callers know is preserved by a step that gives them at most a      *)
(* reply, if the reply to a mutation is true after the step.               *)
LEMMA CallersReplied ==
    ASSUME MutationInv, UNCHANGED mutationVars, \A d \in Caller : Stable(d),
           NEW r, r.caller \in Caller \cup {None},
           NEW outcome \in Outcome, NEW sequence \in Nat, Deliver(r, outcome, sequence),
           \A d \in Caller : d = r.caller /\ r.command \in Append => Truthful(d, outcome)',
           outcome = "failed" => r.command = "apply"
    PROVE  CallerInv' /\ call' \in [Caller -> CallRecord]
<1> USE DEF MutationInv
<1>1. /\ call' \in [Caller -> CallRecord]
      /\ \A d \in Caller :
           \/ call'[d] = call[d]
           \/ /\ d = r.caller /\ call[d].command = r.command
              /\ call[d].phase \in {"waiting", "grace", "record"}
              /\ call'[d].phase = call[d].phase /\ call'[d].command = call[d].command
              /\ call'[d].reply # None /\ call'[d].reply.outcome = outcome
  BY DeliverFacts
<1>2. \A d \in Caller : Untold(d)
  BY DEF mutationVars, Untold
<1>3. ASSUME NEW d \in Caller
      PROVE  CallerOK(d)'
  <2>1. CallOK(d) /\ AnswerOK(d) /\ HonestOK(d) /\ Stable(d) /\ Untold(d)
    BY <1>2 DEF CallerInv, CallerOK
  <2>2. CASE call'[d] = call[d]
    BY <2>1, <2>2, PassiveCaller DEF CallerInv
  <2>3. CASE call'[d] # call[d]
    <3>1. /\ d = r.caller /\ call[d].command = r.command /\ call[d] # NoCall
          /\ call'[d].phase = call[d].phase /\ call'[d].command = call[d].command
          /\ call'[d].phase # "answered"
          /\ call'[d].reply # None /\ call'[d].reply.outcome = outcome
      BY <1>1, <2>3 DEF NoCall
    <3>2. HonestOK(d)'
      BY <2>1, HonestKept
    <3>3. CallOK(d)'
      BY <2>1, <3>1 DEF CallOK, MutationOf, Untold
    <3>4. AnswerOK(d)'
      <4>1. call[d].command \in Append => (outcome = "ok" => d \in log') /\ 
                (outcome = "refused" => Void(d)')
        BY <3>1 DEF Truthful
      <4>2. answer'[d] = "ok" => d \in log'
        BY <2>1 DEF AnswerOK, Untold, Stable
      <4>3. QED
        BY <3>1, <4>1, <4>2 DEF AnswerOK, Truthful
    <3>5. QED
      BY <3>2, <3>3, <3>4 DEF CallerOK
  <2>4. QED
    BY <2>2, <2>3
<1>4. QED
  BY <1>1, <1>3 DEF CallerInv

(* A step of a worker that touches no call.                                *)
LEMMA CallersUntouched ==
    ASSUME MutationInv, UNCHANGED mutationVars, call' = call, \A d \in Caller : Stable(d)
    PROVE  CallerInv' /\ call' \in [Caller -> CallRecord]
<1>1. \A d \in Caller : Untold(d)
  BY DEF mutationVars, Untold
<1>2. QED
  BY <1>1, PassiveCaller DEF MutationInv, Types, CallerInv

(* A step of the worker takes and returns no permit.                       *)
LEMMA PermitsUntouched ==
    ASSUME PermitInv, UNCHANGED mutationVars
    PROVE  PermitInv'
BY DEF PermitInv, Working, mutationVars

(* A session becomes unresolved: the mutation that waits in its queue, if  *)
(* any, is the only one that is barred, and it is not the one being        *)
(* executed.                                                               *)
LEMMA UnresolveKept ==
    ASSUME MutationInv, NEW s \in Session, Unresolve(s), PlacesShrink,
           UNCHANGED mutationVars, UNCHANGED <<log, user>>
    PROVE  /\ AppendInv' /\ unresolved' \in [Session -> BOOLEAN] /\ barred' \subseteq Caller
<1> USE DEF MutationInv
<1>1. /\ unresolved' = [unresolved EXCEPT ![s] = TRUE]
      /\ barred' = barred \cup {d \in Caller : Waiting(d, s)}
  BY DEF Unresolve, Waiting
<1>2. unresolved' \in [Session -> BOOLEAN] /\ barred' \subseteq Caller
  BY <1>1 DEF Types
<1>3. \A d \in Caller : MutationOf(d)' = MutationOf(d) /\ step'[d] = step[d]
  BY DEF mutationVars, MutationOf
<1>4. \A d \in Caller : Waiting(d, s) => user[d] = s /\ d \notin log
  BY WorkerAssumption DEF CommandInv, AppendInv, Waiting
<1>5. \A d \in Caller, t \in Session : Waiting(d, s) => ~Undecided(d, t)
  <2> SUFFICES ASSUME NEW d \in Caller, NEW t \in Session, Waiting(d, s), Undecided(d, t)
               PROVE  FALSE
    OBVIOUS
  <2>1. Held(d, t) /\ user[d] = t
    BY WorkerAssumption DEF CommandInv, Undecided, Held
  <2>2. QED
    BY <1>4, <2>1 DEF AppendInv
<1>6. s # 0 /\ \A d \in Caller : d \in barred => user[d] \in Session
  BY WorkerAssumption DEF Types, AppendInv, Session
<1>7. \A d \in Caller : d \in barred' => user'[d] # 0 /\ unresolved'[user'[d]] /\ d \notin log'
  BY <1>1, <1>4, <1>6 DEF Types, AppendInv
<1>8. AppendInv'
  BY <1>1, <1>3, <1>5, <1>7 DEF AppendInv, PlacesShrink
<1>9. QED
  BY <1>2, <1>8

(* A caller records that the outcome of its session is unresolved.         *)
LEMMA RecordStep ==
    ASSUME MutationInv, NEW c \in Caller, Record(c), UNCHANGED mutationVars
    PROVE  MutationInv'
<1> USE DEF MutationInv
<1>1. /\ call[c].phase = "record" /\ Unresolve(user[c]) /\ Return(c, "unknown", 0)
      /\ UNCHANGED <<lease, opened, worker, handle, queue, current, user, late, cancelled, log,
                     checkpoints>>
      /\ UNCHANGED <<kind, step, result, answer, report, request, holders, response>>
  BY DEF Record, dbVars, mutationVars
<1>2. CallOK(c) /\ AnswerOK(c) /\ HonestOK(c)
  BY DEF CallerInv, CallerOK
<1>3. step[c] \notin {"queued", "leasing", "done"}
  BY <1>1, <1>2 DEF CallOK, NoCall
<1>4. user[c] \in Session
  BY <1>3, UserFacts
<1>5. CommandInv' /\ PlacesShrink
  BY <1>1, UntouchedCommands
<1>6. AppendInv' /\ unresolved' \in [Session -> BOOLEAN] /\ barred' \subseteq Caller
  BY <1>1, <1>4, <1>5, UnresolveKept
<1>7. /\ call' \in [Caller -> CallRecord]
      /\ \A d \in Caller \ {c} : call'[d] = call[d]
      /\ call'[c].phase = "answered" /\ call'[c].command = call[c].command
      /\ call'[c].reply # None /\ call'[c].reply.outcome = "unknown"
  BY <1>1, ReturnFacts DEF Outcome, Told
<1>8. Types' /\ SessionInv'
  BY <1>1, <1>6, <1>7 DEF Types, SessionInv
<1>9. ResultInv' /\ PermitInv' /\ CheckpointInv'
  BY <1>1, ResultKept, PermitsUntouched DEF CheckpointInv
<1>10. \A d \in Caller : Untold(d) /\ Stable(d)
  BY <1>1, <1>5, VoidKept DEF Untold
<1>11. CallerOK(c)'
  <2>1. HonestOK(c)'
    BY <1>2, <1>10, HonestKept
  <2>2. call[c] # NoCall
    BY <1>1 DEF NoCall
  <2>3. CallOK(c)'
    BY <1>1, <1>2, <1>7, <2>2 DEF CallOK, MutationOf
  <2>4. AnswerOK(c)'
    BY <1>1, <1>2, <1>7 DEF AnswerOK, Truthful
  <2>5. QED
    BY <2>1, <2>3, <2>4 DEF CallerOK
<1>12. CallerInv'
  BY <1>7, <1>10, <1>11, OtherCallers
<1>13. QED
  BY <1>5, <1>6, <1>8, <1>9, <1>12

(* The worker opens the store or fails to.                                 *)
LEMMA StartupStep ==
    ASSUME MutationInv, NEW s \in Session, NEW outcome \in Outcome, Startup(s, outcome),
           UNCHANGED mutationVars
    PROVE  MutationInv'
<1> USE DEF MutationInv
<1>1. PICK c \in Caller :
        /\ Deliver([caller |-> c, command |-> "start"], outcome, 0)
        /\ \/ worker' = [worker EXCEPT ![s] = "idle"]
           \/ worker' = [worker EXCEPT ![s] = "exiting"]
  BY DEF Startup
<1>2. /\ worker[s] = "starting"
      /\ UNCHANGED <<lease, opened, handle, queue, current, unresolved, barred, user, late, cancelled,
                     log, checkpoints>>
  BY DEF Startup, dbVars
<1>3. PlacesShrink
  BY <1>1, <1>2 DEF Types, PlacesShrink, Waiting, Held, Undecided
<1>4. Forward
  BY <1>2 DEF Forward, mutationVars
<1>5. AppendInv' /\ \A d \in Caller : Stable(d)
  BY <1>2, <1>3, <1>4, PlacesKept, VoidKept
<1>6. CallerInv' /\ call' \in [Caller -> CallRecord]
  <2> DEFINE r == [caller |-> c, command |-> "start"]
  <2>1. r.caller = c /\ r.command \notin Append /\ Deliver(r, outcome, 0) /\ outcome # "failed"
    BY <1>1 DEF Append, Startup, Told
  <2> HIDE DEF r
  <2>2. QED
    BY <1>5, <2>1, CallersReplied
<1>7. Types'
  BY <1>1, <1>2, <1>6 DEF Types, mutationVars
<1>8. SessionInv'
  BY <1>1, <1>2 DEF Types, SessionInv, mutationVars
<1>9. CommandInv'
  BY <1>1, <1>2 DEF Types, CommandInv
<1>10. ResultInv' /\ PermitInv' /\ CheckpointInv'
  BY <1>1, <1>2, ResultKept, PermitsUntouched DEF Types, CheckpointInv, mutationVars
<1>11. QED
  BY <1>5, <1>6, <1>7, <1>8, <1>9, <1>10

(* The worker takes a command: what was queued is executed or rejected.    *)
LEMMA TakeStep ==
    ASSUME MutationInv, NEW s \in Session, Take(s), UNCHANGED mutationVars
    PROVE  MutationInv'
<1> USE DEF MutationInv
<1>1. /\ worker[s] = "idle" /\ queue[s] # None /\ queue' = [queue EXCEPT ![s] = None]
      /\ UNCHANGED <<lease, opened, handle, unresolved, barred, user, late, cancelled, log, checkpoints>>
  BY DEF Take, dbVars
<1>2. /\ queue[s] \in Request /\ queue[s].caller \in Caller \cup {None}
      /\ queue' \in [Session -> Request \cup {None}]
  BY <1>1 DEF Types, Request
<1>3. PermitInv' /\ CheckpointInv'
  BY <1>1, PermitsUntouched DEF CheckpointInv
<1>4. CASE Deliver(queue[s], "unknown", 0) /\ UNCHANGED <<worker, current>>
  <2>1. PlacesShrink
    BY <1>1, <1>4 DEF Types, PlacesShrink, Waiting, Held, Undecided
  <2>2. Forward
    BY <1>1 DEF Forward, mutationVars
  <2>3. AppendInv' /\ \A d \in Caller : Stable(d)
    BY <1>1, <2>1, <2>2, PlacesKept, VoidKept
  <2>4. CallerInv' /\ call' \in [Caller -> CallRecord]
    <3>1. PICK r : r = queue[s]
      OBVIOUS
    <3>2. \A d \in Caller : Truthful(d, "unknown")'
      BY DEF Truthful
    <3>3. QED
      BY <1>2, <1>4, <2>3, <3>1, <3>2, CallersReplied DEF Outcome, Told
  <2>5. Types'
    BY <1>1, <1>2, <1>4, <2>4 DEF Types, mutationVars
  <2>6. SessionInv' /\ CommandInv'
    BY <1>1, <1>4 DEF Types, SessionInv, CommandInv, mutationVars
  <2>7. ResultInv'
    BY <1>1, <1>4, ResultKept DEF mutationVars
  <2>8. QED
    BY <1>3, <2>3, <2>4, <2>5, <2>6, <2>7
<1>5. CASE Admit(s, queue[s]) /\ ~(queue[s].command \in Mutating /\ unresolved[s])
  <2> DEFINE taken == [caller |-> queue[s].caller, command |-> queue[s].command,
                       sequence |-> queue[s].sequence, outcome |-> None, usable |-> TRUE]
  <2>1. /\ current' = [current EXCEPT ![s] = taken]
        /\ worker' = [worker EXCEPT ![s] = "executing"] /\ call' = call
    BY <1>5 DEF Admit
  <2>2. taken \in Taken /\ taken.caller = queue[s].caller /\ taken.command = queue[s].command
    BY <1>2 DEF Request, Taken
  <2>3. taken # None
    BY <2>2, WorkerAssumption
  <2> HIDE DEF taken
  <2>4. Types'
    BY <1>1, <1>2, <2>1, <2>2 DEF Types, mutationVars
  <2>5. SessionInv'
    BY <1>1, <2>1 DEF Types, SessionInv, mutationVars
  <2>6. CommandInv'
    BY <1>1, <2>1, <2>2, <2>3 DEF Types, CommandInv
  <2>7. \A d \in Caller :
          /\ ~Waiting(d, s)' /\ (Held(d, s)' => Waiting(d, s) /\ current'[s].command = queue[s].command)
          /\ Undecided(d, s)' => Held(d, s)'
          /\ \A t \in Session \ {s} : /\ Waiting(d, t)' <=> Waiting(d, t)
                                      /\ Held(d, t)' <=> Held(d, t)
                                      /\ Undecided(d, t)' <=> Undecided(d, t)
                                      /\ queue'[t] = queue[t] /\ current'[t] = current[t]
    BY <1>1, <2>1, <2>2 DEF Types, Waiting, Held, Undecided
  <2>8. \A d \in Caller : Waiting(d, s) => d \notin barred
    <3> SUFFICES ASSUME NEW d \in Caller, Waiting(d, s), d \in barred
                 PROVE  FALSE
      OBVIOUS
    <3>1. user[d] = s /\ unresolved[s]
      BY WorkerAssumption DEF CommandInv, AppendInv, Waiting
    <3>2. QED
      BY <1>5, <3>1 DEF Waiting, Mutating
  <2>9. \A d \in Caller : MutationOf(d)' = MutationOf(d) /\ step'[d] = step[d]
    BY DEF mutationVars, MutationOf
  <2>10. AppendInv'
    <3>1. \A d \in Caller : step[d] \in Early =>
            d \notin log /\ \A t \in Session : ~Waiting(d, t)' /\ ~Held(d, t)'
      BY <2>7 DEF AppendInv
    <3>2. \A d \in Caller, t \in Session :
            /\ Waiting(d, t)' => d \notin log /\ ~Held(d, t)' /\ queue'[t].command = MutationOf(d)
            /\ Held(d, t)' => current'[t].command = MutationOf(d)
            /\ Undecided(d, t)' => d \notin log /\ d \notin barred
      BY <2>7, <2>8 DEF AppendInv
    <3>3. QED
      BY <1>1, <2>9, <3>1, <3>2 DEF AppendInv
  <2>11. \A d \in Caller : Stable(d)
    BY <1>1, <2>7 DEF Stable, Void
  <2>12. CallerInv'
    BY <2>1, <2>11, CallersUntouched
  <2>13. ResultInv'
    BY <1>1, <2>1, ResultKept DEF Types, mutationVars
  <2>14. QED
    BY <1>3, <2>4, <2>5, <2>6, <2>10, <2>12, <2>13
<1>6. QED
  BY <1>4, <1>5 DEF Take

(* A worker that changes neither the log nor what is queued or taken.      *)
LEMMA WorkerKept ==
    ASSUME MutationInv, UNCHANGED mutationVars,
           Types', SessionInv', CommandInv', ResultInv', PlacesShrink,
           UNCHANGED <<log, checkpoints, user, barred, unresolved, call>>
    PROVE  MutationInv'
<1> USE DEF MutationInv
<1>1. Forward
  BY DEF Forward, mutationVars
<1>2. AppendInv' /\ \A d \in Caller : Stable(d)
  BY <1>1, PlacesKept, VoidKept
<1>3. CallerInv'
  BY <1>2, CallersUntouched
<1>4. QED
  BY <1>2, <1>3, PermitsUntouched DEF CheckpointInv

(* The worker takes a mutation from its queue.                             *)
LEMMA ExecuteMutationStep ==
    ASSUME MutationInv, NEW s \in Session, ExecuteMutation(s), UNCHANGED mutationVars
    PROVE  MutationInv'
<1> USE DEF MutationInv
<1>1. /\ worker[s] = "executing" /\ current[s].command \in Append /\ current[s] # None
      /\ UNCHANGED <<lease, opened, handle, queue, unresolved, barred, user, call, late, cancelled,
                     log, checkpoints>>
  BY DEF ExecuteMutation, Finish, CommandInv, callVars, dbVars
<1>2. CASE \E outcome \in {"refused", StoreError(current[s].command)} : Finish(s, outcome, TRUE)
  <2> PICK outcome \in Outcome :
        /\ Finish(s, outcome, TRUE) /\ outcome # "ok"
        /\ outcome = "failed" => current[s].command = "apply"
    BY <1>2 DEF StoreError, Outcome, Told
  <2>1. /\ current' \in [Session -> Taken \cup {None}]
        /\ \A t \in Session \ {s} : current'[t] = current[t]
        /\ current'[s] # None /\ current'[s].outcome = outcome
        /\ current'[s].caller = current[s].caller /\ current'[s].command = current[s].command
        /\ worker' = [worker EXCEPT ![s] = "replying"]
    BY <1>1, FinishFacts
  <2>2. Types'
    BY <1>1, <2>1 DEF Types, mutationVars
  <2>3. SessionInv'
    BY <1>1, <2>1 DEF Types, SessionInv, mutationVars
  <2>4. current[s].caller # None
    BY <1>1, WorkerAssumption DEF CommandInv, Append
  <2>5. CommandInv'
    BY <1>1, <2>1, <2>4 DEF Types, CommandInv, Outcome, Told
  <2>6. PlacesShrink
    BY <1>1, <2>1 DEF Types, PlacesShrink, Waiting, Held, Undecided
  <2>7. ResultInv'
    <3>1. \A d \in Caller : Held(d, s) => d \notin log
      BY <1>1 DEF AppendInv, Undecided
    <3>2. QED
      BY <1>1, <2>1, <3>1 DEF Types, ResultInv, Held, mutationVars
  <2>8. QED
    BY <1>1, <2>2, <2>3, <2>5, <2>6, <2>7, WorkerKept
<1>3. CASE worker' = [worker EXCEPT ![s] = "committing"] /\ current' = current
  <2>1. Types'
    BY <1>1, <1>3 DEF Types, mutationVars
  <2>2. SessionInv'
    BY <1>1, <1>3 DEF Types, SessionInv, mutationVars
  <2>3. CommandInv'
    BY <1>1, <1>3 DEF Types, CommandInv
  <2>4. PlacesShrink
    BY <1>1, <1>3 DEF Types, PlacesShrink, Waiting, Held, Undecided
  <2>5. ResultInv'
    BY <1>1, <1>3, ResultKept DEF Types, mutationVars
  <2>6. QED
    BY <1>1, <2>1, <2>2, <2>3, <2>4, <2>5, WorkerKept
<1>4. QED
  BY <1>2, <1>3 DEF ExecuteMutation

(* The worker takes and executes a command that is no mutation.            *)
LEMMA ExecuteOtherStep ==
    ASSUME MutationInv, NEW s \in Session, ExecuteOther(s), UNCHANGED mutationVars
    PROVE  MutationInv'
<1> USE DEF MutationInv
<1>1. /\ worker[s] = "executing" /\ current[s].command \in {"status", "checkpoint"} /\ current[s] # None
      /\ UNCHANGED <<lease, opened, handle, queue, unresolved, barred, user, call, late, cancelled,
                     log, checkpoints>>
  BY DEF ExecuteOther, Finish, CommandInv, callVars, dbVars
<1>2. PICK outcome \in Outcome : outcome # "failed" /\ Finish(s, outcome, TRUE)
  <2>1. {"ok", "refused"} \subseteq Outcome
    BY DEF Outcome, Told
  <2>2. QED
    BY <2>1 DEF ExecuteOther
<1>3. /\ current' \in [Session -> Taken \cup {None}]
      /\ \A t \in Session \ {s} : current'[t] = current[t]
      /\ current'[s] # None /\ current'[s].outcome = outcome
      /\ current'[s].caller = current[s].caller /\ current'[s].command = current[s].command
      /\ worker' = [worker EXCEPT ![s] = "replying"]
  BY <1>1, <1>2, FinishFacts
<1>4. Types'
  BY <1>1, <1>3 DEF Types, mutationVars
<1>5. SessionInv'
  BY <1>1, <1>3 DEF Types, SessionInv, mutationVars
<1>6. CommandInv'
  <2>1. current[s].caller # None
    BY <1>1, WorkerAssumption DEF CommandInv
  <2>2. QED
    BY <1>1, <1>2, <1>3, <2>1 DEF Types, CommandInv
<1>7. PlacesShrink
  BY <1>1, <1>3 DEF Types, PlacesShrink, Waiting, Held, Undecided
<1>8. ResultInv'
  BY <1>1, <1>3 DEF Types, ResultInv, Held, Append, mutationVars
<1>9. QED
  BY <1>1, <1>4, <1>5, <1>6, <1>7, <1>8, WorkerKept

(* The commit: the only step that makes a mutation durable, and it does so *)
(* for the caller whose command the worker of its own session has.         *)
LEMMA CommitFacts ==
    ASSUME MutationInv, NEW s \in Session, CommitMutation(s)
    PROVE  /\ worker[s] = "committing" /\ current[s] # None /\ current[s].command \in Append
           /\ current[s].caller \in Caller /\ user[current[s].caller] = s /\ lease = s
           /\ Undecided(current[s].caller, s)
           /\ current[s].caller \notin log /\ current[s].caller \notin barred
           /\ log' \in {log, log \cup {current[s].caller}}
           /\ log' = log => checkpoints' = checkpoints
           /\ checkpoints' \in {checkpoints, checkpoints + 1}
<1> USE DEF MutationInv
<1>1. /\ worker[s] = "committing" /\ log' \in {log, log \cup {current[s].caller}}
      /\ log' # log \cup {current[s].caller} => checkpoints' = checkpoints
      /\ checkpoints' \in {checkpoints, checkpoints + 1}
  BY DEF CommitMutation, Commit, dbVars
<1>2. /\ current[s] # None /\ current[s].command \in Append
      /\ current[s].caller \in Caller /\ user[current[s].caller] = s
  BY <1>1 DEF CommandInv, Append
<1>3. Undecided(current[s].caller, s) /\ lease = s
  BY <1>1, <1>2 DEF Undecided, Held, SessionInv
<1>4. current[s].caller \notin log /\ current[s].caller \notin barred
  BY <1>2, <1>3 DEF AppendInv
<1>5. QED
  BY <1>1, <1>2, <1>3, <1>4

(* The transaction of a mutation commits, or its outcome is not known.     *)
LEMMA CommitMutationStep ==
    ASSUME MutationInv, NEW s \in Session, CommitMutation(s), UNCHANGED mutationVars
    PROVE  MutationInv'
<1> USE DEF MutationInv
<1>1. PICK c \in Caller : c = current[s].caller
  BY CommitFacts
<1>2. /\ worker[s] = "committing" /\ current[s] # None /\ current[s].command \in Append
      /\ user[c] = s /\ Undecided(c, s) /\ c \notin log /\ c \notin barred
      /\ log' \in {log, log \cup {c}} /\ (log' = log => checkpoints' = checkpoints)
      /\ checkpoints' \in {checkpoints, checkpoints + 1}
  BY <1>1, CommitFacts
<1>3. PICK outcome \in Outcome :
        /\ \E usable \in BOOLEAN : Finish(s, outcome, usable)
        /\ outcome = "ok" => c \in log'
        /\ outcome # "refused" /\ (outcome = "failed" => current[s].command = "apply")
  <2>1. {"ok", "unknown", "failed"} \subseteq Outcome
    BY DEF Outcome, Told
  <2>2. CASE \E usable \in BOOLEAN : Finish(s, "ok", usable) /\ c \in log'
    BY <2>1, <2>2
  <2>3. CASE Finish(s, "unknown", TRUE)
    BY <2>1, <2>3
  <2>4. CASE current[s].command = "apply" /\ Finish(s, "failed", TRUE)
    BY <2>1, <2>4
  <2>5. QED
    BY <1>1, <2>2, <2>3, <2>4 DEF CommitMutation, Commit, StoreError
<1>4. UNCHANGED <<lease, opened, handle, queue, unresolved, barred, user, call, late, cancelled>>
  BY <1>3 DEF Finish, callVars
<1>5. /\ current' \in [Session -> Taken \cup {None}]
      /\ \A t \in Session \ {s} : current'[t] = current[t]
      /\ current'[s] # None /\ current'[s].outcome = outcome
      /\ current'[s].caller = c /\ current'[s].command = current[s].command
      /\ worker' = [worker EXCEPT ![s] = "replying"]
  BY <1>1, <1>2, <1>3, FinishFacts
<1>6. Types'
  BY <1>2, <1>4, <1>5 DEF Types, mutationVars
<1>7. SessionInv'
  BY <1>2, <1>4, <1>5 DEF Types, SessionInv, mutationVars
<1>8. CommandInv'
  BY <1>1, <1>2, <1>3, <1>4, <1>5, WorkerAssumption DEF Types, CommandInv
<1>9. PlacesShrink
  BY <1>1, <1>2, <1>4, <1>5 DEF Types, PlacesShrink, Waiting, Held, Undecided
<1>10. ~Undecided(c, s)'
  BY <1>5 DEF Types, Undecided
<1>11. \A d \in Caller, t \in Session :
         /\ Held(d, t) /\ (d = c \/ t = s) => d = c /\ t = s
         /\ Waiting(d, t) => d # c
  <2>1. \A d \in Caller, t \in Session : Held(d, t) => user[d] = t
    BY WorkerAssumption DEF CommandInv, Held
  <2>2. \A d \in Caller : Held(d, s) => d = c
    BY <1>1 DEF Held
  <2>3. \A t \in Session : Waiting(c, t) => user[c] = t
    BY WorkerAssumption DEF CommandInv, Waiting
  <2>4. ~Waiting(c, s)
    BY <1>2 DEF AppendInv, Undecided
  <2>5. QED
    BY <1>2, <2>1, <2>2, <2>3, <2>4
<1>12. \A d \in Caller : MutationOf(d)' = MutationOf(d) /\ step'[d] = step[d]
  BY DEF mutationVars, MutationOf
<1>13. AppendInv'
  <2>1. step[c] \notin Early
    BY <1>2 DEF AppendInv, Undecided
  <2>2. \A d \in Caller : d \in log' => d = c \/ d \in log
    BY <1>2
  <2>3. \A d \in Caller, t \in Session : Undecided(d, t)' => d # c
    BY <1>9, <1>10, <1>11 DEF PlacesShrink, Undecided
  <2>4. QED
    BY <1>2, <1>4, <1>9, <1>11, <1>12, <2>1, <2>2, <2>3 DEF AppendInv, PlacesShrink
<1>14. \A d \in Caller : Stable(d)
  BY <1>2, <1>9 DEF Stable, Void, PlacesShrink
<1>15. CallerInv'
  BY <1>4, <1>14, CallersUntouched
<1>16. ResultInv'
  <2>1. \A d \in Caller : Held(d, s)' => d = c
    BY <1>5 DEF Held
  <2>2. \A d \in Caller, t \in Session \ {s} : Held(d, t)' => Held(d, t) /\ d # c
    BY <1>5, <1>11 DEF Held
  <2>3. worker'[s] = "replying" /\ \A t \in Session \ {s} : worker'[t] = worker[t]
    BY <1>5 DEF Types
  <2>4. kind' = kind /\ \A d \in Caller : d # c => (d \in log' <=> d \in log)
    BY <1>2 DEF mutationVars
  <2>5. QED
    BY <1>3, <1>5, <2>1, <2>2, <2>3, <2>4 DEF ResultInv
<1>17. CheckpointInv'
  <2>1. IsFiniteSet(log) /\ Cardinality(log) \in Nat
    BY WorkerAssumption, FS_Subset, FS_CardinalityType DEF Types
  <2>2. Cardinality(log \cup {c}) = Cardinality(log) + 1
    BY <1>2, <2>1, FS_AddElement
  <2>3. checkpoints \in Nat /\ checkpoints >= 1 /\ checkpoints <= 1 + Cardinality(log)
    BY DEF Types, CheckpointInv
  <2>4. CASE log' = log
    BY <1>2, <2>3, <2>4 DEF CheckpointInv
  <2>5. CASE log' = log \cup {c}
    <3>1. Cardinality(log') = Cardinality(log) + 1
      BY <2>2, <2>5
    <3>2. checkpoints' >= 1 /\ checkpoints' <= 1 + (Cardinality(log) + 1)
      BY <1>2, <2>1, <2>3
    <3>3. QED
      BY <3>1, <3>2 DEF CheckpointInv
  <2>6. QED
    BY <1>2, <2>4, <2>5
<1>18. QED
  BY <1>6, <1>7, <1>8, <1>13, <1>15, <1>16, <1>17, PermitsUntouched

(* The worker leaves its loop.  The reply to a shutdown is no news of a    *)
(* mutation.                                                               *)
LEMMA ExecuteShutdownStep ==
    ASSUME MutationInv, NEW s \in Session, ExecuteShutdown(s), UNCHANGED mutationVars
    PROVE  MutationInv'
<1> USE DEF MutationInv
<1>1. /\ worker[s] = "executing" /\ current[s].command = "shutdown" /\ Deliver(current[s], "ok", 0)
      /\ worker' = [worker EXCEPT ![s] = "exiting"] /\ current' = [current EXCEPT ![s] = None]
      /\ queue' = [queue EXCEPT ![s] = None]
      /\ UNCHANGED <<lease, opened, handle, unresolved, barred, user, late, cancelled, log, checkpoints>>
  BY DEF ExecuteShutdown, Leave, dbVars
<1>2. PlacesShrink
  BY <1>1 DEF Types, PlacesShrink, Waiting, Held, Undecided
<1>3. Forward
  BY <1>1 DEF Forward, mutationVars
<1>4. AppendInv' /\ \A d \in Caller : Stable(d)
  BY <1>1, <1>2, <1>3, PlacesKept, VoidKept
<1>5. CallerInv' /\ call' \in [Caller -> CallRecord]
  <2>1. PICK r : r = current[s]
    OBVIOUS
  <2>2. r.caller \in Caller \cup {None} /\ r.command \notin Append
    BY <1>1, <2>1 DEF CommandInv, Append
  <2>3. QED
    BY <1>1, <1>4, <2>1, <2>2, CallersReplied DEF Outcome, Told
<1>6. Types'
  BY <1>1, <1>5 DEF Types, mutationVars
<1>7. SessionInv'
  BY <1>1 DEF Types, SessionInv, mutationVars
<1>8. CommandInv'
  BY <1>1 DEF Types, CommandInv
<1>9. ResultInv'
  BY <1>1, ResultKept DEF Types, mutationVars
<1>10. QED
  BY <1>1, <1>4, <1>5, <1>6, <1>7, <1>8, <1>9, PermitsUntouched DEF CheckpointInv

(* The reply: true of the mutation, which is settled by then.              *)
LEMMA ReplyStep ==
    ASSUME MutationInv, NEW s \in Session, Reply(s), UNCHANGED mutationVars
    PROVE  MutationInv'
<1> USE DEF MutationInv
<1>1. /\ worker[s] = "replying" /\ Deliver(current[s], current[s].outcome, checkpoints)
      /\ Unresolve(s) \/ UNCHANGED <<unresolved, barred>>
      /\ \/ worker' = [worker EXCEPT ![s] = "idle"]
         \/ worker' = [worker EXCEPT ![s] = "exiting"]
      /\ queue' = queue \/ queue' = [queue EXCEPT ![s] = None]
      /\ current' = [current EXCEPT ![s] = None]
      /\ UNCHANGED <<lease, opened, handle, user, late, cancelled, log, checkpoints>>
  <2>1. queue' = [queue EXCEPT ![s] = queue[s]] => queue' = queue
    BY DEF Types
  <2>2. QED
    BY <2>1 DEF Reply, dbVars
<1>2. PICK r : r = current[s]
  OBVIOUS
<1>3. PICK outcome \in Outcome : outcome = r.outcome
  BY <1>1, <1>2 DEF CommandInv
<1>4. current[s] # None /\ r.caller \in Caller /\ user[r.caller] = s
  BY <1>1, <1>2 DEF CommandInv
<1>5. PlacesShrink
  BY <1>1 DEF Types, PlacesShrink, Waiting, Held, Undecided
<1>6. /\ AppendInv' /\ unresolved' \in [Session -> BOOLEAN] /\ barred' \subseteq Caller
      /\ \A d \in Caller : Stable(d)
  <2>1. CASE Unresolve(s)
    BY <1>1, <1>5, <2>1, UnresolveKept, VoidKept
  <2>2. CASE UNCHANGED <<unresolved, barred>>
    <3>1. Forward
      BY <1>1, <2>2 DEF Forward, mutationVars
    <3>2. QED
      BY <1>1, <1>5, <2>2, <3>1, PlacesKept, VoidKept DEF Types
  <2>3. QED
    BY <1>1, <2>1, <2>2
<1>7. r.command \in Append => Truthful(r.caller, outcome)'
  <2> SUFFICES ASSUME r.command \in Append
               PROVE  /\ outcome = "ok" => r.caller \in log'
                      /\ outcome = "refused" => Void(r.caller)'
    BY DEF Truthful
  <2>1. Held(r.caller, s)
    BY <1>2, <1>4 DEF Held
  <2>2. /\ outcome = "ok" => r.caller \in log
        /\ outcome = "refused" => r.caller \notin log
    BY <1>1, <1>2, <1>3, <1>4, <2>1 DEF ResultInv
  <2>3. \A t \in Session : ~Waiting(r.caller, t) /\ ~Undecided(r.caller, t)
    <3> SUFFICES ASSUME NEW t \in Session, Waiting(r.caller, t) \/ Undecided(r.caller, t)
                 PROVE  FALSE
      OBVIOUS
    <3>1. t = s
      BY <1>4, WorkerAssumption DEF CommandInv, Waiting, Undecided, Held
    <3>2. QED
      BY <1>1, <1>4, <2>1, <3>1 DEF AppendInv, Undecided
  <2>4. r.caller \notin log => Void(r.caller)'
    BY <1>4, <1>6, <2>3 DEF Void, Stable
  <2>5. QED
    BY <1>1, <2>2, <2>4 DEF mutationVars
<1>8. CallerInv' /\ call' \in [Caller -> CallRecord]
  <2>1. outcome = "failed" => r.command = "apply"
    BY <1>1, <1>2, <1>3 DEF CommandInv
  <2>2. QED
    BY <1>1, <1>2, <1>3, <1>4, <1>6, <1>7, <2>1, CallersReplied DEF Types
<1>9. Types'
  BY <1>1, <1>6, <1>8 DEF Types, mutationVars
<1>10. SessionInv'
  BY <1>1 DEF Types, SessionInv, mutationVars
<1>11. CommandInv'
  BY <1>1 DEF Types, CommandInv
<1>12. ResultInv'
  BY <1>1, ResultKept DEF Types, mutationVars
<1>13. QED
  BY <1>1, <1>6, <1>8, <1>9, <1>10, <1>11, <1>12, PermitsUntouched DEF CheckpointInv

(* The worker ends without a word.                                         *)
LEMMA LeaveStep ==
    ASSUME MutationInv, NEW s \in Session, UNCHANGED mutationVars,
           worker[s] \notin {"none", "gone"}, Leave(s),
           queue' = queue \/ queue' = [queue EXCEPT ![s] = None],
           UNCHANGED <<lease, opened, handle, unresolved, barred, callVars, dbVars>>
    PROVE  MutationInv'
<1> USE DEF MutationInv
<1>1. /\ worker' = [worker EXCEPT ![s] = "exiting"] /\ current' = [current EXCEPT ![s] = None]
      /\ UNCHANGED <<user, call, late, cancelled, log, checkpoints>>
  BY DEF Leave, callVars, dbVars
<1>2. PlacesShrink
  BY <1>1 DEF Types, PlacesShrink, Waiting, Held, Undecided
<1>3. Types'
  BY <1>1 DEF Types, mutationVars
<1>4. SessionInv'
  BY <1>1 DEF Types, SessionInv, mutationVars
<1>5. CommandInv'
  BY <1>1 DEF Types, CommandInv
<1>6. ResultInv'
  BY <1>1, ResultKept DEF Types, mutationVars
<1>7. QED
  BY <1>1, <1>2, <1>3, <1>4, <1>5, <1>6, WorkerKept

(* The worker leaves its loop because every handle is dropped.             *)
LEMMA DisconnectStep ==
    ASSUME MutationInv, NEW s \in Session, Disconnect(s), UNCHANGED mutationVars
    PROVE  MutationInv'
BY LeaveStep DEF Disconnect

(* The worker panics.                                                      *)
LEMMA PanicStep ==
    ASSUME MutationInv, NEW s \in Session, Panic(s), UNCHANGED mutationVars
    PROVE  MutationInv'
BY LeaveStep DEF Panic

(* The worker's thread ends, and with it the lease.                        *)
LEMMA ExitStep ==
    ASSUME MutationInv, NEW s \in Session, Exit(s), UNCHANGED mutationVars
    PROVE  MutationInv'
<1> USE DEF MutationInv
<1>1. /\ worker[s] = "exiting" /\ worker' = [worker EXCEPT ![s] = "gone"]
      /\ lease' = IF lease = s THEN 0 ELSE lease
      /\ UNCHANGED <<opened, handle, queue, current, unresolved, barred, user, call, late, cancelled,
                     log, checkpoints>>
  BY DEF Exit, callVars, dbVars
<1>2. PlacesShrink
  BY <1>1 DEF Types, PlacesShrink, Waiting, Held, Undecided
<1>3. Types'
  BY <1>1 DEF Types, mutationVars
<1>4. SessionInv'
  BY <1>1 DEF Types, SessionInv, Session, mutationVars
<1>5. CommandInv'
  BY <1>1 DEF Types, CommandInv
<1>6. ResultInv'
  BY <1>1, ResultKept DEF Types, mutationVars
<1>7. QED
  BY <1>1, <1>2, <1>3, <1>4, <1>5, <1>6, WorkerKept

(* The last thread of a program is done with the shared store.             *)
LEMMA CloseSharedStep ==
    ASSUME MutationInv, NEW s \in Session, CloseShared(s)
    PROVE  MutationInv'
<1> USE DEF MutationInv
<1>1. /\ Drop(s) /\ UNCHANGED mutationVars
      /\ UNCHANGED <<opened, worker, current, unresolved, barred, user, call, late, cancelled,
                     log, checkpoints>>
  BY DEF CloseShared, callVars, dbVars
<1>2. /\ handle' \in [Session -> {"none", "held", "dropped"}]
      /\ queue' \in [Session -> Request \cup {None}]
      /\ lease' = lease /\ PlacesShrink /\ CommandInv'
  BY <1>1, DropFacts
<1>3. Types' /\ SessionInv'
  BY <1>1, <1>2 DEF Types, SessionInv, mutationVars
<1>4. ResultInv'
  BY <1>1, ResultKept DEF mutationVars
<1>5. QED
  BY <1>1, <1>2, <1>3, <1>4, WorkerKept

(* A process dies with its session: its callers are lost, and with them    *)
(* everything of theirs that was not durable.                              *)
LEMMA ProcessCrashStep ==
    ASSUME MutationInv, NEW s \in Session, ProcessCrash(s)
    PROVE  MutationInv'
<1> USE DEF MutationInv
<1>1. /\ worker[s] \notin {"none", "gone"}
      /\ worker' = [worker EXCEPT ![s] = "gone"] /\ handle' = [handle EXCEPT ![s] = "dropped"]
      /\ queue' = [queue EXCEPT ![s] = None] /\ current' = [current EXCEPT ![s] = None]
      /\ lease' = IF lease = s THEN 0 ELSE lease
      /\ call' = [c \in Caller |-> IF user[c] = s THEN NoCall ELSE call[c]]
      /\ step' = [c \in Caller |-> IF user[c] = s /\ step[c] # "done" THEN "lost" ELSE step[c]]
      /\ result' = [c \in Caller |-> IF user[c] = s THEN None ELSE result[c]]
      /\ UNCHANGED <<opened, unresolved, barred, user, late, cancelled, log, checkpoints>>
      /\ UNCHANGED <<kind, answer, report, request, holders, response>>
  BY DEF ProcessCrash, Crash, dbVars
<1>2. NoCall \in CallRecord
  BY DEF NoCall, CallRecord
<1>3. Types'
  BY <1>1, <1>2 DEF Types
<1>4. SessionInv'
  BY <1>1 DEF Types, SessionInv, Session
<1>5. CommandInv'
  BY <1>1 DEF Types, CommandInv
<1>6. PlacesShrink
  BY <1>1 DEF Types, PlacesShrink, Waiting, Held, Undecided
<1>7. Forward
  BY <1>1 DEF Forward, Early
<1>8. AppendInv' /\ \A d \in Caller : Stable(d)
  BY <1>1, <1>6, <1>7, PlacesKept, VoidKept
<1>9. ResultInv'
  BY <1>1, ResultKept DEF Types
<1>10. ASSUME NEW d \in Caller
       PROVE  CallerOK(d)'
  <2>1. CallerOK(d) /\ Stable(d)
    BY <1>8 DEF CallerInv
  <2>2. CASE user[d] # s
    BY <1>1, <2>1, <2>2, PassiveCaller DEF Untold
  <2>3. CASE user[d] = s
    <3>1. /\ call'[d] = NoCall /\ result'[d] = None /\ step'[d] \in {"done", "lost"}
          /\ step'[d] = "done" <=> step[d] = "done"
      BY <1>1, <2>3
    <3>2. CallOK(d)'
      BY <3>1 DEF CallOK, NoCall
    <3>3. AnswerOK(d)'
      BY <1>1, <2>1, <3>1 DEF AnswerOK, CallerOK, NoCall
    <3>4. Permissible(d, result[d])'
      BY <3>1, WorkerAssumption DEF Permissible, Outcome, Told
    <3>5. Permissible(d, report[d])'
      BY <1>1, <2>1 DEF CallerOK, HonestOK, Permissible, Stable
    <3>6. HonestOK(d)'
      BY <1>1, <2>1, <3>1, <3>4, <3>5, WorkerAssumption DEF CallerOK, HonestOK, Stable, Early, Outcome, Told
    <3>7. QED
      BY <3>2, <3>3, <3>6 DEF CallerOK
  <2>4. QED
    BY <2>2, <2>3
<1>11. PermitInv'
  <2>1. \A d \in Caller : Working(d)' => Working(d)
    BY <1>1 DEF Working, SessionInv, Session
  <2>2. QED
    BY <1>1, <2>1 DEF PermitInv
<1>12. QED
  BY <1>1, <1>3, <1>4, <1>5, <1>8, <1>9, <1>10, <1>11 DEF CallerInv, CheckpointInv

-----------------------------------------------------------------------------
(* The invariant is inductive.                                             *)

(* The initial states satisfy the invariant.                               *)
LEMMA MutationInitInv ==
    ASSUME MutationInit
    PROVE  MutationInv
<1> USE DEF MutationInit, WorkerInit
<1>1. kind \in [Caller -> Kind] /\ NoCall \in CallRecord
  BY MutationAssumption DEF NoCall, CallRecord
<1>2. Types
  BY <1>1, WorkerAssumption DEF Types, Session, Early
<1>3. SessionInv
  BY WorkerAssumption DEF SessionInv, Session
<1>4. CommandInv
  BY DEF CommandInv
<1>5. \A c \in Caller, s \in Session : ~Waiting(c, s) /\ ~Held(c, s)
  BY DEF Waiting, Held
<1>6. AppendInv
  BY <1>5 DEF AppendInv, Undecided
<1>7. ResultInv
  BY <1>5 DEF ResultInv
<1>8. CallerInv
  BY WorkerAssumption
  DEF CallerInv, CallerOK, CallOK, AnswerOK, HonestOK, Permissible, NoCall, Outcome, Told
<1>9. PermitInv
  <2>1. Cardinality(holders) <= Permits
    BY FS_EmptySet, MutationAssumption
  <2>2. QED
    BY <2>1 DEF PermitInv, Working
<1>10. CheckpointInv
  BY FS_EmptySet DEF CheckpointInv
<1>11. QED
  BY <1>2, <1>3, <1>4, <1>6, <1>7, <1>8, <1>9, <1>10 DEF MutationInv

(* Every step of the system preserves the invariant.                       *)
LEMMA MutationNextInv ==
    ASSUME MutationInv, [MutationNext]_allVars
    PROVE  MutationInv'
<1>1. ASSUME NEW c \in Caller, OperationStep(c)
      PROVE  MutationInv'
  BY <1>1, AcquirePermitStep, RefuseRequestStep, AcquireLeaseStep, LeaseTimesOutStep, ShareStoreStep,
     FirstCallStep, StartFailsStep, AppendNextStep, StatusFailsStep, TaskAnsweredStep,
     ThreadAnsweredStep, ReviewAnsweredStep, CheckpointAnsweredStep, RetentionAnsweredStep,
     RecoveryShutdownStep, CloseStep, LookupStep
  DEF OperationStep
<1>2. ASSUME NEW c \in Caller, CallStep(c)
      PROVE  MutationInv'
  BY <1>2, ReceiveStep, DisconnectedStep, TimeOutStep, GraceEndsStep, RecordStep DEF CallStep
<1>3. ASSUME NEW s \in Session, WorkerStep(s)
      PROVE  MutationInv'
  BY <1>3, StartupStep, TakeStep, ExecuteMutationStep, CommitMutationStep, ExecuteOtherStep,
     ExecuteShutdownStep, ReplyStep, DisconnectStep, ExitStep
  DEF WorkerStep
<1>4. ASSUME NEW s \in Session, WorkerPanics(s)
      PROVE  MutationInv'
  BY <1>4, PanicStep DEF WorkerPanics
<1>5. CASE UNCHANGED allVars
  <2>1. /\ UNCHANGED <<lease, opened, worker, handle, queue, current, unresolved, barred, user, call,
                       late, cancelled, log, checkpoints>>
        /\ UNCHANGED mutationVars
    BY <1>5 DEF allVars, workerVars
  <2>2. Types' /\ SessionInv' /\ CommandInv'
    BY <2>1 DEF MutationInv, Types, SessionInv, CommandInv, mutationVars
  <2>3. ResultInv' /\ PlacesShrink
    BY <2>1, ResultKept, PlacesUntouched DEF MutationInv, mutationVars
  <2>4. QED
    BY <2>1, <2>2, <2>3, WorkerKept
<1>6. CASE AllEnded
  BY <1>5, <1>6 DEF AllEnded
<1>7. QED
  BY <1>1, <1>2, <1>3, <1>4, <1>5, <1>6, TimePassesStep, InterruptStep, GiveUpStep, CloseSharedStep,
     ProcessCrashStep
  DEF MutationNext

(* The invariant holds in every reachable state.                           *)
THEOREM MutationInvariant == MutationSpec => []MutationInv
<1>1. MutationInit => MutationInv
  BY MutationInitInv
<1>2. MutationInv /\ [MutationNext]_allVars => MutationInv'
  BY MutationNextInv
<1>3. QED
  BY <1>1, <1>2, PTL DEF MutationSpec

-----------------------------------------------------------------------------
(* What the invariant says of the properties.                              *)

(* The types of WriterWorker and LocalMutations hold throughout; the task  *)
(* has at most one checkpoint more for every caller.                       *)
THEOREM MutationTypes == MutationSpec => []MutationTypeOK
<1>1. MutationInv => MutationTypeOK
  <2> SUFFICES ASSUME MutationInv
               PROVE  MutationTypeOK
    OBVIOUS
  <2> USE DEF MutationInv
  <2>1. lease \in 0..MaxSession
    BY WorkerAssumption DEF Types, SessionInv
  <2>2. \A s \in Session :
          /\ queue[s] # None => queue[s].caller \in Caller \cup {None} /\ queue[s].command \in Command
          /\ (worker[s] \in {"executing", "committing", "replying"}) <=> current[s] # None
          /\ current[s] # None => current[s].outcome \in Outcome \cup {None}
    BY DEF Types, CommandInv, Request, Taken
  <2>3. \A c \in Caller :
          /\ call[c].phase \in {"idle", "waiting", "grace", "record", "answered"}
          /\ call[c].command \in Command \cup {None}
          /\ call[c].phase = "answered" => call[c].reply.outcome \in Outcome
    BY DEF Types, CallRecord, Answer, CallerInv, CallerOK, CallOK
  <2>4. checkpoints \in 1..(1 + Cardinality(Caller))
    <3>1. Cardinality(log) \in Nat /\ Cardinality(Caller) \in Nat /\ Cardinality(log) <= Cardinality(Caller)
      BY WorkerAssumption, FS_Subset, FS_CardinalityType DEF Types
    <3>2. checkpoints \in Nat /\ checkpoints >= 1 /\ checkpoints <= 1 + Cardinality(log)
      BY DEF Types, CheckpointInv
    <3>3. QED
      BY <3>1, <3>2
  <2>5. report \in [Caller -> Told \cup {None}] /\ response \in [Caller -> Told \cup {None}]
    <3>1. \A c \in Caller : report[c] # "failed" /\ response[c] # "failed"
      BY DEF CallerInv, CallerOK, HonestOK
    <3>2. QED
      BY <3>1 DEF Types, Outcome
  <2>6. QED
    BY <2>1, <2>2, <2>3, <2>4, <2>5 DEF Types, MutationTypeOK
<1>2. QED
  BY <1>1, MutationInvariant, PTL

(* Whatever deadline, crash or lost reply meets an operation, a reported   *)
(* success is durable, and a reported refusal is of a mutation that is not *)
(* and never becomes durable, also when the writer answered with an error  *)
(* that came after the commit.  The exception is a task's receipt that its *)
(* application or its facade gave up.                                      *)
THEOREM HonestReports == MutationSpec => []ReportsAreHonest
<1>1. MutationInv => ReportsAreHonest
  BY DEF MutationInv, CallerInv, CallerOK, HonestOK, Permissible, Void, ReportsAreHonest
<1>2. QED
  BY <1>1, MutationInvariant, PTL

(* What the MCP supervisor answers is true of the log, also long after the *)
(* answer was given.                                                       *)
THEOREM HonestResponses == MutationSpec => []ResponsesAreHonest
<1>1. MutationInv => ResponsesAreHonest
  BY DEF MutationInv, CallerInv, CallerOK, HonestOK, Void, ResponsesAreHonest
<1>2. QED
  BY <1>1, MutationInvariant, PTL

(* A mutation found queued behind an unresolved one never becomes durable, *)
(* in any order of the caller's note, the worker's take and its commit.    *)
THEOREM UnresolvedFence == MutationSpec => []QueuedBehindUnresolvedNeverCommits
<1>1. MutationInv => QueuedBehindUnresolvedNeverCommits
  BY DEF MutationInv, Types, AppendInv, QueuedBehindUnresolvedNeverCommits
<1>2. QED
  BY <1>1, MutationInvariant, PTL

(* The permits bound the blocking tasks, answered or not.                  *)
THEOREM PermitsBoundTasks == MutationSpec => []TasksHoldPermits
<1>1. MutationInv => TasksHoldPermits
  <2> SUFFICES ASSUME MutationInv
               PROVE  Cardinality({c \in Caller : Working(c)}) <= Permits
    BY DEF TasksHoldPermits
  <2>1. {c \in Caller : Working(c)} \subseteq holders /\ Cardinality(holders) <= Permits
    BY DEF MutationInv, PermitInv
  <2>2. IsFiniteSet(holders) /\ Cardinality(holders) \in Nat
    BY PermitsFinite DEF MutationInv
  <2>3. /\ Cardinality({c \in Caller : Working(c)}) \in Nat
        /\ Cardinality({c \in Caller : Working(c)}) <= Cardinality(holders)
    BY <2>1, <2>2, FS_Subset, FS_CardinalityType
  <2>4. QED
    BY <2>1, <2>2, <2>3, MutationAssumption
<1>2. QED
  BY <1>1, MutationInvariant, PTL

(* Once another session holds the lease, nothing an earlier session left   *)
(* behind changes what is durable of its callers.                          *)
THEOREM LeaseFence == MutationSpec => LeaseFencesEarlierSessions
<1> DEFINE Fenced == \A c \in Caller : (user[c] # 0 /\ lease # 0 /\ user[c] # lease) =>
                                          (c \in log' <=> c \in log)
<1>1. ASSUME MutationInv, MutationNext
      PROVE  Fenced
  <2>1. CASE log' = log
    BY <2>1
  <2>2. CASE \E s \in Session : CommitMutation(s)
    <3>1. PICK s \in Session : CommitMutation(s)
      BY <2>2
    <3>2. /\ user[current[s].caller] = s /\ lease = s
          /\ log' \in {log, log \cup {current[s].caller}}
      BY <1>1, <3>1, CommitFacts
    <3>3. QED
      BY <3>2
  <2>3. CASE \E c \in Caller : \/ OperationStep(c) \/ CallStep(c) \/ TimePasses(c)
                               \/ Interrupt(c) \/ GiveUp(c)
    <3>1. PICK c \in Caller : \/ OperationStep(c) \/ CallStep(c) \/ TimePasses(c)
                              \/ Interrupt(c) \/ GiveUp(c)
      BY <2>3
    <3>2. OperationStep(c) => log' = log
      BY DEF OperationStep, AcquirePermit, RefuseRequest, AcquireLease, Start, LeaseTimesOut, ShareStore,
         Join, FirstCall, Send, StartFails, AppendNext, StatusFails, TaskAnswered, ThreadAnswered,
         ReviewAnswered, CheckpointAnswered, RetentionAnswered, RecoveryShutdown, Close, Lookup,
         workerVars, serverVars, dbVars
    <3>3. CallStep(c) \/ TimePasses(c) \/ Interrupt(c) \/ GiveUp(c) => log' = log
      BY DEF CallStep, Receive, Disconnected, TimeOut, GraceEnds, Record, TimePasses, Expire, Interrupt,
         GiveUp, workerVars, dbVars
    <3>4. QED
      BY <2>1, <3>1, <3>2, <3>3
  <2>4. CASE \E s \in Session : WorkerStep(s) \/ WorkerPanics(s) \/ CloseShared(s) \/ ProcessCrash(s)
    <3>1. PICK s \in Session : WorkerStep(s) \/ WorkerPanics(s) \/ CloseShared(s) \/ ProcessCrash(s)
      BY <2>4
    <3>2. WorkerStep(s) => CommitMutation(s) \/ log' = log
      BY DEF WorkerStep, Startup, Take, ExecuteMutation, ExecuteOther, ExecuteShutdown, Reply, Disconnect,
         Exit, dbVars
    <3>3. WorkerPanics(s) \/ CloseShared(s) \/ ProcessCrash(s) => log' = log
      BY DEF WorkerPanics, Panic, CloseShared, ProcessCrash, Crash, dbVars
    <3>4. QED
      BY <2>1, <2>2, <3>1, <3>2, <3>3
  <2>5. CASE AllEnded
    BY <2>1, <2>5 DEF AllEnded, allVars, workerVars
  <2>6. QED
    BY <1>1, <2>3, <2>4, <2>5 DEF MutationNext
<1>2. MutationInv /\ [MutationNext]_allVars => [Fenced]_allVars
  BY <1>1
<1>3. QED
  BY <1>2, MutationInvariant, PTL DEF MutationSpec, LeaseFencesEarlierSessions

=============================================================================
