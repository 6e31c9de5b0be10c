------------------------------ MODULE Indexing ------------------------------
(***************************************************************************)
(* Index runs over the generation store.  A run holds the mutation lease   *)
(* from before it reads the source until its writer has shut down, so runs *)
(* never overlap; the source changes under them, and a run may end at any  *)
(* point by an error, a cancellation, a deadline or a crash.               *)
(*                                                                         *)
(* A one-shot run always publishes a new generation.  A reconciling run,   *)
(* repeated by the polling runner, first looks for an active or a          *)
(* completed generation of the same snapshot.                              *)
(*                                                                         *)
(* A snapshot stands for everything its digest covers.  Preparation reads  *)
(* the source without a fence: what it reads while the source changes may  *)
(* be any mixture.  The final fence, which reads path by path and file by  *)
(* file, is one step with the outcome that SourceCapture shows of it: what *)
(* it confirms was the source when it began its second look, unless an     *)
(* edit was taken back since preparation began; after that it may answer   *)
(* anything.                                                               *)
(***************************************************************************)
EXTENDS GenerationStore

CONSTANTS
    Snapshot,         \* source snapshots
    MaxDisturbances   \* bound on edits, faults, one-shot runs and sweeps

ASSUME IndexingAssumption == MaxDisturbances \in Nat /\ None \notin Snapshot

VARIABLES
    source,       \* the snapshot each worktree is in now
    snapshot,     \* index_generations.snapshot_digest
    required,     \* the parts a generation has a requirement row for
    built,        \* the parts whose publication is complete
    run,          \* the index run that holds the mutation lease
    planned,      \* history: the parts the run that created a generation prepared
    past,         \* history: the snapshots of the run's source since the run began
    since,        \* history: the snapshots of the run's source since its writer started
    disturbances  \* number of disturbances so far

indexVars == <<source, snapshot, required, built, run, planned, past, since,
               disturbances>>
allVars   == <<vars, indexVars>>

-----------------------------------------------------------------------------
(* What is staged on a ready generation before its epoch is completed.     *)
Part == {"graph", "syntax", "topology"}

Modes == {"index", "reconcile", "retention"}

Phases == {"idle", "preparing", "prepared", "started", "registered", "reserve", "stage",
           "staging", "parts", "part", "complete", "activate", "unchanged", "resume",
           "succeeded", "failed"}

NoRun == [phase |-> "idle", mode |-> "index", repo |-> None, candidate |-> None,
          torn |-> FALSE, reverted |-> FALSE, epoch |-> 0, gen |-> 0, todo |-> {}]

IndexingInit ==
    /\ Init
    /\ source \in [Repo -> Snapshot]
    /\ snapshot = [g \in Gen |-> None]
    /\ required = [g \in Gen |-> {}]
    /\ built = [g \in Gen |-> {}]
    /\ run = NoRun
    /\ planned = [g \in Gen |-> {}]
    /\ past = {}
    /\ since = {}
    /\ disturbances = 0

Disturb == disturbances < MaxDisturbances /\ disturbances' = disturbances + 1

(* Steps that leave the store, or the index bookkeeping of it, alone.      *)
rowVars == <<snapshot, required, built, planned>>

InPhase(p) == run.phase = p

GoTo(p) == run' = [run EXCEPT !.phase = p]

-----------------------------------------------------------------------------
(* The environment.                                                        *)

(* A run reads its source from the start of preparation to the fence.      *)
ReadsSource(r) ==
    /\ run.repo = r
    /\ run.phase \notin {"idle", "complete", "activate", "succeeded", "failed"}

(* An edit takes something back when the source returns to a snapshot, and *)
(* it may when only one of its files does.                                 *)
Edit(r, c, back) ==
    /\ Disturb
    /\ c # source[r]
    /\ back => ReadsSource(r)
    /\ (ReadsSource(r) /\ c \in past) => back
    /\ source' = [source EXCEPT ![r] = c]
    /\ run' = [run EXCEPT !.torn = @ \/ (InPhase("preparing") /\ run.repo = r),
                          !.reverted = @ \/ back]
    /\ past' = IF ReadsSource(r) THEN past \cup {c} ELSE past
    /\ since' = IF open /\ run.repo = r THEN since \cup {c} ELSE since
    /\ UNCHANGED <<vars, rowVars>>

(* An error, a cancellation, an expired deadline or a crash.  The writer   *)
(* is shut down or dies with the process; a generation being staged may    *)
(* first be marked failed or cancelled.                                    *)
Abandon ==
    /\ Disturb
    /\ run.phase \notin {"idle", "succeeded", "failed"}
    /\ GoTo("failed")
    /\ \/ UNCHANGED vars
       \/ \E outcome \in {"failed", "cancelled"} : StageAbort(outcome)
       \/ InPhase("part") /\ \E outcome \in {"failed", "cancelled"} :
             StageArtifactsFailed(run.gen, outcome)
    /\ UNCHANGED <<source, rowVars, past, since>>

(* The writer shuts down or is gone, and the lease is free again.          *)
Finish ==
    /\ run.phase \in {"succeeded", "failed"}
    /\ IF open THEN Stop ELSE UNCHANGED vars
    /\ run' = NoRun
    /\ past' = {}
    /\ since' = {}
    /\ UNCHANGED <<source, rowVars, disturbances>>

-----------------------------------------------------------------------------
(* A run up to the decision to publish.                                    *)

Begin(r, mode) ==
    /\ InPhase("idle")
    /\ IF mode = "reconcile" THEN UNCHANGED disturbances ELSE Disturb
    /\ run' = [NoRun EXCEPT !.phase = IF mode = "retention" THEN "prepared" ELSE "preparing",
                            !.mode = mode, !.repo = r]
    /\ past' = {source[r]}
    /\ UNCHANGED <<vars, source, rowVars, since>>

(* The parts of the publication are prepared too; the graph is optional.   *)
Prepare(c, parts) ==
    /\ InPhase("preparing")
    /\ ~run.torn => c = source[run.repo]
    /\ parts \in {Part, Part \ {"graph"}}
    /\ run' = [run EXCEPT !.phase = "prepared", !.candidate = c, !.torn = FALSE,
                          !.todo = parts]
    /\ UNCHANGED <<vars, source, rowVars, past, since, disturbances>>

StartWriter ==
    /\ InPhase("prepared")
    /\ Recover
    /\ GoTo("started")
    /\ since' = {source[run.repo]}
    /\ UNCHANGED <<source, rowVars, past, disturbances>>

(* INITIAL_SOURCE_EPOCH is 0; the run continues at the persisted epoch.    *)
Register ==
    /\ InPhase("started")
    /\ run.mode # "retention"
    /\ EnsureWorkspace(run.repo, 0)
    /\ run' = [run EXCEPT !.phase = IF run.mode = "reconcile" THEN "registered" ELSE "reserve",
                          !.epoch = repoEpoch'[run.repo]]
    /\ UNCHANGED <<source, rowVars, past, since, disturbances>>

(* The generation of the repository's active view.                         *)
(* Faulty variant: it counts only when it is that of the current epoch.    *)
ActiveOf_Current(r) ==
    IF activeView[r] # None /\ activeView[r].epoch[r] = slotEpoch[r]
    THEN activeView[r].gen[r] ELSE 0

ActiveOf(r) == IF activeView[r] # None THEN activeView[r].gen[r] ELSE 0

CompletionOf(r) == receipt[r][slotEpoch[r]]

HasSnapshot(g, c) == g # 0 /\ snapshot[g] = c

(* reconcile_prepared_local_source: what to do about the candidate.        *)
Inspect ==
    LET active    == ActiveOf(run.repo)
        completed == CompletionOf(run.repo)
    IN
    /\ InPhase("registered")
    /\ run' =
        IF HasSnapshot(active, run.candidate)
            THEN [run EXCEPT !.phase = "unchanged", !.gen = active]
        ELSE IF HasSnapshot(completed, run.candidate)
            THEN [run EXCEPT !.phase = "resume", !.gen = completed, !.epoch = slotEpoch[run.repo]]
        ELSE [run EXCEPT !.phase = "reserve"]
    /\ UNCHANGED <<vars, source, rowVars, past, since, disturbances>>

(* The final fence, before every successful outcome.                       *)
(* Faulty variant: it is skipped when the source looks unchanged.          *)
FenceConfirms_ChangedOnly ==
    InPhase("unchanged") \/ run.candidate = source[run.repo] \/ run.reverted

FenceConfirms == run.candidate = source[run.repo] \/ run.reverted

FenceRefuses == run.candidate # source[run.repo] \/ run.reverted

(* Confirm the active generation, or confirm and resume a completed one,   *)
(* or confirm a staged one.                                                *)
NextPhase == [unchanged |-> "succeeded", resume |-> "activate", parts |-> "complete"]

(* Faulty variant: parts may still be staged after the fence.              *)
PartsDone_Unchecked == TRUE

PartsDone == InPhase("parts") => run.todo = {}

Fence ==
    /\ run.phase \in DOMAIN NextPhase
    /\ PartsDone
    /\ \/ FenceConfirms /\ GoTo(NextPhase[run.phase])
       \/ FenceRefuses /\ GoTo("failed")
    /\ UNCHANGED <<vars, source, rowVars, past, since, disturbances>>

-----------------------------------------------------------------------------
(* Publication of a new generation.                                        *)

(* The last epoch has no successor: the run fails and changes nothing.     *)
Reserve ==
    /\ InPhase("reserve")
    /\ \/ /\ ReserveSourceSlotEpoch(run.repo, run.epoch)
          /\ run' = [run EXCEPT !.phase = "stage", !.epoch = run.epoch + 1]
       \/ ~HasSuccessor(run.epoch) /\ GoTo("failed") /\ UNCHANGED vars
    /\ UNCHANGED <<source, rowVars, past, since, disturbances>>

StageCandidate(g) ==
    /\ InPhase("stage")
    /\ StageSourceSlot(run.repo, run.epoch, g)
    /\ snapshot' = [snapshot EXCEPT ![g] = run.candidate]
    /\ required' = [required EXCEPT ![g] = {}]
    /\ built' = [built EXCEPT ![g] = {}]
    /\ planned' = [planned EXCEPT ![g] = run.todo]
    /\ run' = [run EXCEPT !.phase = "staging", !.gen = g]
    /\ UNCHANGED <<source, past, since, disturbances>>

StageStep ==
    /\ InPhase("staging")
    /\ StageAdvance
    /\ GoTo(IF staging' = 0 THEN "parts" ELSE "staging")
    /\ UNCHANGED <<source, rowVars, past, since, disturbances>>

(* A part is staged on a ready generation of the current epoch: first its  *)
(* requirement, then its rows, then its completion.                        *)
PartOwner(g) == lifecycle[g] = "ready" /\ genEpoch[g] = repoEpoch[genRepo[g]]

(* The order of publish_prepared_local_index_at_epoch.                     *)
NextPart(p) == p \in run.todo /\ \A q \in run.todo :
                  \/ p = q \/ p = "graph" \/ (p = "syntax" /\ q = "topology")

RequirePart(p) ==
    /\ InPhase("parts")
    /\ NextPart(p)
    /\ PartOwner(run.gen)
    /\ required' = [required EXCEPT ![run.gen] = @ \cup {p}]
    /\ GoTo("part")
    /\ UNCHANGED <<vars, source, snapshot, built, planned, past, since, disturbances>>

CompletePart(p) ==
    /\ InPhase("part")
    /\ NextPart(p)
    /\ PartOwner(run.gen)
    /\ built' = [built EXCEPT ![run.gen] = @ \cup {p}]
    /\ run' = [run EXCEPT !.phase = "parts", !.todo = @ \ {p}]
    /\ UNCHANGED <<vars, source, snapshot, required, planned, past, since, disturbances>>

Complete ==
    /\ InPhase("complete")
    /\ CompleteSourceSlotEpoch(run.repo, run.epoch, run.gen)
    /\ GoTo("activate")
    /\ UNCHANGED <<source, rowVars, past, since, disturbances>>

(* The activation triggers refuse a generation with an unfinished part.    *)
ActivateRun ==
    /\ InPhase("activate")
    /\ required[run.gen] \subseteq built[run.gen]
    /\ Activate(run.gen, run.epoch)
    /\ GoTo("succeeded")
    /\ UNCHANGED <<source, rowVars, past, since, disturbances>>

-----------------------------------------------------------------------------
(* Retention runs under the same lease and deletes the rows it collects.   *)
Sweep(garbage) ==
    /\ InPhase("started")
    /\ run.mode = "retention"
    /\ ApplyRetention(garbage)
    /\ snapshot' = [g \in Gen |-> IF g \in garbage THEN None ELSE snapshot[g]]
    /\ required' = [g \in Gen |-> IF g \in garbage THEN {} ELSE required[g]]
    /\ built' = [g \in Gen |-> IF g \in garbage THEN {} ELSE built[g]]
    /\ planned' = [g \in Gen |-> IF g \in garbage THEN {} ELSE planned[g]]
    /\ GoTo("succeeded")
    /\ UNCHANGED <<source, past, since, disturbances>>

NothingToSweep ==
    /\ InPhase("started")
    /\ run.mode = "retention"
    /\ \A g \in Gen : ~Eligible(g)
    /\ GoTo("succeeded")
    /\ UNCHANGED <<vars, source, rowVars, past, since, disturbances>>

-----------------------------------------------------------------------------
RunStep ==
    \/ \E r \in Repo : Begin(r, "reconcile")
    \/ \E c \in Snapshot, parts \in SUBSET Part : Prepare(c, parts)
    \/ StartWriter \/ Register \/ Inspect \/ Fence \/ Reserve
    \/ \E g \in Gen : StageCandidate(g)
    \/ StageStep
    \/ \E p \in Part : RequirePart(p) \/ CompletePart(p)
    \/ Complete \/ ActivateRun
    \/ \E garbage \in SUBSET Gen : Sweep(garbage)
    \/ NothingToSweep
    \/ Finish

IndexingNext ==
    \/ RunStep
    \/ \E r \in Repo, c \in Snapshot, back \in BOOLEAN : Edit(r, c, back)
    \/ \E r \in Repo, mode \in {"index", "retention"} : Begin(r, mode)
    \/ Abandon

IndexingSpec == IndexingInit /\ [][IndexingNext]_allVars

(* The polling runner reconciles again and again, and a run takes its next *)
(* step: every command has a deadline.                                     *)
FairIndexingSpec == IndexingSpec /\ WF_allVars(RunStep)

-----------------------------------------------------------------------------
(* Properties.                                                             *)

(* Every variable has its type.                                            *)
IndexingTypeOK ==
    /\ TypeOK
    /\ source \in [Repo -> Snapshot]
    /\ snapshot \in [Gen -> Snapshot \cup {None}]
    /\ required \in [Gen -> SUBSET Part]
    /\ built \in [Gen -> SUBSET Part]
    /\ planned \in [Gen -> SUBSET Part]
    /\ past \in SUBSET Snapshot
    /\ since \in SUBSET Snapshot
    /\ disturbances \in 0 .. MaxDisturbances
    /\ run \in [phase : Phases, mode : Modes, repo : Repo \cup {None},
                candidate : Snapshot \cup {None}, torn : BOOLEAN, reverted : BOOLEAN,
                epoch : Epoch, gen : Gen \cup {0}, todo : SUBSET Part]

(* A visible generation is whole: it has every part that the run which     *)
(* created it prepared, also when that run crashed and a later one resumed *)
(* the completed epoch.                                                    *)
WholeGenerations ==
    \A r \in Repo : activeGen[r] # 0 => built[activeGen[r]] = planned[activeGen[r]]

(* What a successful run reports is what readers see, and, unless an edit  *)
(* was taken back while the run read the source, it was the state of the   *)
(* source at some instant after the writer started: with that proviso, no  *)
(* mixture read by preparation and no source that has moved on is ever     *)
(* reported, also when the run finds its snapshot active or completed.     *)
SuccessIsFresh ==
    (InPhase("succeeded") /\ run.mode # "retention") =>
        /\ run.gen # 0 /\ activeGen[run.repo] = run.gen
        /\ ~run.reverted => snapshot[run.gen] \in since

(* Polling an unchanged source publishes nothing: a reconciling run        *)
(* activates a generation only if its snapshot differs from the active     *)
(* one's, whatever an interrupted run left behind.                         *)
IdlePollsPublishNothing ==
    [][\A r \in Repo :
          (run.mode = "reconcile" /\ activeGen[r] # 0 /\ activeGen'[r] # activeGen[r]) =>
              snapshot[activeGen'[r]] # snapshot[activeGen[r]]]_allVars

(* The index converges: once edits and faults cease, the active generation *)
(* is that of the worktree and stays so, whatever interrupted runs left    *)
(* behind in the store; only a repository whose epochs are used up, so     *)
(* that every run fails to reserve one, may stay behind.                   *)
Fresh(r) == activeGen[r] # 0 /\ snapshot[activeGen[r]] = source[r]

OutOfEpochs(r) == InPhase("reserve") /\ run.repo = r /\ ~HasSuccessor(run.epoch)

Converges == \A r \in Repo : <>[]Fresh(r) \/ []<>OutOfEpochs(r)
=============================================================================
