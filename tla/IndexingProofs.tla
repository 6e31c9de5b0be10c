--------------------------- MODULE IndexingProofs ---------------------------
(***************************************************************************)
(* Machine-checked safety of index runs over the store, for any number of  *)
(* repositories, snapshots, epochs, generations and faults.  Every step of *)
(* a run is a command of the store or leaves it alone, so everything that  *)
(* is proved of the store holds under index runs.                          *)
(***************************************************************************)
EXTENDS Indexing, GenerationStoreProofs

RunRecord == [phase : Phases, mode : Modes, repo : Repo \cup {None},
              candidate : Snapshot \cup {None}, torn : BOOLEAN, reverted : BOOLEAN,
              epoch : Epoch, gen : Gen \cup {0}, todo : SUBSET Part]

-----------------------------------------------------------------------------
(* The inductive invariant.                                                *)

IndexTypes ==
    /\ source \in [Repo -> Snapshot]
    /\ snapshot \in [Gen -> Snapshot \cup {None}]
    /\ required \in [Gen -> SUBSET Part]
    /\ built \in [Gen -> SUBSET Part]
    /\ planned \in [Gen -> SUBSET Part]
    /\ past \in SUBSET Snapshot
    /\ since \in SUBSET Snapshot
    /\ disturbances \in 0 .. MaxDisturbances
    /\ run \in RunRecord

(* Phases of a run whose writer is open.                                   *)
Opened == Phases \ {"idle", "preparing", "prepared", "failed"}

(* Phases in which a run has settled on the generation it will report.     *)
Building  == {"staging", "parts", "part"}
Confirmed == {"complete", "activate"}
Targeted  == Building \cup Confirmed \cup {"unchanged", "resume"}

(* Phases that end in an activation unless the run fails.                  *)
Publishing == {"reserve", "stage", "resume"} \cup Building \cup Confirmed

Whole(g) == built[g] = planned[g]

(* While the writer is open, the source is one of the snapshots it was in  *)
(* since the writer started.                                               *)
SourceInv ==
    /\ run.phase # "idle" => run.repo \in Repo
    /\ run.phase \in Opened => open /\ source[run.repo] \in since

(* The generation of a run is one of its repository and its candidate; the *)
(* fence has seen the candidate before an epoch is completed or resumed,   *)
(* unless an edit was taken back under it.                                 *)
TargetInv ==
    /\ run.phase \in Targeted =>
          /\ run.gen \in Gen
          /\ genRepo[run.gen] = run.repo
          /\ snapshot[run.gen] = run.candidate
    /\ run.phase = "unchanged" => activeGen[run.repo] = run.gen
    /\ (run.phase \in Confirmed /\ ~run.reverted) => run.candidate \in since

(* What is planned and not built is still to do, and nothing is when the   *)
(* run is past the fence.                                                  *)
ProgressInv ==
    /\ run.phase \in Building => planned[run.gen] = built[run.gen] \cup run.todo
    /\ run.phase \in Confirmed \cup {"resume"} => Whole(run.gen)

(* A receipt is only ever given to a whole generation: this is what makes  *)
(* a completed epoch safe to resume after a crash.                         *)
ReceiptsWhole == \A s \in Slot, e \in Epoch : receipt[s][e] # 0 => Whole(receipt[s][e])

(* A reconciling run that publishes found another snapshot active.         *)
PollInv ==
    (run.mode = "reconcile" /\ run.phase \in Publishing /\ activeGen[run.repo] # 0) =>
        snapshot[activeGen[run.repo]] # run.candidate

IndexingInv ==
    /\ IInv
    /\ IndexTypes
    /\ SourceInv
    /\ TargetInv
    /\ ProgressInv
    /\ ReceiptsWhole
    /\ PollInv
    /\ SuccessIsFresh

-----------------------------------------------------------------------------
(* A step that changes the phase of a run changes nothing else of it.      *)
LEMMA GoToFacts ==
    ASSUME IndexTypes, NEW p \in Phases, GoTo(p)
    PROVE  /\ run' \in RunRecord
           /\ run'.phase = p
           /\ run'.mode = run.mode /\ run'.repo = run.repo
           /\ run'.candidate = run.candidate /\ run'.epoch = run.epoch
           /\ run'.gen = run.gen /\ run'.todo = run.todo /\ run'.reverted = run.reverted
BY DEF IndexTypes, RunRecord, GoTo

(* The generation a receipt or an active pointer names is on record.       *)
LEMMA PointersExist ==
    ASSUME IInv
    PROVE  /\ \A s \in Slot, e \in Epoch : receipt[s][e] # 0 =>
                 receipt[s][e] \in Gen /\ lifecycle[receipt[s][e]] # "absent"
           /\ \A r \in Repo : activeGen[r] # 0 =>
                 /\ activeGen[r] \in Gen /\ lifecycle[activeGen[r]] # "absent"
                 /\ genRepo[activeGen[r]] = r
                 /\ \E e \in Epoch : receipt[r][e] = activeGen[r]
<1>1. \A s \in Slot, e \in Epoch : receipt[s][e] # 0 =>
         receipt[s][e] \in Gen /\ lifecycle[receipt[s][e]] # "absent"
  BY ReceiptFacts DEF IInv
<1>2. ASSUME NEW r \in Repo, activeGen[r] # 0
      PROVE  /\ activeGen[r] \in Gen /\ lifecycle[activeGen[r]] # "absent"
             /\ genRepo[activeGen[r]] = r
             /\ \E e \in Epoch : receipt[r][e] = activeGen[r]
  <2>1. activeGen[r] \in Gen /\ genEpoch[activeGen[r]] \in Epoch
    BY <1>2 DEF IInv, TypeOK
  <2>2. QED
    BY <1>2, <2>1 DEF IInv, OneActiveGeneration, ActiveInv
<1>3. QED
  BY <1>1, <1>2

(* A repository with a default slot is registered under it.                *)
LEMMA DefaultSlotFacts ==
    ASSUME IInv, NEW r \in Repo, slotOwner[r] # None
    PROVE  r \in registered /\ slotRepo[r] = r /\ slotOwner[r] = r
BY DEF IInv, SlotInv, DefaultSlotAgrees

-----------------------------------------------------------------------------
(* Index runs use the store only through its commands.                     *)

(* Every step of an index run is a command of the store or leaves it alone.*)
LEMMA StoreStep ==
    ASSUME IndexingInv, [IndexingNext]_allVars
    PROVE  [Next]_vars
<1> USE DEF IndexingInv, IndexTypes
<1>1. 0 \in Epoch /\ run.epoch \in Epoch /\ {"failed", "cancelled"} \subseteq Lifecycle
      /\ Repo \subseteq Slot
  BY StoreAssumption DEF RunRecord, Epoch, Lifecycle, Slot
<1>2. CASE RunStep
  <2>1. CASE StartWriter
    BY <2>1 DEF StartWriter, Next
  <2>2. CASE Register
    <3>1. run.repo \in Repo
      BY <2>2 DEF Register, InPhase, SourceInv
    <3>2. QED
      BY <2>2, <3>1, <1>1 DEF Register, Next
  <2>3. CASE Reserve
    <3>1. run.repo \in Slot
      BY <2>3, <1>1 DEF Reserve, InPhase, SourceInv
    <3>2. QED
      BY <2>3, <3>1, <1>1 DEF Reserve, Next
  <2>4. ASSUME NEW g \in Gen, StageCandidate(g)
        PROVE  Next
    <3>1. run.repo \in Slot
      BY <2>4, <1>1 DEF StageCandidate, InPhase, SourceInv
    <3>2. QED
      BY <2>4, <3>1, <1>1 DEF StageCandidate, Next
  <2>5. CASE StageStep
    BY <2>5 DEF StageStep, Next
  <2>6. CASE Complete
    <3>1. run.repo \in Slot /\ run.gen \in Gen
      BY <2>6, <1>1 DEF Complete, InPhase, SourceInv, TargetInv, Targeted, Confirmed
    <3>2. QED
      BY <2>6, <3>1, <1>1 DEF Complete, Next
  <2>7. CASE ActivateRun
    <3>1. run.gen \in Gen
      BY <2>7 DEF ActivateRun, InPhase, TargetInv, Targeted, Confirmed
    <3>2. QED
      BY <2>7, <3>1, <1>1 DEF ActivateRun, Next
  <2>8. ASSUME NEW garbage \in SUBSET Gen, Sweep(garbage)
        PROVE  Next
    BY <2>8 DEF Sweep, Next
  <2>9. CASE Finish
    BY <2>9 DEF Finish, Next
  <2>10. CASE \/ \E r \in Repo : Begin(r, "reconcile")
              \/ \E c \in Snapshot, parts \in SUBSET Part : Prepare(c, parts)
              \/ Inspect \/ Fence \/ NothingToSweep
              \/ \E p \in Part : RequirePart(p) \/ CompletePart(p)
    BY <2>10 DEF Begin, Prepare, Inspect, Fence, NothingToSweep, RequirePart, CompletePart
  <2>11. QED
    BY <1>2, <2>1, <2>2, <2>3, <2>4, <2>5, <2>6, <2>7, <2>8, <2>9, <2>10 DEF RunStep
<1>3. CASE Abandon
  <2>1. CASE UNCHANGED vars
    BY <2>1
  <2>2. CASE \E outcome \in {"failed", "cancelled"} : StageAbort(outcome)
    BY <2>2, <1>1 DEF Next
  <2>3. CASE InPhase("part") /\ \E outcome \in {"failed", "cancelled"} :
                StageArtifactsFailed(run.gen, outcome)
    <3>1. run.gen \in Gen
      BY <2>3 DEF InPhase, TargetInv, Targeted, Building
    <3>2. QED
      BY <2>3, <3>1, <1>1 DEF Next
  <2>4. QED
    BY <1>3, <2>1, <2>2, <2>3 DEF Abandon
<1>4. CASE \/ \E r \in Repo, c \in Snapshot, back \in BOOLEAN : Edit(r, c, back)
           \/ \E r \in Repo, mode \in {"index", "retention"} : Begin(r, mode)
  BY <1>4 DEF Edit, Begin
<1>5. CASE UNCHANGED allVars
  BY <1>5 DEF allVars
<1>6. QED
  BY <1>2, <1>3, <1>4, <1>5 DEF IndexingNext

-----------------------------------------------------------------------------
(* The index part of the invariant, action by action.  IndexInv is what    *)
(* remains of it once the store's part is known to be preserved.           *)
IndexInv ==
    /\ IndexTypes
    /\ SourceInv
    /\ TargetInv
    /\ ProgressInv
    /\ ReceiptsWhole
    /\ PollInv
    /\ SuccessIsFresh

(* The phases name phases.                                                 *)
LEMMA PhaseFacts ==
    /\ Targeted \subseteq Opened /\ Publishing \subseteq Opened
    /\ Building \subseteq Targeted /\ Confirmed \subseteq Targeted
    /\ Building \cap Confirmed = {} /\ "succeeded" \notin Targeted \cup Publishing
    /\ "succeeded" \in Opened /\ Opened \subseteq Phases
BY DEF Targeted, Opened, Publishing, Building, Confirmed, Phases

(* A run in a phase outside Opened promises nothing of the store.          *)
LEMMA QuietRun ==
    ASSUME IndexTypes', ReceiptsWhole', run'.phase \notin Opened,
           run'.phase # "idle" => run'.repo \in Repo
    PROVE  IndexInv'
BY PhaseFacts DEF IndexInv, SourceInv, TargetInv, ProgressInv, PollInv, SuccessIsFresh, InPhase,
    Confirmed, Opened, Phases

(* Receipts and parts untouched.                                           *)
LEMMA ReceiptsUntouched ==
    ASSUME ReceiptsWhole, UNCHANGED <<receipt, built, planned>>
    PROVE  ReceiptsWhole'
BY DEF ReceiptsWhole, Whole

(* The source changes under a run.                                         *)
LEMMA EditStep ==
    ASSUME IndexingInv, NEW r \in Repo, NEW c \in Snapshot, NEW back \in BOOLEAN, Edit(r, c, back)
    PROVE  IndexInv'
<1> USE DEF IndexingInv, IndexTypes, Edit, Disturb, rowVars
<1>1. /\ run' \in RunRecord
      /\ run'.phase = run.phase /\ run'.mode = run.mode /\ run'.repo = run.repo
      /\ run'.candidate = run.candidate /\ run'.gen = run.gen /\ run'.todo = run.todo
      /\ ~run'.reverted => ~run.reverted
  BY DEF RunRecord
<1>2. UNCHANGED <<open, genRepo, activeGen, receipt, snapshot, required, built, planned>>
  BY DEF vars, genVars
<1>3. IndexTypes'
  BY <1>1, <1>2, IndexingAssumption
<1>4. SourceInv' /\ since \subseteq since'
  BY <1>1, <1>2 DEF SourceInv, Opened
<1>5. TargetInv' /\ SuccessIsFresh'
  BY <1>1, <1>2, <1>4 DEF TargetInv, SuccessIsFresh, InPhase
<1>6. ProgressInv' /\ PollInv' /\ ReceiptsWhole'
  BY <1>1, <1>2, ReceiptsUntouched DEF ProgressInv, PollInv, Whole
<1>7. QED
  BY <1>3, <1>4, <1>5, <1>6 DEF IndexInv

(* A run ends by an error, a cancellation, a deadline or a crash.          *)
LEMMA AbandonStep ==
    ASSUME IndexingInv, Abandon
    PROVE  IndexInv'
<1> USE DEF IndexingInv, Abandon, Disturb, rowVars
<1>1. receipt' = receipt
  BY DEF vars, StageAbort, StageArtifactsFailed
<1>2. run' \in RunRecord /\ run'.phase = "failed" /\ run'.repo = run.repo
  BY GoToFacts DEF Phases
<1>3. IndexTypes'
  BY <1>2, IndexingAssumption DEF IndexTypes
<1>4. QED
  BY <1>1, <1>2, <1>3, QuietRun, ReceiptsUntouched DEF Opened, SourceInv

(* The writer shuts down and the lease is free.                            *)
LEMMA FinishStep ==
    ASSUME IndexingInv, Finish
    PROVE  IndexInv'
<1> USE DEF IndexingInv, Finish, rowVars
<1>1. receipt' = receipt
  BY DEF vars, Stop
<1>2. run' \in RunRecord /\ run'.phase = "idle"
  BY StoreAssumption DEF RunRecord, NoRun, Phases, Modes, Epoch
<1>3. IndexTypes'
  BY <1>2 DEF IndexTypes
<1>4. QED
  BY <1>1, <1>2, <1>3, QuietRun, ReceiptsUntouched DEF Opened

(* A run begins.                                                           *)
LEMMA BeginStep ==
    ASSUME IndexingInv, NEW r \in Repo, NEW mode \in Modes, Begin(r, mode)
    PROVE  IndexInv'
<1> USE DEF IndexingInv, Begin, Disturb, rowVars
<1>1. receipt' = receipt
  BY DEF vars
<1>2. run' \in RunRecord /\ run'.phase \in {"prepared", "preparing"} /\ run'.repo = r
  <2>1. NoRun \in RunRecord
    BY StoreAssumption DEF RunRecord, NoRun, Phases, Modes, Epoch
  <2>2. QED
    BY <2>1 DEF RunRecord, Phases
<1>3. IndexTypes'
  BY <1>2, IndexingAssumption DEF IndexTypes
<1>4. QED
  BY <1>1, <1>2, <1>3, QuietRun, ReceiptsUntouched DEF Opened

(* A candidate is read without a fence.                                    *)
LEMMA PrepareStep ==
    ASSUME IndexingInv, NEW c \in Snapshot, NEW parts \in SUBSET Part, Prepare(c, parts)
    PROVE  IndexInv'
<1> USE DEF IndexingInv, Prepare, rowVars
<1>1. receipt' = receipt
  BY DEF vars
<1>2. run' \in RunRecord /\ run'.phase = "prepared" /\ run'.repo = run.repo
  BY DEF RunRecord, Phases, IndexTypes
<1>3. IndexTypes'
  BY <1>2 DEF IndexTypes
<1>4. QED
  BY <1>1, <1>2, <1>3, QuietRun, ReceiptsUntouched DEF Opened, SourceInv, InPhase

(* The writer starts: the history of the source begins.                    *)
LEMMA StartWriterStep ==
    ASSUME IndexingInv, StartWriter
    PROVE  IndexInv'
<1> USE DEF IndexingInv, StartWriter, rowVars
<1>1. receipt' = receipt /\ open' = TRUE
  BY DEF Recover
<1>2. run' \in RunRecord /\ run'.phase = "started" /\ run'.repo = run.repo /\ run.repo \in Repo
  BY GoToFacts DEF Phases, SourceInv, InPhase
<1>3. IndexTypes' /\ source'[run'.repo] \in since'
  BY <1>2 DEF IndexTypes
<1>4. SourceInv'
  BY <1>1, <1>2, <1>3 DEF SourceInv
<1>5. TargetInv' /\ ProgressInv' /\ PollInv' /\ SuccessIsFresh'
  BY <1>2 DEF TargetInv, ProgressInv, PollInv, SuccessIsFresh, InPhase, Targeted, Confirmed,
      Building, Publishing
<1>6. QED
  BY <1>1, <1>3, <1>4, <1>5, ReceiptsUntouched DEF IndexInv

(* The workspace row and the default slot of the repository exist.         *)
LEMMA RegisterStep ==
    ASSUME IndexingInv, IInv', Register
    PROVE  IndexInv'
<1> USE DEF IndexingInv, Register, rowVars
<1>1. UNCHANGED <<open, genRepo, activeGen, receipt>>
  BY DEF EnsureWorkspace, genVars
<1>2. /\ run' \in RunRecord /\ run'.phase \in {"registered", "reserve"}
      /\ run'.repo = run.repo /\ run.repo \in Repo /\ run'.mode = run.mode
      /\ run'.phase = "reserve" => run.mode # "reconcile"
  <2>1. run.repo \in Repo /\ run \in RunRecord
    BY DEF SourceInv, InPhase, IndexTypes
  <2>2. repoEpoch'[run.repo] \in Epoch
    BY <2>1 DEF IInv, TypeOK
  <2>3. QED
    BY <2>1, <2>2 DEF RunRecord, Phases
<1>3. IndexTypes'
  BY <1>2 DEF IndexTypes
<1>4. SourceInv'
  BY <1>1, <1>2 DEF SourceInv, InPhase, Opened, Phases
<1>5. TargetInv' /\ ProgressInv' /\ PollInv' /\ SuccessIsFresh'
  BY <1>2 DEF TargetInv, ProgressInv, PollInv, SuccessIsFresh, InPhase, Targeted, Confirmed,
      Building, Publishing
<1>6. QED
  BY <1>1, <1>3, <1>4, <1>5, ReceiptsUntouched DEF IndexInv

(* The run decides: confirm the active generation, resume a completed one  *)
(* or publish a new one, and then the active snapshot is another.          *)
LEMMA InspectStep ==
    ASSUME IndexingInv, Inspect
    PROVE  IndexInv'
<1> DEFINE r == run.repo
           active == ActiveOf(r)
           completed == CompletionOf(r)
<1> USE DEF IndexingInv, rowVars
<1>1. /\ UNCHANGED <<open, genRepo, activeGen, receipt, past, since, source, disturbances>>
      /\ UNCHANGED <<snapshot, required, built, planned>>
      /\ run.phase = "registered"
  BY DEF Inspect, InPhase, vars, genVars
<1>2. r \in Repo /\ r \in Slot /\ run \in RunRecord /\ open /\ source[r] \in since
  BY <1>1 DEF SourceInv, IndexTypes, Slot, Opened, Phases
<1>3. active = activeGen[r]
  BY <1>2 DEF ActiveOf, IInv, PointerMatchesDefaultView
<1>4. slotEpoch[r] \in Epoch
  BY <1>2 DEF IInv, TypeOK
<1>5. completed \in Gen \cup {0} /\ active \in Gen \cup {0}
  BY <1>2, <1>3, <1>4 DEF CompletionOf, IInv, TypeOK
<1>6. ASSUME completed # 0
      PROVE  genRepo[completed] = r /\ Whole(completed)
  <2>1. completed = receipt[r][slotEpoch[r]]
    BY DEF CompletionOf
  <2>2. slotOwner[r] # None /\ genRepo[completed] = slotRepo[r]
    BY <1>2, <1>4, <1>6, <2>1, ReceiptFacts DEF IInv
  <2>3. QED
    BY <1>2, <1>4, <1>6, <2>1, <2>2, DefaultSlotFacts DEF ReceiptsWhole
<1>7. ASSUME active # 0
      PROVE  genRepo[active] = r
  BY <1>2, <1>3, <1>7, PointersExist
<1> HIDE DEF r, active, completed
<1>8. CASE HasSnapshot(active, run.candidate)
  <2>1. /\ run' \in RunRecord /\ run'.phase = "unchanged" /\ run'.mode = run.mode
        /\ run'.repo = r /\ run'.candidate = run.candidate /\ run'.gen = active
    BY <1>2, <1>5, <1>8 DEF Inspect, RunRecord, Phases, r, active, completed
  <2>2. active \in Gen /\ snapshot[active] = run.candidate
    BY <1>5, <1>8 DEF HasSnapshot
  <2>3. TargetInv'
    BY <1>1, <1>3, <1>7, <1>8, <2>1, <2>2 DEF TargetInv, HasSnapshot, Targeted, Confirmed
  <2>4. SourceInv' /\ IndexTypes'
    BY <1>1, <1>2, <2>1 DEF SourceInv, IndexTypes
  <2>5. ProgressInv' /\ PollInv' /\ SuccessIsFresh'
    BY <2>1 DEF ProgressInv, PollInv, SuccessIsFresh, InPhase, Building, Confirmed, Publishing
  <2>6. QED
    BY <1>1, <2>3, <2>4, <2>5, ReceiptsUntouched DEF IndexInv
<1>9. CASE ~HasSnapshot(active, run.candidate) /\ HasSnapshot(completed, run.candidate)
  <2>1. /\ run' \in RunRecord /\ run'.phase = "resume" /\ run'.mode = run.mode
        /\ run'.repo = r /\ run'.candidate = run.candidate /\ run'.gen = completed
    BY <1>2, <1>4, <1>5, <1>9 DEF Inspect, RunRecord, Phases, r, active, completed
  <2>2. completed \in Gen /\ completed # 0 /\ snapshot[completed] = run.candidate
    BY <1>5, <1>9 DEF HasSnapshot
  <2>3. TargetInv'
    BY <1>1, <1>6, <2>1, <2>2 DEF TargetInv, Targeted, Confirmed
  <2>4. SourceInv' /\ IndexTypes'
    BY <1>1, <1>2, <2>1 DEF SourceInv, IndexTypes
  <2>5. ProgressInv' /\ SuccessIsFresh'
    BY <1>1, <1>6, <2>1, <2>2 DEF ProgressInv, SuccessIsFresh, InPhase, Building, Confirmed, Whole
  <2>6. PollInv'
    BY <1>1, <1>3, <1>9, <2>1 DEF PollInv, HasSnapshot
  <2>7. QED
    BY <1>1, <2>3, <2>4, <2>5, <2>6, ReceiptsUntouched DEF IndexInv
<1>10. CASE ~HasSnapshot(active, run.candidate) /\ ~HasSnapshot(completed, run.candidate)
  <2>1. /\ run' \in RunRecord /\ run'.phase = "reserve" /\ run'.mode = run.mode
        /\ run'.repo = r /\ run'.candidate = run.candidate
    BY <1>2, <1>5, <1>10 DEF Inspect, RunRecord, Phases, r, active, completed
  <2>2. SourceInv' /\ IndexTypes'
    BY <1>1, <1>2, <2>1 DEF SourceInv, IndexTypes
  <2>3. TargetInv' /\ ProgressInv' /\ SuccessIsFresh'
    BY <2>1 DEF TargetInv, ProgressInv, SuccessIsFresh, InPhase, Targeted, Building, Confirmed
  <2>4. PollInv'
    BY <1>1, <1>3, <1>10, <2>1 DEF PollInv, HasSnapshot
  <2>5. QED
    BY <1>1, <2>2, <2>3, <2>4, ReceiptsUntouched DEF IndexInv
<1>11. QED
  BY <1>8, <1>9, <1>10

(* The final fence: what it confirms is what the source is now, unless an  *)
(* edit was taken back.                                                    *)
LEMMA FenceStep ==
    ASSUME IndexingInv, Fence
    PROVE  IndexInv'
<1> USE DEF IndexingInv, rowVars
<1>1. /\ UNCHANGED <<open, genRepo, activeGen, receipt, past, since, source, disturbances>>
      /\ UNCHANGED <<snapshot, required, built, planned>>
      /\ run.phase \in {"unchanged", "resume", "parts"} /\ PartsDone
  BY DEF Fence, NextPhase, vars, genVars
<1>2. run.repo \in Repo /\ run \in RunRecord /\ open /\ source[run.repo] \in since
  BY <1>1 DEF SourceInv, IndexTypes, Opened, Phases
<1>3. /\ run.gen \in Gen /\ genRepo[run.gen] = run.repo /\ snapshot[run.gen] = run.candidate
      /\ run.phase = "unchanged" => activeGen[run.repo] = run.gen
  BY <1>1 DEF TargetInv, Targeted, Building
<1>4. CASE GoTo("failed")
  <2>1. run' \in RunRecord /\ run'.phase = "failed" /\ run'.repo = run.repo
    BY <1>4, GoToFacts DEF Phases
  <2>2. IndexTypes'
    BY <1>1, <2>1 DEF IndexTypes
  <2>3. QED
    BY <1>1, <1>2, <2>1, <2>2, QuietRun, ReceiptsUntouched DEF Opened
<1>5. CASE FenceConfirms /\ GoTo(NextPhase[run.phase])
  <2>1. ~run.reverted => run.candidate \in since
    BY <1>2, <1>5 DEF FenceConfirms
  <2>2. NextPhase[run.phase] \in Phases /\ GoTo(NextPhase[run.phase])
    BY <1>1, <1>5 DEF NextPhase, Phases
  <2>3. /\ run' \in RunRecord /\ run'.phase = NextPhase[run.phase]
        /\ run'.mode = run.mode /\ run'.repo = run.repo
        /\ run'.candidate = run.candidate /\ run'.gen = run.gen /\ run'.todo = run.todo
        /\ run'.reverted = run.reverted
    BY <2>2, GoToFacts
  <2>4. IndexTypes' /\ SourceInv'
    BY <1>1, <1>2, <2>3 DEF IndexTypes, SourceInv
  <2>5. TargetInv'
    BY <1>1, <1>3, <2>1, <2>3 DEF TargetInv, NextPhase, Targeted, Confirmed, Building
  <2>6. run.phase \in {"resume", "parts"} => Whole(run.gen)
    BY <1>1 DEF ProgressInv, PartsDone, InPhase, Whole, Building, Confirmed
  <2>7. ProgressInv'
    BY <1>1, <2>3, <2>6 DEF ProgressInv, NextPhase, Building, Confirmed, Whole
  <2>8. PollInv'
    BY <1>1, <2>3 DEF PollInv, NextPhase, Publishing, Building, Confirmed
  <2>9. SuccessIsFresh'
    BY <1>1, <1>3, <2>1, <2>3, StoreAssumption DEF SuccessIsFresh, InPhase, NextPhase, Gen
  <2>10. QED
    BY <1>1, <2>4, <2>5, <2>7, <2>8, <2>9, ReceiptsUntouched DEF IndexInv
<1>6. QED
  BY <1>4, <1>5 DEF Fence

-----------------------------------------------------------------------------
(* Publication.                                                            *)

(* The run reserves the next epoch of its slot, or there is none.          *)
LEMMA ReserveStep ==
    ASSUME IndexingInv, Reserve
    PROVE  IndexInv'
<1> USE DEF IndexingInv, rowVars
<1>1. /\ UNCHANGED <<open, genRepo, activeGen, receipt, past, since, source, disturbances>>
      /\ UNCHANGED <<snapshot, required, built, planned>>
      /\ run.phase = "reserve"
  BY DEF Reserve, InPhase, ReserveSourceSlotEpoch, vars, genVars
<1>2. run.repo \in Repo /\ run \in RunRecord /\ open /\ source[run.repo] \in since
  BY <1>1 DEF SourceInv, IndexTypes, Opened, Phases
<1>3. CASE GoTo("failed")
  <2>1. run' \in RunRecord /\ run'.phase = "failed" /\ run'.repo = run.repo
    BY <1>3, GoToFacts DEF Phases
  <2>2. IndexTypes'
    BY <1>1, <2>1 DEF IndexTypes
  <2>3. QED
    BY <1>1, <1>2, <2>1, <2>2, QuietRun, ReceiptsUntouched DEF Opened
<1>4. CASE /\ HasSuccessor(run.epoch)
           /\ run' = [run EXCEPT !.phase = "stage", !.epoch = run.epoch + 1]
  <2>1. run.epoch + 1 \in Epoch
    BY <1>2, <1>4, StoreAssumption DEF HasSuccessor, RunRecord, Epoch
  <2>2. /\ run' \in RunRecord /\ run'.phase = "stage" /\ run'.mode = run.mode
        /\ run'.repo = run.repo /\ run'.candidate = run.candidate
    BY <1>2, <1>4, <2>1 DEF RunRecord, Phases
  <2>3. SourceInv' /\ IndexTypes'
    BY <1>1, <1>2, <2>2 DEF SourceInv, IndexTypes
  <2>4. TargetInv' /\ ProgressInv' /\ SuccessIsFresh'
    BY <2>2 DEF TargetInv, ProgressInv, SuccessIsFresh, InPhase, Targeted, Building, Confirmed
  <2>5. PollInv'
    BY <1>1, <2>2 DEF PollInv, Publishing
  <2>6. QED
    BY <1>1, <2>3, <2>4, <2>5, ReceiptsUntouched DEF IndexInv
<1>5. QED
  BY <1>3, <1>4 DEF Reserve, ReserveSourceSlotEpoch

(* A generation row is created: nothing visible or receipted has its id.   *)
LEMMA StageCandidateStep ==
    ASSUME IndexingInv, NEW g \in Gen, StageCandidate(g)
    PROVE  IndexInv'
<1> USE DEF IndexingInv
<1>1. /\ UNCHANGED <<open, activeGen, receipt, past, since, source, disturbances>>
      /\ run.phase = "stage" /\ slotOwner[run.repo] # None
      /\ genRepo' = [genRepo EXCEPT ![g] = slotRepo[run.repo]]
      /\ NextRowId(g)
  BY DEF StageCandidate, InPhase, StageSourceSlot, CreateGeneration
<1>2. run.repo \in Repo /\ run \in RunRecord /\ open /\ source[run.repo] \in since
  BY <1>1 DEF SourceInv, IndexTypes, Opened, Phases
<1>3. lifecycle[g] = "absent"
  BY <1>1, StoreAssumption DEF NextRowId, Exists, Gen
<1>4. /\ run' \in RunRecord /\ run'.phase = "staging" /\ run'.mode = run.mode
      /\ run'.repo = run.repo /\ run'.candidate = run.candidate /\ run'.gen = g
      /\ run'.todo = run.todo
  BY <1>2 DEF StageCandidate, RunRecord, Phases
<1>5. /\ snapshot' = [snapshot EXCEPT ![g] = run.candidate]
      /\ required' = [required EXCEPT ![g] = {}]
      /\ built' = [built EXCEPT ![g] = {}]
      /\ planned' = [planned EXCEPT ![g] = run.todo]
      /\ run.candidate \in Snapshot \cup {None} /\ run.todo \in SUBSET Part
  BY <1>2 DEF StageCandidate, RunRecord
<1>6. IndexTypes' /\ SourceInv'
  BY <1>1, <1>2, <1>4, <1>5 DEF IndexTypes, SourceInv
<1>7. genRepo'[g] = run.repo
  BY <1>1, <1>2, DefaultSlotFacts DEF IInv, TypeOK
<1>8. TargetInv' /\ ProgressInv' /\ SuccessIsFresh'
  BY <1>4, <1>5, <1>7 DEF TargetInv, ProgressInv, SuccessIsFresh, InPhase, Targeted, Building,
      Confirmed, IndexTypes
<1>9. ReceiptsWhole'
  <2>1. ASSUME NEW s \in Slot, NEW e \in Epoch, receipt'[s][e] # 0
        PROVE  Whole(receipt[s][e])'
    <3>1. receipt[s][e] \in Gen /\ receipt[s][e] # g /\ Whole(receipt[s][e])
      BY <1>1, <1>3, <2>1, PointersExist DEF ReceiptsWhole
    <3>2. QED
      BY <1>1, <1>5, <3>1 DEF Whole, IndexTypes
  <2>2. QED
    BY <2>1 DEF ReceiptsWhole
<1>10. PollInv'
  <2>1. activeGen[run.repo] # 0 => activeGen[run.repo] \in Gen /\ activeGen[run.repo] # g
    BY <1>2, <1>3, PointersExist
  <2>2. QED
    BY <1>1, <1>4, <1>5, <2>1 DEF PollInv, Publishing, IndexTypes
<1>11. QED
  BY <1>6, <1>8, <1>9, <1>10 DEF IndexInv

(* One lifecycle transition of the generation being staged.                *)
LEMMA StageStepStep ==
    ASSUME IndexingInv, StageStep
    PROVE  IndexInv'
<1> USE DEF IndexingInv, rowVars
<1>1. /\ UNCHANGED <<open, genRepo, activeGen, receipt, past, since, source, disturbances>>
      /\ UNCHANGED <<snapshot, required, built, planned>>
      /\ run.phase = "staging"
  BY DEF StageStep, InPhase, StageAdvance
<1>2. PICK p \in {"staging", "parts"} : GoTo(p)
  BY DEF StageStep
<1>3. /\ run' \in RunRecord /\ run'.phase \in {"staging", "parts"} /\ run'.mode = run.mode
      /\ run'.repo = run.repo /\ run'.candidate = run.candidate /\ run'.gen = run.gen
      /\ run'.todo = run.todo
  BY <1>2, GoToFacts DEF Phases
<1>4. SourceInv' /\ IndexTypes'
  BY <1>1, <1>3 DEF SourceInv, IndexTypes, Opened, Phases
<1>5. TargetInv' /\ ProgressInv' /\ SuccessIsFresh' /\ PollInv'
  BY <1>1, <1>3 DEF TargetInv, ProgressInv, SuccessIsFresh, PollInv, InPhase, Targeted, Building,
      Confirmed, Publishing
<1>6. QED
  BY <1>1, <1>4, <1>5, ReceiptsUntouched DEF IndexInv

(* A part is required of the generation before it is staged.               *)
LEMMA RequirePartStep ==
    ASSUME IndexingInv, NEW p \in Part, RequirePart(p)
    PROVE  IndexInv'
<1> USE DEF IndexingInv
<1>1. /\ UNCHANGED <<open, genRepo, activeGen, receipt, past, since, source, disturbances>>
      /\ UNCHANGED <<snapshot, built, planned>>
      /\ run.phase = "parts"
  BY DEF RequirePart, InPhase, vars, genVars
<1>2. /\ run' \in RunRecord /\ run'.phase = "part" /\ run'.mode = run.mode
      /\ run'.repo = run.repo /\ run'.candidate = run.candidate /\ run'.gen = run.gen
      /\ run'.todo = run.todo
  BY GoToFacts DEF RequirePart, Phases
<1>3. required' \in [Gen -> SUBSET Part]
  BY DEF RequirePart, IndexTypes
<1>4. SourceInv' /\ IndexTypes'
  BY <1>1, <1>2, <1>3 DEF SourceInv, IndexTypes, Opened, Phases
<1>5. TargetInv' /\ ProgressInv' /\ SuccessIsFresh' /\ PollInv'
  BY <1>1, <1>2 DEF TargetInv, ProgressInv, SuccessIsFresh, PollInv, InPhase, Targeted, Building,
      Confirmed, Publishing
<1>6. QED
  BY <1>1, <1>4, <1>5, ReceiptsUntouched DEF IndexInv

(* A part is complete: what is planned is still what is built or to do, so *)
(* a generation that was whole stays whole.                                *)
LEMMA CompletePartStep ==
    ASSUME IndexingInv, NEW p \in Part, CompletePart(p)
    PROVE  IndexInv'
<1> USE DEF IndexingInv
<1>1. /\ UNCHANGED <<open, genRepo, activeGen, receipt, past, since, source, disturbances>>
      /\ UNCHANGED <<snapshot, required, planned>>
      /\ run.phase = "part" /\ p \in run.todo
      /\ built' = [built EXCEPT ![run.gen] = @ \cup {p}]
  BY DEF CompletePart, InPhase, NextPart, vars, genVars
<1>2. run \in RunRecord /\ run.gen \in Gen /\ planned[run.gen] = built[run.gen] \cup run.todo
  BY <1>1 DEF IndexTypes, TargetInv, ProgressInv, Targeted, Building
<1>3. /\ run' \in RunRecord /\ run'.phase = "parts" /\ run'.mode = run.mode
      /\ run'.repo = run.repo /\ run'.candidate = run.candidate /\ run'.gen = run.gen
      /\ run'.todo = run.todo \ {p}
  BY <1>2 DEF CompletePart, RunRecord, Phases
<1>4. built' \in [Gen -> SUBSET Part]
  BY <1>1 DEF IndexTypes
<1>5. SourceInv' /\ IndexTypes'
  BY <1>1, <1>3, <1>4 DEF SourceInv, IndexTypes, Opened, Phases
<1>6. TargetInv' /\ SuccessIsFresh' /\ PollInv'
  BY <1>1, <1>3 DEF TargetInv, SuccessIsFresh, PollInv, InPhase, Targeted, Building,
      Confirmed, Publishing
<1>7. built'[run.gen] = built[run.gen] \cup {p}
  BY <1>1, <1>2 DEF IndexTypes
<1>8. ProgressInv'
  <2>1. planned[run.gen] = built'[run.gen] \cup (run.todo \ {p})
    BY <1>1, <1>2, <1>7
  <2>2. QED
    BY <1>1, <1>3, <2>1 DEF ProgressInv, Building, Confirmed
<1>9. \A g \in Gen : Whole(g) => Whole(g)'
  BY <1>1, <1>2, <1>7 DEF Whole, IndexTypes
<1>10. ReceiptsWhole'
  BY <1>1, <1>9, PointersExist DEF ReceiptsWhole
<1>11. QED
  BY <1>5, <1>6, <1>8, <1>10 DEF IndexInv

(* The receipt of the epoch is given to the run's generation, now whole.   *)
LEMMA CompleteRunStep ==
    ASSUME IndexingInv, Complete
    PROVE  IndexInv'
<1> USE DEF IndexingInv, rowVars
<1>1. /\ UNCHANGED <<open, genRepo, activeGen, past, since, source, disturbances>>
      /\ UNCHANGED <<snapshot, required, built, planned>>
      /\ run.phase = "complete"
      /\ receipt' = [receipt EXCEPT ![run.repo][run.epoch] = run.gen]
  BY DEF Complete, InPhase, CompleteSourceSlotEpoch, genVars
<1>2. /\ run' \in RunRecord /\ run'.phase = "activate" /\ run'.mode = run.mode
      /\ run'.repo = run.repo /\ run'.candidate = run.candidate /\ run'.gen = run.gen
      /\ run'.reverted = run.reverted
  BY GoToFacts DEF Complete, Phases
<1>3. Whole(run.gen)
  BY <1>1 DEF ProgressInv, Confirmed
<1>4. SourceInv' /\ IndexTypes'
  BY <1>1, <1>2 DEF SourceInv, IndexTypes, Opened, Phases
<1>5. TargetInv' /\ ProgressInv' /\ SuccessIsFresh' /\ PollInv'
  BY <1>1, <1>2, <1>3 DEF TargetInv, ProgressInv, SuccessIsFresh, PollInv, InPhase, Targeted,
      Building, Confirmed, Publishing, Whole
<1>6. \A s \in Slot, e \in Epoch : receipt'[s][e] \in {receipt[s][e], run.gen}
  BY <1>1 DEF IInv, TypeOK
<1>7. ReceiptsWhole'
  BY <1>1, <1>3, <1>6 DEF ReceiptsWhole, Whole
<1>8. QED
  BY <1>4, <1>5, <1>7 DEF IndexInv

(* The run's generation becomes the active one: it is whole, and its       *)
(* snapshot is one the source was in.                                      *)
LEMMA ActivateRunStep ==
    ASSUME IndexingInv, ActivateRun
    PROVE  /\ IndexInv'
           /\ activeGen' = [activeGen EXCEPT ![run.repo] = run.gen]
<1> USE DEF IndexingInv, rowVars
<1>1. /\ UNCHANGED <<open, genRepo, past, since, source, disturbances>>
      /\ UNCHANGED <<snapshot, required, built, planned>>
      /\ run.phase = "activate"
      /\ activeGen' = [activeGen EXCEPT ![genRepo[run.gen]] = run.gen]
      /\ receipt' = [receipt EXCEPT ![genRepo[run.gen]][run.epoch] = run.gen]
  BY DEF ActivateRun, InPhase, Activate
<1>2. /\ run.repo \in Repo /\ run.gen \in Gen /\ genRepo[run.gen] = run.repo
      /\ snapshot[run.gen] = run.candidate /\ Whole(run.gen)
      /\ ~run.reverted => run.candidate \in since
      /\ open /\ source[run.repo] \in since
  BY <1>1 DEF SourceInv, TargetInv, ProgressInv, Targeted, Confirmed, Opened, Phases
<1>3. /\ run' \in RunRecord /\ run'.phase = "succeeded" /\ run'.mode = run.mode
      /\ run'.repo = run.repo /\ run'.candidate = run.candidate /\ run'.gen = run.gen
      /\ run'.reverted = run.reverted
  BY GoToFacts DEF ActivateRun, Phases
<1>4. SourceInv' /\ IndexTypes'
  BY <1>1, <1>2, <1>3 DEF SourceInv, IndexTypes
<1>5. TargetInv' /\ ProgressInv' /\ PollInv'
  BY <1>3 DEF TargetInv, ProgressInv, PollInv, Targeted, Building, Confirmed, Publishing
<1>6. \A s \in Slot, e \in Epoch : receipt'[s][e] \in {receipt[s][e], run.gen}
  BY <1>1 DEF IInv, TypeOK
<1>7. ReceiptsWhole'
  BY <1>1, <1>2, <1>6 DEF ReceiptsWhole, Whole
<1>8. activeGen'[run.repo] = run.gen /\ run.gen # 0
  BY <1>1, <1>2, StoreAssumption DEF IInv, TypeOK, Gen
<1>9. SuccessIsFresh'
  BY <1>1, <1>2, <1>3, <1>8 DEF SuccessIsFresh
<1>10. QED
  BY <1>1, <1>2, <1>4, <1>5, <1>7, <1>9 DEF IndexInv

(* A sweep deletes rows that no receipt names any more.                    *)
LEMMA SweepStep ==
    ASSUME IndexingInv, NEW garbage \in SUBSET Gen, Sweep(garbage)
    PROVE  IndexInv'
<1> USE DEF IndexingInv
<1>1. /\ UNCHANGED <<open, past, since, source, disturbances>>
      /\ run.phase = "started" /\ run.mode = "retention"
      /\ receipt' = [s \in Slot |-> [e \in Epoch |->
                        IF receipt[s][e] \in garbage THEN 0 ELSE receipt[s][e]]]
      /\ snapshot' = [g \in Gen |-> IF g \in garbage THEN None ELSE snapshot[g]]
      /\ required' = [g \in Gen |-> IF g \in garbage THEN {} ELSE required[g]]
      /\ built' = [g \in Gen |-> IF g \in garbage THEN {} ELSE built[g]]
      /\ planned' = [g \in Gen |-> IF g \in garbage THEN {} ELSE planned[g]]
  BY DEF Sweep, InPhase, ApplyRetention
<1>2. /\ run' \in RunRecord /\ run'.phase = "succeeded" /\ run'.mode = run.mode
      /\ run'.repo = run.repo
  BY GoToFacts DEF Sweep, Phases
<1>3. /\ snapshot' \in [Gen -> Snapshot \cup {None}] /\ required' \in [Gen -> SUBSET Part]
      /\ built' \in [Gen -> SUBSET Part] /\ planned' \in [Gen -> SUBSET Part]
  BY <1>1 DEF IndexTypes
<1>4. SourceInv' /\ IndexTypes'
  BY <1>1, <1>2, <1>3 DEF SourceInv, IndexTypes, Opened, Phases
<1>5. TargetInv' /\ ProgressInv' /\ PollInv' /\ SuccessIsFresh'
  BY <1>1, <1>2 DEF TargetInv, ProgressInv, PollInv, SuccessIsFresh, Targeted, Building,
      Confirmed, Publishing
<1>6. ReceiptsWhole'
  <2>1. ASSUME NEW s \in Slot, NEW e \in Epoch, receipt'[s][e] # 0
        PROVE  Whole(receipt[s][e])'
    <3>1. /\ receipt'[s][e] = receipt[s][e] /\ receipt[s][e] \notin garbage
          /\ receipt[s][e] \in Gen /\ Whole(receipt[s][e])
      BY <1>1, <2>1, PointersExist DEF ReceiptsWhole
    <3>2. QED
      BY <1>1, <3>1 DEF Whole
  <2>2. QED
    BY <2>1 DEF ReceiptsWhole
<1>7. QED
  BY <1>4, <1>5, <1>6 DEF IndexInv

(* A retention run finds nothing to collect.                               *)
LEMMA NothingToSweepStep ==
    ASSUME IndexingInv, NothingToSweep
    PROVE  IndexInv'
<1> USE DEF IndexingInv, rowVars
<1>1. /\ UNCHANGED <<open, receipt, past, since, source, disturbances>>
      /\ UNCHANGED <<snapshot, required, built, planned>>
      /\ run.phase = "started" /\ run.mode = "retention"
  BY DEF NothingToSweep, InPhase, vars
<1>2. /\ run' \in RunRecord /\ run'.phase = "succeeded" /\ run'.mode = run.mode
      /\ run'.repo = run.repo
  BY GoToFacts DEF NothingToSweep, Phases
<1>3. SourceInv' /\ IndexTypes'
  BY <1>1, <1>2 DEF SourceInv, IndexTypes, Opened, Phases
<1>4. TargetInv' /\ ProgressInv' /\ PollInv' /\ SuccessIsFresh'
  BY <1>1, <1>2 DEF TargetInv, ProgressInv, PollInv, SuccessIsFresh, Targeted, Building,
      Confirmed, Publishing
<1>5. QED
  BY <1>1, <1>3, <1>4, ReceiptsUntouched DEF IndexInv

-----------------------------------------------------------------------------
(* The invariant is inductive.                                             *)

(* The initial states satisfy the invariant.                               *)
LEMMA IndexingInitInv ==
    ASSUME IndexingInit
    PROVE  IndexingInv
<1> USE DEF IndexingInit
<1>1. IInv
  BY InitInv
<1>2. run \in RunRecord /\ run.phase = "idle"
  BY StoreAssumption DEF RunRecord, NoRun, Phases, Modes, Epoch
<1>3. IndexTypes
  BY <1>2, IndexingAssumption DEF IndexTypes
<1>4. ReceiptsWhole
  BY DEF ReceiptsWhole, Init, Slot, Epoch
<1>5. QED
  BY <1>1, <1>2, <1>3, <1>4 DEF IndexingInv, SourceInv, TargetInv, ProgressInv, PollInv,
      SuccessIsFresh, InPhase, Opened, Targeted, Building, Confirmed, Publishing

(* Every step of an index run, and every change under it, preserves the    *)
(* invariant.                                                              *)
LEMMA IndexingNextInv ==
    ASSUME IndexingInv, [IndexingNext]_allVars
    PROVE  IndexingInv'
<1>1. IInv'
  BY StoreStep, NextInv DEF IndexingInv
<1> SUFFICES IndexInv'
  BY <1>1 DEF IndexInv, IndexingInv
<1>2. CASE RunStep
  <2>1. ASSUME NEW r \in Repo, Begin(r, "reconcile")
        PROVE  IndexInv'
    BY <2>1, BeginStep DEF Modes
  <2>2. CASE \E c \in Snapshot, parts \in SUBSET Part : Prepare(c, parts)
    BY <2>2, PrepareStep
  <2>3. CASE StartWriter \/ Register \/ Inspect \/ Fence \/ Reserve
    BY <1>1, <2>3, StartWriterStep, RegisterStep, InspectStep, FenceStep, ReserveStep
  <2>4. CASE (\E g \in Gen : StageCandidate(g)) \/ StageStep
    BY <2>4, StageCandidateStep, StageStepStep
  <2>5. CASE \E p \in Part : RequirePart(p) \/ CompletePart(p)
    BY <2>5, RequirePartStep, CompletePartStep
  <2>6. CASE Complete \/ ActivateRun
    BY <2>6, CompleteRunStep, ActivateRunStep
  <2>7. CASE (\E garbage \in SUBSET Gen : Sweep(garbage)) \/ NothingToSweep \/ Finish
    BY <2>7, SweepStep, NothingToSweepStep, FinishStep
  <2>8. QED
    BY <1>2, <2>1, <2>2, <2>3, <2>4, <2>5, <2>6, <2>7 DEF RunStep
<1>3. CASE \/ \E r \in Repo, c \in Snapshot, back \in BOOLEAN : Edit(r, c, back)
           \/ \E r \in Repo, mode \in {"index", "retention"} : Begin(r, mode)
           \/ Abandon
  <2>1. ASSUME NEW r \in Repo, NEW mode \in {"index", "retention"}, Begin(r, mode)
        PROVE  IndexInv'
    BY <2>1, BeginStep DEF Modes
  <2>2. QED
    BY <1>3, <2>1, EditStep, AbandonStep
<1>4. CASE UNCHANGED allVars
  <2>1. UNCHANGED <<open, genRepo, activeGen, receipt>> /\ UNCHANGED indexVars
    BY <1>4 DEF allVars, vars, genVars
  <2>2. QED
    BY <2>1 DEF IndexInv, IndexingInv, IndexTypes, SourceInv, TargetInv, ProgressInv, ReceiptsWhole,
        PollInv, SuccessIsFresh, InPhase, Whole, indexVars
<1>5. QED
  BY <1>2, <1>3, <1>4 DEF IndexingNext

(* The invariant of index runs holds in every reachable state.             *)
THEOREM IndexingInvariance == IndexingSpec => []IndexingInv
<1>1. IndexingInit => IndexingInv
  BY IndexingInitInv
<1>2. IndexingInv /\ [IndexingNext]_allVars => IndexingInv'
  BY IndexingNextInv
<1>3. QED
  BY <1>1, <1>2, PTL DEF IndexingSpec

-----------------------------------------------------------------------------
(* What the invariant says of the properties.                              *)

(* Index runs use the store only through its commands, so every theorem    *)
(* about the store holds of a store that index runs write.                 *)
THEOREM IndexRunsUseTheStore == IndexingSpec => Spec
<1>1. IndexingInit => Init
  BY DEF IndexingInit
<1>2. IndexingInv /\ [IndexingNext]_allVars => [Next]_vars
  BY StoreStep
<1>3. QED
  BY <1>1, <1>2, IndexingInvariance, PTL DEF IndexingSpec, Spec

(* The state of an index run keeps its types; the epoch it works at is one *)
(* the store can represent.                                                *)
THEOREM IndexingTypes == IndexingSpec => []IndexingTypeOK
<1>1. IndexingInv => IndexingTypeOK
  BY DEF IndexingInv, IInv, IndexTypes, RunRecord, IndexingTypeOK
<1>2. QED
  BY <1>1, IndexingInvariance, PTL

(* Whatever interrupts runs, a visible generation has every part that the  *)
(* run which created it prepared.                                          *)
THEOREM VisibleIsWhole == IndexingSpec => []WholeGenerations
<1>1. IndexingInv => WholeGenerations
  <2> SUFFICES ASSUME IndexingInv, NEW r \in Repo, activeGen[r] # 0
               PROVE  built[activeGen[r]] = planned[activeGen[r]]
    BY DEF WholeGenerations
  <2>1. PICK e \in Epoch : receipt[r][e] = activeGen[r]
    BY PointersExist DEF IndexingInv
  <2>2. QED
    BY <2>1 DEF IndexingInv, ReceiptsWhole, Whole, Slot
<1>2. QED
  BY <1>1, IndexingInvariance, PTL

(* A successful run reports the active generation; unless an edit was      *)
(* taken back while the run read the source, its snapshot is one the       *)
(* source was in after the writer started.                                 *)
THEOREM ReportedIsFresh == IndexingSpec => []SuccessIsFresh
<1>1. IndexingInv => SuccessIsFresh
  BY DEF IndexingInv
<1>2. QED
  BY <1>1, IndexingInvariance, PTL

(* A reconciling run never replaces the active generation by one of the    *)
(* same snapshot.                                                          *)
THEOREM IdlePolls == IndexingSpec => IdlePollsPublishNothing
<1> DEFINE Differs == \A r \in Repo :
              (run.mode = "reconcile" /\ activeGen[r] # 0 /\ activeGen'[r] # activeGen[r]) =>
                  snapshot[activeGen'[r]] # snapshot[activeGen[r]]
<1>1. ASSUME IndexingInv, IndexingNext, ~ActivateRun
      PROVE  activeGen' = activeGen
  BY <1>1 DEF IndexingNext, RunStep, Begin, Prepare, StartWriter, Recover, Register,
      EnsureWorkspace, Inspect, Fence, Reserve, ReserveSourceSlotEpoch, StageCandidate,
      StageSourceSlot, CreateGeneration, StageStep, StageAdvance, RequirePart, CompletePart,
      Complete, CompleteSourceSlotEpoch, Sweep, ApplyRetention, NothingToSweep, Finish, Stop,
      Edit, Abandon, StageAbort, StageArtifactsFailed, vars
<1>2. ASSUME IndexingInv, ActivateRun
      PROVE  Differs
  <2>1. activeGen' = [activeGen EXCEPT ![run.repo] = run.gen]
    BY <1>2, ActivateRunStep
  <2>2. run.phase = "activate" /\ snapshot[run.gen] = run.candidate /\ run.repo \in Repo
    BY <1>2 DEF ActivateRun, InPhase, IndexingInv, TargetInv, SourceInv, Targeted, Confirmed
  <2>3. QED
    BY <1>2, <2>1, <2>2 DEF IndexingInv, IInv, TypeOK, PollInv, Publishing, Confirmed
<1>3. IndexingInv /\ [IndexingNext]_allVars => [Differs]_allVars
  BY <1>1, <1>2
<1>4. QED
  BY <1>3, IndexingInvariance, PTL DEF IndexingSpec, IdlePollsPublishNothing
=============================================================================
