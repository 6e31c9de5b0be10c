--------------------- MODULE GenerationLifecycleProofs ---------------------
(***************************************************************************)
(* Machine-checked safety of the life of generations over the store: how   *)
(* connected-workspace runs publish them, for any manifest and any number  *)
(* of edits, faults, epochs and generations, and how retention collects    *)
(* them, for any number of repositories, snapshots, records, overlays and  *)
(* plans and any limits.  Each part rests on the store's own invariant.    *)
(***************************************************************************)
EXTENDS ConnectedIndexing, Retention, GenerationStoreProofs, FiniteSetTheorems,
        WellFoundedInduction

-----------------------------------------------------------------------------
(***************************************************************************)
(* Connected-workspace runs.                                               *)
(*                                                                         *)
(* The argument: a run's observations were taken before its milestone, and *)
(* each is found unchanged after it.  A worktree never returns to an older *)
(* version, so at the milestone itself all worktrees were in the versions  *)
(* observed.  Generations are numbered upwards, so what a run stages is    *)
(* newer than every member of the view that is visible meanwhile, and the  *)
(* lease keeps that view in place until the run replaces it.               *)
(***************************************************************************)

JobPhase == {"idle", "start", "register", "connect", "probe", "prepare", "reuse",
             "reserve", "stage", "staging", "fence", "complete", "confirm",
             "publish", "succeeded", "failed"}

JobRecord == [phase : JobPhase, refresh : BOOLEAN, at : Position, torn : BOOLEAN,
              seen : [Position -> Version \cup {Mixed}], gen : Gen \cup {0}]

-----------------------------------------------------------------------------
(* The inductive invariant.                                                *)

(* Every edit is a disturbance, so the versions cannot run out.            *)
JobTypes ==
    /\ worktree \in [Position -> Version]
    /\ \A i \in Position : worktree[i] <= disturbances + 1
    /\ indexed \in [Gen -> Version \cup {Mixed}]
    /\ job \in JobRecord
    /\ together \subseteq [Position -> Version]
    /\ disturbances \in 0 .. MaxDisturbances

(* The run is registered as the owner of the manifest's slots.             *)
Building  == {"reserve", "stage", "staging", "fence", "complete"}
Finishing == {"confirm", "publish"}
Joined    == {"probe", "prepare", "reuse"} \cup Building \cup Finishing

VisibleGen(i) == activeView[Connected].gen[SlotAt(i)]

(* The visible view shows nothing a worktree has not been in yet.          *)
VisibleInv ==
    activeView[Connected] # None => \A i \in Position :
        slotOwner[SlotAt(i)] = Connected /\ indexed[VisibleGen(i)] <= worktree[i]

MemberInv ==
    /\ job.phase \in Joined => \A i \in Position : slotOwner[SlotAt(i)] = Connected
    /\ job.phase \in {"probe", "reuse"} => activeView[Connected] # None

(* Neither does a run observe one.                                         *)
SeenInv == \A i \in Position : job.seen[i] <= worktree[i]

(* A generation newer than every member of the visible view.               *)
Newer(g) == activeView[Connected] # None => \A j \in Position : VisibleGen(j) < g

(* What is being built for a worktree is what was seen of it.              *)
StagedInv ==
    job.phase \in {"staging", "fence", "complete"} =>
        job.gen \in Gen /\ indexed[job.gen] = job.seen[job.at] /\ Newer(job.gen)

(* A worktree is done: its slot's current epoch has such a generation.     *)
Done(i) ==
    LET g == receipt[SlotAt(i)][slotEpoch[SlotAt(i)]] IN
    g # 0 /\ indexed[g] = job.seen[i] /\ Newer(g)

DoneInv ==
    \A i \in Position :
        (job.phase \in Finishing \/ (job.phase \in Building /\ i < job.at)) => Done(i)

(* A joint version since the milestone between what was seen, or shown,    *)
(* before it and what the worktrees are in now.                            *)
Instant(m) ==
    \A i \in Position :
        /\ job.seen[i] <= m[i] /\ m[i] <= worktree[i]
        /\ activeView[Connected] # None => indexed[VisibleGen(i)] <= m[i]

(* It is the joint version observed as far as the last check has come.     *)
InstantInv ==
    job.phase \in Finishing \cup {"reuse"} => \E m \in together :
        /\ Instant(m)
        /\ \A i \in Position : (job.phase = "publish" \/ i < job.at) => m[i] = job.seen[i]

(* As far as a reuse has come, the view shows what was observed.           *)
ReuseInv ==
    job.phase = "reuse" => \A i \in Position :
        i < job.at => indexed[VisibleGen(i)] = job.seen[i]

(* The part of the invariant that is about runs, and all of it.            *)
JobInv ==
    /\ JobTypes
    /\ VisibleInv
    /\ MemberInv
    /\ SeenInv
    /\ StagedInv
    /\ DoneInv
    /\ InstantInv
    /\ ReuseInv
    /\ SuccessIsOneInstant

ConnectedInv == IInv /\ JobInv

-----------------------------------------------------------------------------
(* The manifest names each of its slots once, and no default slot.         *)
LEMMA ManifestFacts ==
    /\ Len(Manifest) \in Nat /\ Len(Manifest) >= 1 /\ Position = 1 .. Len(Manifest)
    /\ \A i \in Position : /\ SlotAt(i) \in ConfiguredSlot /\ SlotAt(i) \in Slot
                           /\ SlotAt(i) \notin Repo /\ Manifest[i].repo \in Repo
    /\ \A i, j \in Position : SlotAt(i) = SlotAt(j) => i = j
    /\ Connected \in ConfiguredWorkspace /\ Connected \in Workspace
    /\ Connected \notin Repo /\ Connected # None
    /\ MaxDisturbances \in Nat
<1>1. Len(Manifest) \in Nat /\ Len(Manifest) >= 1 /\ Position = 1 .. Len(Manifest)
  BY ConnectedAssumption DEF Position
<1>2. ASSUME NEW i \in Position
      PROVE  Manifest[i] \in [slot : ConfiguredSlot, repo : Repo]
  <2> DEFINE Entries == [slot : ConfiguredSlot, repo : Repo]
  <2>1. Manifest \in Seq(Entries) /\ i \in 1 .. Len(Manifest)
    BY <1>1, ConnectedAssumption
  <2> HIDE DEF Entries
  <2>2. Manifest[i] \in Entries
    BY <2>1
  <2>3. QED
    BY <2>2 DEF Entries
<1>3. \A i \in Position : SlotAt(i) \in ConfiguredSlot /\ Manifest[i].repo \in Repo
  BY <1>2 DEF SlotAt
<1>4. QED
  BY <1>1, <1>3, ConnectedAssumption, StoreAssumption DEF SlotAt, Slot, Workspace

(* What connect_workspace is given maps configured slots to repositories.  *)
LEMMA MappingFacts ==
    /\ DOMAIN Mapping = {SlotAt(i) : i \in Position}
    /\ DOMAIN Mapping \in SUBSET ConfiguredSlot
    /\ Mapping \in [DOMAIN Mapping -> Repo]
<1>1. DOMAIN Mapping = {SlotAt(i) : i \in Position}
  BY DEF Mapping
<1>2. DOMAIN Mapping \in SUBSET ConfiguredSlot
  BY <1>1, ManifestFacts
<1>3. ASSUME NEW s \in {SlotAt(i) : i \in Position}
      PROVE  Manifest[CHOOSE i \in Position : SlotAt(i) = s].repo \in Repo
  <2>1. \E i \in Position : SlotAt(i) = s
    OBVIOUS
  <2>2. (CHOOSE i \in Position : SlotAt(i) = s) \in Position
    BY <2>1
  <2>3. QED
    BY <2>2, ManifestFacts
<1>4. QED
  BY <1>1, <1>2, <1>3 DEF Mapping

(* The members of the visible view are generations on record.              *)
LEMMA VisibleMembers ==
    ASSUME IInv, VisibleInv, activeView[Connected] # None, NEW i \in Position
    PROVE  VisibleGen(i) \in Gen /\ Exists(VisibleGen(i)) /\ slotOwner[SlotAt(i)] = Connected
<1>1. SlotAt(i) \in SlotsOf(Connected)
  BY ManifestFacts DEF VisibleInv, SlotsOf
<1>2. VisibleGen(i) \in Gen /\ lifecycle[VisibleGen(i)] \in Readable
  BY <1>1, ManifestFacts, ActiveViewFacts DEF IInv, VisibleGen
<1>3. QED
  BY <1>2 DEF VisibleInv, Exists, Readable

(* The current receipt of a worktree's slot, when there is one.            *)
LEMMA CurrentReceipt ==
    ASSUME IInv, NEW i \in Position
    PROVE  /\ slotEpoch[SlotAt(i)] \in Epoch
           /\ receipt[SlotAt(i)][slotEpoch[SlotAt(i)]] \in Gen \cup {0}
           /\ receipt[SlotAt(i)][slotEpoch[SlotAt(i)]] # 0 =>
                 Exists(receipt[SlotAt(i)][slotEpoch[SlotAt(i)]])
<1>1. SlotAt(i) \in Slot
  BY ManifestFacts
<1>2. slotEpoch[SlotAt(i)] \in Epoch
  BY <1>1 DEF IInv, TypeOK
<1>3. receipt[SlotAt(i)][slotEpoch[SlotAt(i)]] \in Gen \cup {0}
  BY <1>1, <1>2 DEF IInv, TypeOK
<1>4. QED
  BY <1>1, <1>2, <1>3, ReceiptFacts DEF IInv, Exists

(* The job fields.                                                         *)
LEMMA JobFields ==
    ASSUME JobTypes
    PROVE  /\ job.phase \in JobPhase /\ job.refresh \in BOOLEAN /\ job.at \in Position
           /\ job.torn \in BOOLEAN /\ job.seen \in [Position -> Version \cup {Mixed}]
           /\ job.gen \in Gen \cup {0}
           /\ job = [phase |-> job.phase, refresh |-> job.refresh, at |-> job.at,
                     torn |-> job.torn, seen |-> job.seen, gen |-> job.gen]
BY DEF JobTypes, JobRecord

(* A step that only changes the phase of a run.                            *)
LEMMA JobGoTo ==
    ASSUME JobTypes, NEW p \in JobPhase, GoTo(p)
    PROVE  /\ job' \in JobRecord
           /\ job'.phase = p /\ job'.at = job.at /\ job'.seen = job.seen /\ job'.gen = job.gen
BY DEF JobTypes, JobRecord, GoTo

(* The next worktree or the next phase.                                    *)
LEMMA JobNextOr ==
    ASSUME JobTypes, NEW p \in JobPhase
    PROVE  /\ NextOr(p) \in JobRecord
           /\ NextOr(p).seen = job.seen /\ NextOr(p).gen = job.gen
           /\ \/ /\ job.at < Len(Manifest) /\ ~LastOne
                 /\ NextOr(p).phase = job.phase /\ NextOr(p).at = job.at + 1
              \/ /\ job.at = Len(Manifest) /\ LastOne
                 /\ NextOr(p).phase = p /\ NextOr(p).at = 1
<1>1. job \in JobRecord /\ job.at \in 1 .. Len(Manifest) /\ Len(Manifest) \in Nat
  BY ManifestFacts DEF JobTypes, JobRecord
<1>2. CASE job.at < Len(Manifest)
  <2>1. job.at + 1 \in Position
    BY <1>1, <1>2, ManifestFacts
  <2>2. NextOr(p) = [job EXCEPT !.at = job.at + 1] /\ ~LastOne
    BY <1>1, <1>2 DEF NextOr, LastOne
  <2>3. QED
    BY <1>1, <1>2, <2>1, <2>2 DEF JobRecord
<1>3. CASE job.at = Len(Manifest)
  <2>1. 1 \in Position
    BY ManifestFacts
  <2>2. NextOr(p) = [job EXCEPT !.phase = p, !.at = 1] /\ LastOne
    BY <1>1, <1>3 DEF NextOr, LastOne
  <2>3. QED
    BY <1>1, <1>3, <2>1, <2>2 DEF JobRecord
<1>4. QED
  BY <1>1, <1>2, <1>3

-----------------------------------------------------------------------------
(* Every step of a connected run is a command of the store or leaves it    *)
(* alone.                                                                  *)
LEMMA JobStoreStep ==
    ASSUME ConnectedInv, [ConnectedNext]_allVars
    PROVE  [Next]_vars
<1>1. /\ 0 \in Epoch /\ {"failed", "cancelled"} \subseteq Lifecycle
      /\ job.at \in Position /\ Here \in Slot /\ slotEpoch[Here] \in Epoch
  <2>1. job.at \in Position
    BY JobFields DEF ConnectedInv, JobInv
  <2>2. QED
    BY <2>1, StoreAssumption, ManifestFacts, CurrentReceipt
    DEF ConnectedInv, Epoch, Lifecycle, Here
<1>2. CASE RunStep
  <2>1. CASE StartWriter
    BY <2>1 DEF StartWriter, Next
  <2>2. CASE Register
    BY <2>2, <1>1, ManifestFacts DEF Register, Next
  <2>3. CASE Connect
    <3>1. CASE AlreadyConnected
      BY <2>3, <3>1 DEF Connect
    <3>2. CASE ConnectWorkspace(Connected, Mapping)
      BY <3>2, MappingFacts, ManifestFacts DEF Next
    <3>3. QED
      BY <2>3, <3>1, <3>2 DEF Connect
  <2>4. CASE Reserve
    BY <2>4, <1>1 DEF Reserve, Next
  <2>5. ASSUME NEW g \in Gen, StageCandidate(g)
        PROVE  Next
    BY <2>5, <1>1 DEF StageCandidate, Next
  <2>6. CASE StageStep
    BY <2>6 DEF StageStep, Next
  <2>7. CASE Complete
    <3>1. job.gen \in Gen
      BY <2>7 DEF Complete, InPhase, ConnectedInv, JobInv, StagedInv
    <3>2. QED
      BY <2>7, <3>1, <1>1 DEF Complete, Next
  <2>8. CASE Publish
    BY <2>8, ManifestFacts DEF Publish, Next
  <2>9. CASE Finish
    BY <2>9 DEF Finish, Next
  <2>10. CASE \/ Begin(TRUE) \/ \E seen \in Version \cup {Mixed} : Prepare(seen)
              \/ ReuseMember \/ Fence \/ ConfirmAll
    BY <2>10 DEF Begin, Prepare, ReuseMember, Fence, ConfirmAll
  <2>11. QED
    BY <1>2, <2>1, <2>2, <2>3, <2>4, <2>5, <2>6, <2>7, <2>8, <2>9, <2>10 DEF RunStep
<1>3. CASE Abandon
  <2>1. CASE UNCHANGED vars
    BY <2>1
  <2>2. CASE \E outcome \in {"failed", "cancelled"} : StageAbort(outcome)
    BY <2>2, <1>1 DEF Next
  <2>3. CASE InPhase("fence") /\ \E outcome \in {"failed", "cancelled"} :
                StageArtifactsFailed(job.gen, outcome)
    <3>1. job.gen \in Gen
      BY <2>3 DEF InPhase, ConnectedInv, JobInv, StagedInv
    <3>2. QED
      BY <2>3, <3>1, <1>1 DEF Next
  <2>4. QED
    BY <1>3, <2>1, <2>2, <2>3 DEF Abandon
<1>4. CASE Begin(FALSE) \/ ReuseFails \/ \E i \in Position : Edit(i)
  BY <1>4 DEF Edit, Begin, ReuseFails
<1>5. CASE UNCHANGED allVars
  BY <1>5 DEF allVars
<1>6. QED
  BY <1>2, <1>3, <1>4, <1>5 DEF ConnectedNext

-----------------------------------------------------------------------------
(* What steps leave alone.                                                 *)

(* The view, the owners of the manifest's slots and the worktrees stay.    *)
LEMMA VisibleKept ==
    ASSUME VisibleInv, activeView'[Connected] = activeView[Connected],
           \A i \in Position : slotOwner'[SlotAt(i)] = slotOwner[SlotAt(i)],
           indexed' = indexed, worktree' = worktree
    PROVE  VisibleInv'
BY DEF VisibleInv, VisibleGen

(* A worktree that is done stays done.                                     *)
LEMMA DoneKept ==
    ASSUME NEW i \in Position, Done(i), UNCHANGED <<activeView, receipt, slotEpoch, indexed>>,
           job'.seen = job.seen
    PROVE  Done(i)'
BY DEF Done, Newer, VisibleGen

(* In these phases a run has promised nothing yet, or nothing any more.    *)
LEMMA QuietJob ==
    ASSUME JobTypes', VisibleInv', MemberInv', SeenInv',
           job'.phase \in {"idle", "start", "register", "connect", "probe", "prepare", "failed"}
    PROVE  JobInv'
<1>1. StagedInv' /\ DoneInv'
  BY DEF StagedInv, DoneInv, Finishing, Building
<1>2. InstantInv' /\ ReuseInv' /\ SuccessIsOneInstant'
  BY DEF InstantInv, ReuseInv, SuccessIsOneInstant, Finishing, InPhase
<1>3. QED
  BY <1>1, <1>2 DEF JobInv

(* Numbers for the provers: versions and generations are ordered.          *)
LEMMA VersionFacts ==
    /\ Version \subseteq Int /\ Mixed \in Int /\ Gen \subseteq Int /\ 0 \notin Gen
    /\ Version \cup {Mixed} \subseteq Int
BY ManifestFacts, StoreAssumption DEF Version, Mixed, Gen

(* The versions of the worktrees are numbers.                              *)
LEMMA WorktreeFacts ==
    ASSUME JobTypes
    PROVE  /\ \A i \in Position : worktree[i] \in Int /\ worktree[i] <= disturbances + 1
           /\ disturbances \in Int /\ 0 <= disturbances /\ disturbances <= MaxDisturbances
           /\ MaxDisturbances \in Int
<1>1. MaxDisturbances \in Nat
  BY ManifestFacts
<1>2. \A i \in Position : worktree[i] \in Version /\ worktree[i] <= disturbances + 1
  BY DEF JobTypes
<1>3. disturbances \in 0 .. MaxDisturbances
  BY DEF JobTypes
<1>4. QED
  <2>1. \A i \in Position : worktree[i] \in Int /\ worktree[i] <= disturbances + 1
    BY <1>2, VersionFacts
  <2>2. disturbances \in Int /\ 0 <= disturbances /\ disturbances <= MaxDisturbances
    BY <1>1, <1>3
  <2>3. QED
    BY <1>1, <2>1, <2>2

(* An edit makes the worktree newer and nothing else.                      *)
LEMMA JobEdit ==
    ASSUME ConnectedInv, NEW k \in Position, Edit(k)
    PROVE  JobInv'
<1> USE DEF ConnectedInv, JobInv
<1>1. /\ worktree' = [worktree EXCEPT ![k] = worktree[k] + 1]
      /\ disturbances < MaxDisturbances /\ disturbances' = disturbances + 1
      /\ UNCHANGED <<activeView, slotOwner, slotEpoch, receipt, indexed>>
      /\ together' = IF InPhase("idle") THEN {} ELSE together \cup {worktree'}
  BY DEF Edit, Disturb, vars, slotVars, viewVars
<1>2. /\ job' \in JobRecord /\ job'.phase = job.phase /\ job'.at = job.at
      /\ job'.seen = job.seen /\ job'.gen = job.gen
  BY DEF Edit, JobTypes, JobRecord
<1>3. /\ \A i \in Position : worktree[i] \in Int /\ worktree'[i] \in Int
                             /\ worktree[i] <= worktree'[i]
      /\ job.phase # "idle" => together \subseteq together'
  <2>1. \A i \in Position : worktree'[i] = IF i = k THEN worktree[i] + 1 ELSE worktree[i]
    BY <1>1 DEF JobTypes
  <2>2. QED
    BY <1>1, <2>1, WorktreeFacts DEF InPhase
<1>4. JobTypes'
  <2>1. worktree' \in [Position -> Version]
    BY <1>1, ManifestFacts DEF JobTypes, Version
  <2>2. \A i \in Position : worktree'[i] <= disturbances' + 1
    <3>1. \A i \in Position : worktree'[i] = IF i = k THEN worktree[i] + 1 ELSE worktree[i]
      BY <1>1 DEF JobTypes
    <3>2. QED
      BY <1>1, <3>1, WorktreeFacts
  <2>3. QED
    BY <1>1, <1>2, <2>1, <2>2, ManifestFacts DEF JobTypes
<1>5. VisibleInv'
  <2> SUFFICES ASSUME activeView[Connected] # None, NEW i \in Position
               PROVE  /\ slotOwner[SlotAt(i)] = Connected
                      /\ indexed[VisibleGen(i)] <= worktree'[i]
    BY <1>1 DEF VisibleInv, VisibleGen
  <2>1. VisibleGen(i) \in Gen
    BY VisibleMembers
  <2>2. indexed[VisibleGen(i)] \in Int
    BY <2>1, VersionFacts DEF JobTypes
  <2>3. QED
    BY <1>3, <2>2 DEF VisibleInv
<1>6. MemberInv' /\ StagedInv' /\ ReuseInv'
  BY <1>1, <1>2 DEF MemberInv, StagedInv, ReuseInv, Newer, VisibleGen
<1>7. SeenInv'
  <2>1. \A i \in Position : job.seen[i] \in Int
    BY JobFields, VersionFacts
  <2>2. QED
    BY <1>2, <1>3, <2>1 DEF SeenInv
<1>8. DoneInv'
  BY <1>1, <1>2, DoneKept DEF DoneInv
<1>9. InstantInv'
  <2> SUFFICES ASSUME job.phase \in Finishing \cup {"reuse"}
               PROVE  \E m \in together' : 
                         /\ Instant(m)'
                         /\ \A i \in Position : (job.phase = "publish" \/ i < job.at) =>
                               m[i] = job.seen[i]
    BY <1>2 DEF InstantInv
  <2>1. PICK m \in together :
           /\ Instant(m)
           /\ \A i \in Position : (job.phase = "publish" \/ i < job.at) => m[i] = job.seen[i]
    BY DEF InstantInv
  <2>2. m \in together'
    BY <1>3 DEF Finishing
  <2>3. \A i \in Position : m[i] \in Int
    BY VersionFacts DEF JobTypes
  <2>4. Instant(m)'
    BY <1>1, <1>2, <1>3, <2>1, <2>3 DEF Instant, VisibleGen
  <2>5. QED
    BY <2>1, <2>2, <2>4
<1>10. SuccessIsOneInstant'
  BY <1>1, <1>2, <1>3 DEF SuccessIsOneInstant, Shown, InPhase
<1>11. QED
  BY <1>4, <1>5, <1>6, <1>7, <1>8, <1>9, <1>10

(* A run ends early; the view and the receipts are untouched.              *)
LEMMA JobAbandon ==
    ASSUME ConnectedInv, Abandon
    PROVE  JobInv'
<1> USE DEF ConnectedInv, JobInv
<1>1. UNCHANGED <<activeView, slotOwner, indexed, worktree, together>>
  BY DEF Abandon, vars, slotVars, viewVars, StageAbort, StageArtifactsFailed
<1>2. job' \in JobRecord /\ job'.phase = "failed" /\ job'.seen = job.seen
  BY JobGoTo DEF Abandon, JobPhase
<1>3. disturbances' = disturbances + 1 /\ disturbances < MaxDisturbances
  BY DEF Abandon, Disturb
<1>4. JobTypes'
  <2>1. /\ disturbances' \in 0 .. MaxDisturbances
        /\ \A i \in Position : worktree'[i] <= disturbances' + 1
    BY <1>1, <1>3, WorktreeFacts
  <2>2. QED
    BY <1>1, <1>2, <2>1 DEF JobTypes
<1>5. VisibleInv' /\ MemberInv' /\ SeenInv'
  BY <1>1, <1>2, VisibleKept DEF MemberInv, SeenInv, Joined, Building, Finishing
<1>6. QED
  BY <1>2, <1>4, <1>5, QuietJob

(* A run ends and the lease is free.                                       *)
LEMMA JobFinish ==
    ASSUME ConnectedInv, Finish
    PROVE  JobInv'
<1> USE DEF ConnectedInv, JobInv
<1>1. UNCHANGED <<activeView, slotOwner, indexed, worktree, disturbances>> /\ together' = {}
  BY DEF Finish, vars, slotVars, viewVars, Stop
<1>2. NoJob \in JobRecord /\ NoJob.phase = "idle" /\ \A i \in Position : NoJob.seen[i] = 0
  BY ManifestFacts DEF NoJob, JobRecord, JobPhase, Mixed
<1>3. job' = NoJob
  BY DEF Finish
<1>4. JobTypes'
  BY <1>1, <1>2, <1>3 DEF JobTypes
<1>5. VisibleInv' /\ MemberInv'
  BY <1>1, <1>2, <1>3, VisibleKept DEF MemberInv, Joined, Building, Finishing
<1>6. SeenInv'
  BY <1>1, <1>2, <1>3 DEF SeenInv, JobTypes, Version
<1>7. QED
  BY <1>2, <1>3, <1>4, <1>5, <1>6, QuietJob

(* A run begins.                                                           *)
LEMMA JobBegin ==
    ASSUME ConnectedInv, NEW refresh \in BOOLEAN, Begin(refresh)
    PROVE  JobInv'
<1> USE DEF ConnectedInv, JobInv
<1>1. UNCHANGED <<activeView, slotOwner, indexed, worktree, together>>
  BY DEF Begin, vars, slotVars, viewVars
<1>2. NoJob \in JobRecord /\ \A i \in Position : NoJob.seen[i] = 0
  BY ManifestFacts DEF NoJob, JobRecord, JobPhase, Mixed
<1>3. job' \in JobRecord /\ job'.phase = "start" /\ job'.seen = NoJob.seen
  BY <1>2 DEF Begin, JobRecord, JobPhase
<1>4. disturbances' \in 0 .. MaxDisturbances /\ disturbances <= disturbances'
  BY ManifestFacts DEF Begin, Disturb, JobTypes
<1>5. JobTypes'
  <2>1. \A i \in Position : worktree'[i] <= disturbances' + 1
    BY <1>1, <1>4, WorktreeFacts
  <2>2. QED
    BY <1>1, <1>3, <1>4, <2>1 DEF JobTypes
<1>6. VisibleInv' /\ MemberInv'
  BY <1>1, <1>3, VisibleKept DEF MemberInv, Joined, Building, Finishing
<1>7. SeenInv'
  BY <1>1, <1>2, <1>3 DEF SeenInv, JobTypes, Version
<1>8. QED
  BY <1>3, <1>5, <1>6, <1>7, QuietJob

(* The writer starts.                                                      *)
LEMMA JobStart ==
    ASSUME ConnectedInv, StartWriter
    PROVE  JobInv'
<1> USE DEF ConnectedInv, JobInv
<1>1. UNCHANGED <<activeView, slotOwner, indexed, worktree, together, disturbances>>
  BY DEF StartWriter, Recover, slotVars, viewVars
<1>2. job' \in JobRecord /\ job'.phase = "register" /\ job'.seen = job.seen
  BY JobGoTo DEF StartWriter, JobPhase
<1>3. JobTypes'
  BY <1>1, <1>2 DEF JobTypes
<1>4. VisibleInv' /\ MemberInv' /\ SeenInv'
  BY <1>1, <1>2, VisibleKept DEF MemberInv, SeenInv, Joined, Building, Finishing
<1>5. QED
  BY <1>2, <1>3, <1>4, QuietJob

(* The repositories are registered, under their default slots only.        *)
LEMMA JobRegister ==
    ASSUME ConnectedInv, Register
    PROVE  JobInv'
<1> USE DEF ConnectedInv, JobInv
<1>1. UNCHANGED <<activeView, indexed, worktree, together, disturbances>>
  BY DEF Register, EnsureWorkspace, viewVars
<1>2. job.phase = "register" /\ job.at \in Position
  BY JobFields DEF Register, InPhase
<1>3. \A i \in Position : slotOwner'[SlotAt(i)] = slotOwner[SlotAt(i)]
  BY <1>2, ManifestFacts DEF Register, EnsureWorkspace, slotVars, IInv, TypeOK
<1>4. job' \in JobRecord /\ job'.phase \in {"register", "connect"} /\ job'.seen = job.seen
  BY <1>2, JobNextOr DEF Register, JobPhase
<1>5. JobTypes'
  BY <1>1, <1>4 DEF JobTypes
<1>6. VisibleInv' /\ MemberInv' /\ SeenInv'
  BY <1>1, <1>3, <1>4, VisibleKept DEF MemberInv, SeenInv, Joined, Building, Finishing
<1>7. QED
  BY <1>4, <1>5, <1>6, QuietJob

(* The workspace owns its slots, as a published one already did.           *)
LEMMA JobConnect ==
    ASSUME ConnectedInv, Connect
    PROVE  JobInv'
<1> USE DEF ConnectedInv, JobInv
<1>1. UNCHANGED <<indexed, worktree, together, disturbances>> /\ activeView' = activeView
  BY DEF Connect, ConnectWorkspace, vars, viewVars
<1>2. \A i \in Position : SlotAt(i) \in DOMAIN Mapping /\ SlotAt(i) \in Slot
  BY MappingFacts, ManifestFacts
<1>3. \A i \in Position : slotOwner'[SlotAt(i)] = Connected
  <2>1. CASE AlreadyConnected
    BY <1>2, <2>1 DEF Connect, AlreadyConnected, vars, slotVars
  <2>2. CASE ConnectWorkspace(Connected, Mapping)
    BY <1>2, <2>2 DEF ConnectWorkspace
  <2>3. QED
    BY <2>1, <2>2 DEF Connect
<1>4. /\ job' \in JobRecord /\ job'.phase \in {"probe", "prepare"} /\ job'.seen = job.seen
      /\ job'.phase = "probe" => activeView[Connected] # None
  BY JobGoTo DEF Connect, JobPhase
<1>5. JobTypes'
  BY <1>1, <1>4 DEF JobTypes
<1>6. VisibleInv'
  BY <1>1, <1>3 DEF VisibleInv, VisibleGen
<1>7. MemberInv' /\ SeenInv'
  BY <1>1, <1>3, <1>4 DEF MemberInv, SeenInv
<1>8. QED
  BY <1>4, <1>5, <1>6, <1>7, QuietJob

-----------------------------------------------------------------------------
(* Observing the worktrees, and reusing the view.                          *)

(* The last observation is a milestone: everything seen before it, and     *)
(* everything shown, is no newer than the worktrees are at it.             *)
LEMMA JobPrepare ==
    ASSUME ConnectedInv, NEW seen \in Version \cup {Mixed}, Prepare(seen)
    PROVE  JobInv'
<1> USE DEF ConnectedInv, JobInv
<1> DEFINE next == NextOr(IF InPhase("probe") THEN "reuse" ELSE "reserve")
<1>1. /\ UNCHANGED <<activeView, slotOwner, indexed, worktree, disturbances>>
      /\ job.phase \in {"probe", "prepare"} /\ job.at \in Position
      /\ seen = worktree[job.at] \/ seen = 0
      /\ together' = IF LastOne THEN {worktree} ELSE together
  BY JobFields DEF Prepare, Milestone, Mixed, vars, slotVars, viewVars
<1>2. /\ next \in JobRecord /\ next.seen = job.seen
      /\ \/ ~LastOne /\ next.phase = job.phase
         \/ /\ LastOne /\ next.at = 1
            /\ \/ job.phase = "probe" /\ next.phase = "reuse"
               \/ job.phase = "prepare" /\ next.phase = "reserve"
  BY <1>1, JobNextOr DEF JobPhase, InPhase
<1>3. job' = [next EXCEPT !.seen[job.at] = seen, !.torn = FALSE]
  BY DEF Prepare
<1> HIDE DEF next
<1>4. /\ job' \in JobRecord /\ job'.phase = next.phase /\ job'.at = next.at
      /\ job'.seen = [job.seen EXCEPT ![job.at] = seen]
  BY <1>1, <1>2, <1>3 DEF JobRecord
<1>5. worktree \in [Position -> Version] /\ \A i \in Position : worktree[i] \in Int /\ 0 <= worktree[i]
  BY ManifestFacts DEF JobTypes, Version
<1>6. JobTypes'
  BY <1>1, <1>4, <1>5 DEF JobTypes
<1>7. VisibleInv'
  BY <1>1, VisibleKept
<1>8. SeenInv'
  <2> SUFFICES ASSUME NEW i \in Position PROVE job'.seen[i] <= worktree[i]
    BY <1>1 DEF SeenInv
  <2>1. job'.seen[i] = IF i = job.at THEN seen ELSE job.seen[i]
    BY <1>1, <1>4, JobFields
  <2>2. QED
    BY <1>1, <1>5, <2>1 DEF SeenInv
<1>9. MemberInv'
  BY <1>1, <1>2, <1>4 DEF MemberInv, Joined, Building
<1>10. CASE ~LastOne
  BY <1>1, <1>2, <1>4, <1>6, <1>7, <1>8, <1>9, <1>10, QuietJob
<1>11. CASE LastOne
  <2>1. StagedInv' /\ SuccessIsOneInstant'
    BY <1>2, <1>4, <1>11 DEF StagedInv, SuccessIsOneInstant, InPhase
  <2>2. \A i \in Position : ~(i < 1)
    BY ManifestFacts
  <2>3. DoneInv' /\ ReuseInv'
    BY <1>2, <1>4, <1>11, <2>2 DEF DoneInv, ReuseInv, Finishing
  <2>4. Instant(worktree)'
    BY <1>1, <1>5, <1>7, <1>8 DEF Instant, VisibleInv, SeenInv, VisibleGen
  <2>5. InstantInv'
    BY <1>1, <1>2, <1>4, <1>11, <2>2, <2>4 DEF InstantInv, Finishing
  <2>6. QED
    BY <1>6, <1>7, <1>8, <1>9, <2>1, <2>3, <2>5
<1>12. QED
  BY <1>10, <1>11

(* The step of a check: what is confirmed now was already so at the        *)
(* milestone, because it was so before and worktrees do not go back.       *)
LEMMA ConfirmedThen ==
    ASSUME JobTypes, NEW m \in together, Instant(m), NEW i \in Position, Confirmed(i)
    PROVE  m[i] = job.seen[i]
<1>1. worktree[i] \in Int /\ m[i] \in Int
  BY WorktreeFacts, VersionFacts DEF JobTypes
<1>2. QED
  BY <1>1 DEF Instant, Confirmed

(* One member of the view is compared and fenced.                          *)
LEMMA JobReuse ==
    ASSUME ConnectedInv, ReuseMember
    PROVE  JobInv'
<1> USE DEF ConnectedInv, JobInv
<1>1. /\ UNCHANGED <<activeView, slotOwner, slotEpoch, receipt, indexed, worktree, together,
                     disturbances>>
      /\ job.phase = "reuse" /\ job.at \in Position /\ job \in JobRecord
      /\ activeView[Connected] # None
  BY JobFields DEF ReuseMember, vars, slotVars, viewVars, InPhase, MemberInv, JobTypes
<1>2. CASE ~(MemberSeen(job.at) /\ Confirmed(job.at))
  <2>1. 1 \in Position
    BY ManifestFacts
  <2>2. job' \in JobRecord /\ job'.phase = "prepare" /\ job'.seen = job.seen
    BY <1>1, <1>2, <2>1 DEF ReuseMember, JobRecord, JobPhase
  <2>3. JobTypes'
    BY <1>1, <2>2 DEF JobTypes
  <2>4. VisibleInv' /\ MemberInv' /\ SeenInv'
    BY <1>1, <2>2, VisibleKept DEF MemberInv, SeenInv, Joined
  <2>5. QED
    BY <2>2, <2>3, <2>4, QuietJob
<1>3. CASE MemberSeen(job.at) /\ Confirmed(job.at)
  <2>1. /\ job' \in JobRecord /\ job'.seen = job.seen
        /\ \/ job'.phase = "reuse" /\ job'.at = job.at + 1
           \/ job.at = Len(Manifest) /\ job'.phase = "succeeded" /\ job'.at = 1
    BY <1>1, <1>3, JobNextOr DEF ReuseMember, JobPhase
  <2>2. JobTypes'
    BY <1>1, <2>1 DEF JobTypes
  <2>3. VisibleInv' /\ MemberInv' /\ SeenInv'
    BY <1>1, <2>1, VisibleKept DEF MemberInv, SeenInv, Joined, Building, Finishing
  <2>4. StagedInv' /\ DoneInv'
    BY <2>1 DEF StagedInv, DoneInv, Building, Finishing
  <2>5. PICK m \in together : Instant(m) /\ \A i \in Position : i < job.at => m[i] = job.seen[i]
    BY <1>1 DEF InstantInv
  <2>6. \A i \in Position : i <= job.at =>
           m[i] = job.seen[i] /\ indexed[VisibleGen(i)] = job.seen[i]
    <3>1. m[job.at] = job.seen[job.at]
      BY <1>1, <1>3, <2>5, ConfirmedThen
    <3>2. indexed[VisibleGen(job.at)] = job.seen[job.at]
      BY <1>3 DEF MemberSeen, VisibleGen
    <3>3. \A i \in Position : i <= job.at => i < job.at \/ i = job.at
      BY <1>1, ManifestFacts
    <3>4. QED
      BY <1>1, <2>5, <3>1, <3>2, <3>3 DEF ReuseInv
  <2>7. CASE job'.phase = "reuse"
    <3>1. \A i \in Position : i < job'.at => i <= job.at
      BY <1>1, <2>1, <2>7, ManifestFacts
    <3>2. ReuseInv'
      BY <1>1, <2>1, <2>6, <3>1 DEF ReuseInv, VisibleGen
    <3>3. Instant(m)'
      BY <1>1, <2>1, <2>5 DEF Instant, VisibleGen
    <3>4. InstantInv' /\ SuccessIsOneInstant'
      BY <1>1, <2>1, <2>6, <2>7, <3>1, <3>3 DEF InstantInv, SuccessIsOneInstant, InPhase
    <3>5. QED
      BY <2>2, <2>3, <2>4, <3>2, <3>4
  <2>8. CASE job.at = Len(Manifest) /\ job'.phase = "succeeded"
    <3>1. \A i \in Position : i <= job.at
      BY <2>8, ManifestFacts
    <3>2. m \in [Position -> Version] /\ \A i \in Position : m[i] = indexed[VisibleGen(i)]
      BY <2>6, <3>1 DEF JobTypes
    <3>3. Shown = m
      BY <3>2 DEF Shown, VisibleGen
    <3>4. SuccessIsOneInstant'
      BY <1>1, <2>5, <3>3 DEF SuccessIsOneInstant, Shown
    <3>5. ReuseInv' /\ InstantInv'
      BY <2>8 DEF ReuseInv, InstantInv, Finishing
    <3>6. QED
      BY <2>2, <2>3, <2>4, <3>4, <3>5
  <2>9. QED
    BY <2>1, <2>7, <2>8
<1>4. QED
  BY <1>2, <1>3

(* Any error of the fence sends the run back to prepare everything.        *)
LEMMA JobReuseFails ==
    ASSUME ConnectedInv, ReuseFails
    PROVE  JobInv'
<1> USE DEF ConnectedInv, JobInv
<1>1. /\ UNCHANGED <<activeView, slotOwner, indexed, worktree, together>>
      /\ job.phase = "reuse" /\ job \in JobRecord
      /\ disturbances' = disturbances + 1 /\ disturbances < MaxDisturbances
  BY DEF ReuseFails, Disturb, vars, slotVars, viewVars, InPhase, JobTypes
<1>2. 1 \in Position
  BY ManifestFacts
<1>3. job' \in JobRecord /\ job'.phase = "prepare" /\ job'.seen = job.seen
  BY <1>1, <1>2 DEF ReuseFails, JobRecord, JobPhase
<1>4. JobTypes'
  <2>1. /\ disturbances' \in 0 .. MaxDisturbances
        /\ \A i \in Position : worktree'[i] <= disturbances' + 1
    BY <1>1, WorktreeFacts
  <2>2. QED
    BY <1>1, <1>3, <2>1 DEF JobTypes
<1>5. VisibleInv' /\ MemberInv' /\ SeenInv'
  BY <1>1, <1>3, VisibleKept DEF MemberInv, SeenInv, Joined
<1>6. QED
  BY <1>3, <1>4, <1>5, QuietJob

-----------------------------------------------------------------------------
(* Building one worktree after another.                                    *)

(* While a run builds, only what is staged and what is done matters.       *)
LEMMA BuildingJob ==
    ASSUME JobTypes', VisibleInv', MemberInv', SeenInv', StagedInv', DoneInv',
           job'.phase \in Building
    PROVE  JobInv'
<1>1. InstantInv' /\ ReuseInv' /\ SuccessIsOneInstant'
  BY DEF InstantInv, ReuseInv, SuccessIsOneInstant, Building, Finishing, InPhase
<1>2. QED
  BY <1>1 DEF JobInv

(* A run that fails keeps the types, the view and the observations.        *)
LEMMA JobFails ==
    ASSUME ConnectedInv, UNCHANGED <<activeView, slotOwner, indexed, worktree, together,
                                     disturbances>>, GoTo("failed")
    PROVE  JobInv'
<1> USE DEF ConnectedInv, JobInv
<1>1. job' \in JobRecord /\ job'.phase = "failed" /\ job'.seen = job.seen
  BY JobGoTo DEF JobPhase
<1>2. JobTypes'
  BY <1>1 DEF JobTypes
<1>3. VisibleInv' /\ MemberInv' /\ SeenInv'
  BY <1>1, VisibleKept DEF MemberInv, SeenInv, Joined, Building, Finishing
<1>4. QED
  BY <1>1, <1>2, <1>3, QuietJob

(* The epoch of another slot is none of the ones that are done.            *)
LEMMA JobReserve ==
    ASSUME ConnectedInv, Reserve
    PROVE  JobInv'
<1> USE DEF ConnectedInv, JobInv
<1>1. job.phase = "reserve" /\ job.at \in Position
  BY JobFields DEF Reserve, InPhase
<1>2. CASE ReserveSourceSlotEpoch(Here, slotEpoch[Here]) /\ GoTo("stage")
  <2>1. /\ UNCHANGED <<activeView, slotOwner, receipt, indexed, worktree, together, disturbances>>
        /\ slotEpoch' = [slotEpoch EXCEPT ![SlotAt(job.at)] = slotEpoch[Here] + 1]
    BY <1>2 DEF Reserve, ReserveSourceSlotEpoch, viewVars, Here
  <2>2. /\ job' \in JobRecord /\ job'.phase = "stage" /\ job'.seen = job.seen
        /\ job'.at = job.at
    BY <1>2, JobGoTo DEF JobPhase
  <2>3. JobTypes'
    BY <2>1, <2>2 DEF JobTypes
  <2>4. VisibleInv' /\ MemberInv' /\ SeenInv' /\ StagedInv'
    BY <1>1, <2>1, <2>2, VisibleKept DEF MemberInv, SeenInv, StagedInv, Joined, Building
  <2>5. DoneInv'
    <3> SUFFICES ASSUME NEW i \in Position, i < job.at
                 PROVE  Done(i)'
      BY <2>2 DEF DoneInv, Finishing
    <3>1. Done(i)
      BY <1>1 DEF DoneInv, Building
    <3>2. SlotAt(i) # SlotAt(job.at)
      BY <1>1, ManifestFacts
    <3>3. slotEpoch'[SlotAt(i)] = slotEpoch[SlotAt(i)]
      BY <2>1, <3>2
    <3>4. QED
      BY <2>1, <2>2, <3>1, <3>3 DEF Done, Newer, VisibleGen
  <2>6. QED
    BY <2>2, <2>3, <2>4, <2>5, BuildingJob DEF Building
<1>3. CASE UNCHANGED vars /\ GoTo("failed")
  BY <1>3, JobFails DEF Reserve, vars, slotVars, viewVars
<1>4. QED
  BY <1>2, <1>3 DEF Reserve

(* The new generation has an id above all on record, the members of the    *)
(* view and the generations of the receipts included.                      *)
LEMMA JobStage ==
    ASSUME ConnectedInv, NEW g \in Gen, StageCandidate(g)
    PROVE  JobInv'
<1> USE DEF ConnectedInv, JobInv
<1>1. /\ UNCHANGED <<activeView, slotOwner, slotEpoch, receipt, worktree, together, disturbances>>
      /\ indexed' = [indexed EXCEPT ![g] = job.seen[job.at]]
      /\ job.phase = "stage" /\ job.at \in Position /\ job \in JobRecord
      /\ \A h \in Gen : Exists(h) => h < g
  BY JobFields DEF StageCandidate, StageSourceSlot, CreateGeneration, NextRowId, slotVars,
      viewVars, InPhase, JobTypes
<1>2. /\ job' \in JobRecord /\ job'.phase = "staging" /\ job'.seen = job.seen
      /\ job'.at = job.at /\ job'.gen = g
  BY <1>1 DEF StageCandidate, JobRecord, JobPhase
<1>3. job.seen[job.at] \in Version \cup {Mixed}
  BY <1>1, JobFields
<1>4. JobTypes'
  BY <1>1, <1>2, <1>3 DEF JobTypes
<1>5. \A h \in Gen : Exists(h) => h # g /\ indexed'[h] = indexed[h]
  BY <1>1, VersionFacts DEF JobTypes
<1>6. VisibleInv'
  <2> SUFFICES ASSUME activeView[Connected] # None, NEW i \in Position
               PROVE  /\ slotOwner[SlotAt(i)] = Connected
                      /\ indexed'[VisibleGen(i)] <= worktree[i]
    BY <1>1 DEF VisibleInv, VisibleGen
  <2>1. VisibleGen(i) \in Gen /\ Exists(VisibleGen(i))
    BY VisibleMembers
  <2>2. QED
    BY <1>5, <2>1 DEF VisibleInv
<1>7. MemberInv' /\ SeenInv'
  BY <1>1, <1>2 DEF MemberInv, SeenInv, Joined, Building
<1>8. StagedInv'
  <2>1. indexed'[g] = job.seen[job.at]
    BY <1>1 DEF JobTypes
  <2>2. Newer(g)
    BY <1>1, VisibleMembers DEF Newer
  <2>3. QED
    BY <1>1, <1>2, <2>1, <2>2 DEF StagedInv, Newer, VisibleGen
<1>9. DoneInv'
  <2> SUFFICES ASSUME NEW i \in Position, i < job.at
               PROVE  Done(i)'
    BY <1>2 DEF DoneInv, Finishing
  <2> DEFINE h == receipt[SlotAt(i)][slotEpoch[SlotAt(i)]]
  <2>1. Done(i)
    BY <1>1 DEF DoneInv, Building
  <2>2. h \in Gen /\ Exists(h)
    BY <2>1, CurrentReceipt DEF Done
  <2>3. QED
    BY <1>1, <1>2, <1>5, <2>1, <2>2 DEF Done, Newer, VisibleGen
<1>10. QED
  BY <1>2, <1>4, <1>6, <1>7, <1>8, <1>9, BuildingJob DEF Building

(* One transition of the generation being staged.                          *)
LEMMA JobStageStep ==
    ASSUME ConnectedInv, StageStep
    PROVE  JobInv'
<1> USE DEF ConnectedInv, JobInv
<1>1. /\ UNCHANGED <<activeView, slotOwner, slotEpoch, receipt, indexed, worktree, together,
                     disturbances>>
      /\ job.phase = "staging"
  BY DEF StageStep, StageAdvance, slotVars, viewVars, InPhase
<1>2. /\ job' \in JobRecord /\ job'.phase \in {"staging", "fence"} /\ job'.seen = job.seen
      /\ job'.at = job.at /\ job'.gen = job.gen
  <2>1. CASE GoTo("fence")
    BY <2>1, JobGoTo DEF JobPhase
  <2>2. CASE GoTo("staging")
    BY <2>2, JobGoTo DEF JobPhase
  <2>3. QED
    BY <2>1, <2>2 DEF StageStep
<1>3. JobTypes'
  BY <1>1, <1>2 DEF JobTypes
<1>4. VisibleInv' /\ MemberInv' /\ SeenInv'
  BY <1>1, <1>2, VisibleKept DEF MemberInv, SeenInv, Joined, Building
<1>5. StagedInv'
  BY <1>1, <1>2 DEF StagedInv, Newer, VisibleGen
<1>6. DoneInv'
  BY <1>1, <1>2, DoneKept DEF DoneInv, Building, Finishing
<1>7. QED
  BY <1>2, <1>3, <1>4, <1>5, <1>6, BuildingJob DEF Building

(* The worktree is read again before its epoch is completed.               *)
LEMMA JobFence ==
    ASSUME ConnectedInv, Fence
    PROVE  JobInv'
<1> USE DEF ConnectedInv, JobInv
<1>1. /\ UNCHANGED <<activeView, slotOwner, slotEpoch, receipt, indexed, worktree, together,
                     disturbances>>
      /\ job.phase = "fence"
  BY DEF Fence, vars, slotVars, viewVars, InPhase
<1>2. CASE GoTo("failed")
  BY <1>1, <1>2, JobFails
<1>3. CASE GoTo("complete")
  <2>1. /\ job' \in JobRecord /\ job'.phase = "complete" /\ job'.seen = job.seen
        /\ job'.at = job.at /\ job'.gen = job.gen
    BY <1>3, JobGoTo DEF JobPhase
  <2>2. JobTypes'
    BY <1>1, <2>1 DEF JobTypes
  <2>3. VisibleInv' /\ MemberInv' /\ SeenInv'
    BY <1>1, <2>1, VisibleKept DEF MemberInv, SeenInv, Joined, Building
  <2>4. StagedInv'
    BY <1>1, <2>1 DEF StagedInv, Newer, VisibleGen
  <2>5. DoneInv'
    BY <1>1, <2>1, DoneKept DEF DoneInv, Building, Finishing
  <2>6. QED
    BY <2>1, <2>2, <2>3, <2>4, <2>5, BuildingJob DEF Building
<1>4. QED
  BY <1>2, <1>3 DEF Fence

(* The epoch is completed; the last one is a milestone again.              *)
LEMMA JobComplete ==
    ASSUME ConnectedInv, Complete
    PROVE  JobInv'
<1> USE DEF ConnectedInv, JobInv
<1>1. /\ UNCHANGED <<activeView, slotOwner, slotEpoch, indexed, worktree, disturbances>>
      /\ job.phase = "complete" /\ job.at \in Position
      /\ receipt' = [receipt EXCEPT ![Here][slotEpoch[Here]] = job.gen]
      /\ together' = IF LastOne THEN {worktree} ELSE together
  BY JobFields DEF Complete, CompleteSourceSlotEpoch, Milestone, slotVars, viewVars, InPhase
<1>2. /\ job' \in JobRecord /\ job'.seen = job.seen
      /\ \/ ~LastOne /\ job'.phase = "reserve" /\ job'.at = job.at + 1
         \/ LastOne /\ job.at = Len(Manifest) /\ job'.phase = "confirm" /\ job'.at = 1
  <2>1. NextOr("confirm") \in JobRecord
    BY JobNextOr DEF JobPhase
  <2>2. CASE LastOne
    BY <2>1, <2>2, JobNextOr DEF JobPhase, Complete
  <2>3. CASE ~LastOne
    <3>1. job' = [NextOr("confirm") EXCEPT !.phase = "reserve"]
      BY <2>3 DEF Complete
    <3>2. NextOr("confirm").seen = job.seen /\ NextOr("confirm").at = job.at + 1
      BY <2>3, JobNextOr DEF JobPhase
    <3>3. QED
      BY <2>1, <2>3, <3>1, <3>2 DEF JobRecord, JobPhase
  <2>4. QED
    BY <2>2, <2>3
<1>3. JobTypes'
  BY <1>1, <1>2 DEF JobTypes
<1>4. VisibleInv' /\ MemberInv' /\ SeenInv' /\ StagedInv'
  BY <1>1, <1>2, VisibleKept DEF MemberInv, SeenInv, StagedInv, Joined, Building, Finishing
<1>5. ASSUME NEW i \in Position, i <= job.at
      PROVE  Done(i)'
  <2>1. SlotAt(i) \in Slot /\ slotEpoch[SlotAt(i)] \in Epoch /\ Here = SlotAt(job.at)
    BY CurrentReceipt, ManifestFacts DEF Here
  <2>2. CASE i = job.at
    <3>1. receipt'[SlotAt(i)][slotEpoch[SlotAt(i)]] = job.gen
      BY <1>1, <2>1, <2>2 DEF IInv, TypeOK
    <3>2. QED
      BY <1>1, <1>2, <2>2, <3>1, VersionFacts DEF Done, StagedInv, Newer, VisibleGen
  <2>3. CASE i < job.at
    <3>1. SlotAt(i) # Here
      BY <1>1, <2>1, <2>3, ManifestFacts
    <3>2. receipt'[SlotAt(i)] = receipt[SlotAt(i)]
      BY <1>1, <2>1, <3>1 DEF IInv, TypeOK
    <3>3. Done(i)
      BY <1>1, <2>3 DEF DoneInv, Building
    <3>4. QED
      BY <1>1, <1>2, <3>2, <3>3 DEF Done, Newer, VisibleGen
  <2>4. QED
    BY <1>1, <1>5, <2>2, <2>3, ManifestFacts
<1>6. DoneInv'
  <2>1. CASE LastOne
    BY <1>2, <1>5, <2>1, ManifestFacts DEF DoneInv
  <2>2. CASE ~LastOne
    <3>1. \A i \in Position : i < job'.at => i <= job.at
      BY <1>1, <1>2, <2>2, ManifestFacts
    <3>2. QED
      BY <1>2, <1>5, <2>2, <3>1 DEF DoneInv, Finishing
  <2>3. QED
    BY <2>1, <2>2
<1>7. CASE ~LastOne
  BY <1>2, <1>3, <1>4, <1>6, <1>7, BuildingJob DEF Building
<1>8. CASE LastOne
  <2>1. ReuseInv' /\ SuccessIsOneInstant'
    BY <1>2, <1>8 DEF ReuseInv, SuccessIsOneInstant, InPhase
  <2>2. \A i \in Position : ~(i < 1)
    BY ManifestFacts
  <2>3. Instant(worktree)'
    BY <1>1, <1>4, WorktreeFacts DEF Instant, VisibleInv, SeenInv, VisibleGen
  <2>4. InstantInv'
    BY <1>1, <1>2, <1>8, <2>2, <2>3 DEF InstantInv, Finishing
  <2>5. QED
    BY <1>3, <1>4, <1>6, <2>1, <2>4
<1>9. QED
  BY <1>7, <1>8

-----------------------------------------------------------------------------
(* All worktrees once more, then the view.                                 *)

(* One more worktree is confirmed, or the run fails.                       *)
LEMMA JobConfirm ==
    ASSUME ConnectedInv, ConfirmAll
    PROVE  JobInv'
<1> USE DEF ConnectedInv, JobInv
<1>1. /\ UNCHANGED <<activeView, slotOwner, slotEpoch, receipt, indexed, worktree, together,
                     disturbances>>
      /\ job.phase = "confirm" /\ job.at \in Position
  BY JobFields DEF ConfirmAll, vars, slotVars, viewVars, InPhase
<1>2. CASE ~Confirmed(job.at)
  BY <1>1, <1>2, JobFails DEF ConfirmAll, GoTo
<1>3. CASE Confirmed(job.at)
  <2>1. /\ job' \in JobRecord /\ job'.seen = job.seen
        /\ \/ job'.phase = "confirm" /\ job'.at = job.at + 1
           \/ job.at = Len(Manifest) /\ job'.phase = "publish"
    BY <1>1, <1>3, JobNextOr DEF ConfirmAll, JobPhase
  <2>2. JobTypes'
    BY <1>1, <2>1 DEF JobTypes
  <2>3. VisibleInv' /\ MemberInv' /\ SeenInv'
    BY <1>1, <2>1, VisibleKept DEF MemberInv, SeenInv, Joined, Building, Finishing
  <2>4. StagedInv' /\ ReuseInv' /\ SuccessIsOneInstant'
    BY <2>1 DEF StagedInv, ReuseInv, SuccessIsOneInstant, InPhase
  <2>5. DoneInv'
    BY <1>1, <2>1, DoneKept DEF DoneInv, Building, Finishing
  <2>6. PICK m \in together : Instant(m) /\ \A i \in Position : i < job.at => m[i] = job.seen[i]
    BY <1>1 DEF InstantInv, Finishing
  <2>7. m[job.at] = job.seen[job.at]
    BY <1>1, <1>3, <2>6, ConfirmedThen
  <2>8. \A i \in Position : (job'.phase = "publish" \/ i < job'.at) => i < job.at \/ i = job.at
    BY <1>1, <2>1, ManifestFacts
  <2>9. Instant(m)'
    BY <1>1, <2>1, <2>6 DEF Instant, VisibleGen
  <2>10. InstantInv'
    BY <1>1, <2>1, <2>6, <2>7, <2>8, <2>9 DEF InstantInv
  <2>11. QED
    BY <2>2, <2>3, <2>4, <2>5, <2>10
<1>4. QED
  BY <1>2, <1>3

(* What is published is what was seen, at the instant of the milestone,    *)
(* and all of it is newer than what was visible.                           *)
LEMMA PublishedFacts ==
    ASSUME ConnectedInv, Publish
    PROVE  /\ activeView'[Connected] # None
           /\ \A i \in Position : VisibleGen(i)' = receipt[SlotAt(i)][slotEpoch[SlotAt(i)]]
           /\ \E m \in together : Instant(m) /\ Shown' = m
<1> USE DEF ConnectedInv, JobInv
<1>1. /\ activeView' = [activeView EXCEPT ![Connected] = CurrentView(Connected)]
      /\ UNCHANGED <<indexed, receipt, slotEpoch>>
      /\ job.phase = "publish"
  BY DEF Publish, PublishWorkspaceView, InPhase, slotVars
<1>2. activeView'[Connected] = CurrentView(Connected)
  BY <1>1, ManifestFacts DEF IInv, TypeOK
<1>3. CurrentView(Connected) # None
  <2>1. CurrentView(Connected) \in View
    <3>1. \A s \in Slot : slotEpoch[s] \in Epoch /\ receipt[s][slotEpoch[s]] \in Gen \cup {0}
      BY DEF IInv, TypeOK
    <3>2. 0 \in Epoch
      BY StoreAssumption DEF Epoch
    <3>3. QED
      BY <3>1, <3>2, ManifestFacts DEF CurrentView, View
  <2>2. QED
    BY <2>1, StoreAssumption
<1>4. \A i \in Position : VisibleGen(i)' = receipt[SlotAt(i)][slotEpoch[SlotAt(i)]]
  <2> SUFFICES ASSUME NEW i \in Position
               PROVE  CurrentView(Connected).gen[SlotAt(i)] =
                         receipt[SlotAt(i)][slotEpoch[SlotAt(i)]]
    BY <1>2 DEF VisibleGen
  <2>1. SlotAt(i) \in Slot /\ slotOwner[SlotAt(i)] = Connected
    BY <1>1, ManifestFacts DEF MemberInv, Joined, Finishing
  <2>2. QED
    BY <2>1 DEF CurrentView
<1>5. \A i \in Position : indexed'[VisibleGen(i)'] = job.seen[i]
  BY <1>1, <1>4 DEF DoneInv, Finishing, Done
<1>6. PICK m \in together : Instant(m) /\ \A i \in Position : m[i] = job.seen[i]
  BY <1>1 DEF InstantInv, Finishing
<1>7. m \in [Position -> Version]
  BY DEF JobTypes
<1>8. Shown' = m
  BY <1>5, <1>6, <1>7 DEF Shown, VisibleGen
<1>9. QED
  BY <1>2, <1>3, <1>4, <1>6, <1>8

(* The view is replaced and the run succeeds.                              *)
LEMMA JobPublish ==
    ASSUME ConnectedInv, Publish
    PROVE  JobInv'
<1> USE DEF ConnectedInv, JobInv
<1>1. /\ UNCHANGED <<slotOwner, indexed, worktree, together, disturbances>>
      /\ job.phase = "publish"
  BY DEF Publish, PublishWorkspaceView, slotVars, InPhase
<1>2. job' \in JobRecord /\ job'.phase = "succeeded" /\ job'.seen = job.seen
  BY JobGoTo DEF Publish, JobPhase
<1>3. JobTypes'
  BY <1>1, <1>2 DEF JobTypes
<1>4. PICK m \in together : Instant(m) /\ Shown' = m
  BY PublishedFacts
<1>5. VisibleInv'
  <2>1. \A i \in Position : Shown'[i] = indexed'[VisibleGen(i)']
    BY DEF Shown, VisibleGen
  <2>2. \A i \in Position : indexed'[VisibleGen(i)'] <= worktree[i]
    BY <1>4, <2>1 DEF Instant
  <2>3. QED
    BY <1>1, <2>2 DEF VisibleInv, MemberInv, Joined, Finishing
<1>6. MemberInv' /\ SeenInv' /\ StagedInv' /\ DoneInv'
  BY <1>1, <1>2 DEF MemberInv, SeenInv, StagedInv, DoneInv, Joined, Building, Finishing
<1>7. InstantInv' /\ ReuseInv'
  BY <1>2 DEF InstantInv, ReuseInv, Finishing
<1>8. SuccessIsOneInstant'
  BY <1>1, <1>4, PublishedFacts DEF SuccessIsOneInstant
<1>9. QED
  BY <1>3, <1>5, <1>6, <1>7, <1>8

-----------------------------------------------------------------------------
(* Before the first run.                                                   *)
LEMMA JobInitInv ==
    ASSUME ConnectedInit
    PROVE  ConnectedInv
<1>1. IInv
  BY InitInv DEF ConnectedInit
<1>2. /\ worktree = [i \in Position |-> 1] /\ indexed = [g \in Gen |-> Mixed] /\ job = NoJob
      /\ together = {} /\ disturbances = 0 /\ activeView = [w \in Workspace |-> None]
  BY DEF ConnectedInit, Init
<1>3. NoJob \in JobRecord /\ NoJob.phase = "idle" /\ \A i \in Position : NoJob.seen[i] = 0
  BY ManifestFacts DEF NoJob, JobRecord, JobPhase, Mixed
<1>4. 1 \in Version /\ 0 \in 0 .. MaxDisturbances
  BY ManifestFacts DEF Version
<1>5. JobTypes
  BY <1>2, <1>3, <1>4 DEF JobTypes
<1>6. VisibleInv /\ MemberInv /\ SeenInv /\ StagedInv /\ DoneInv
  BY <1>2, <1>3, ManifestFacts DEF VisibleInv, MemberInv, SeenInv, StagedInv, DoneInv, Joined,
      Building, Finishing
<1>7. InstantInv /\ ReuseInv /\ SuccessIsOneInstant
  BY <1>2, <1>3 DEF InstantInv, ReuseInv, SuccessIsOneInstant, Finishing, InPhase
<1>8. QED
  BY <1>1, <1>5, <1>6, <1>7 DEF ConnectedInv, JobInv

(* Every step preserves the invariant.                                     *)
LEMMA JobNextInv ==
    ASSUME ConnectedInv, [ConnectedNext]_allVars
    PROVE  ConnectedInv'
<1>1. IInv'
  BY JobStoreStep, NextInv DEF ConnectedInv
<1>2. JobInv'
  <2>1. CASE RunStep
    <3>1. TRUE \in BOOLEAN
      OBVIOUS
    <3>2. QED
      BY <2>1, <3>1, JobBegin, JobStart, JobRegister, JobConnect, JobPrepare, JobReuse,
         JobReserve, JobStage, JobStageStep, JobFence, JobComplete, JobConfirm, JobPublish,
         JobFinish DEF RunStep
  <2>2. CASE Begin(FALSE)
    <3>1. FALSE \in BOOLEAN
      OBVIOUS
    <3>2. QED
      BY <2>2, <3>1, JobBegin
  <2>3. CASE ReuseFails \/ Abandon \/ \E i \in Position : Edit(i)
    BY <2>3, JobReuseFails, JobAbandon, JobEdit
  <2>4. CASE UNCHANGED allVars
    <3>1. /\ UNCHANGED <<activeView, slotOwner, slotEpoch, receipt>>
          /\ UNCHANGED <<worktree, indexed, job, together, disturbances>>
      BY <2>4 DEF allVars, connectedVars, vars, slotVars, viewVars
    <3>2. (JobTypes /\ MemberInv /\ SeenInv /\ StagedInv)'
      BY <3>1 DEF ConnectedInv, JobInv, JobTypes, MemberInv, SeenInv, StagedInv, Newer, VisibleGen
    <3>3. (VisibleInv /\ DoneInv /\ ReuseInv)'
      BY <3>1, DoneKept, VisibleKept DEF ConnectedInv, JobInv, DoneInv, ReuseInv, VisibleGen
    <3>4. (InstantInv /\ SuccessIsOneInstant)'
      BY <3>1 DEF ConnectedInv, JobInv, InstantInv, Instant, VisibleGen, SuccessIsOneInstant,
          Shown, InPhase
    <3>5. QED
      BY <3>2, <3>3, <3>4 DEF JobInv
  <2>5. QED
    BY <2>1, <2>2, <2>3, <2>4 DEF ConnectedNext
<1>3. QED
  BY <1>1, <1>2 DEF ConnectedInv

(* The invariant holds of every connected workspace, whatever is edited    *)
(* and wherever runs end.                                                  *)
THEOREM ConnectedInvariance == ConnectedSpec => []ConnectedInv
<1>1. ConnectedInit => ConnectedInv
  BY JobInitInv
<1>2. ConnectedInv /\ [ConnectedNext]_allVars => ConnectedInv'
  BY JobNextInv
<1>3. QED
  BY <1>1, <1>2, PTL DEF ConnectedSpec

(* Connected runs use the store only through its commands, so every        *)
(* theorem about the store holds of a store that they write.               *)
THEOREM ConnectedRunsUseTheStore == ConnectedSpec => Spec
<1>1. ConnectedInit => Init
  BY DEF ConnectedInit
<1>2. ConnectedInv /\ [ConnectedNext]_allVars => [Next]_vars
  BY JobStoreStep
<1>3. QED
  BY <1>1, <1>2, ConnectedInvariance, PTL DEF ConnectedSpec, Spec

(* The state of a connected run keeps its types: its position never leaves *)
(* the manifest, and no version is invented.                               *)
THEOREM ConnectedTypes == ConnectedSpec => []ConnectedTypeOK
<1>1. ConnectedInv => ConnectedTypeOK
  BY DEF ConnectedInv, IInv, JobInv, JobTypes, JobRecord, JobPhase, ConnectedTypeOK
<1>2. QED
  BY <1>1, ConnectedInvariance, PTL

(* What a successful run reports is one state of the whole workspace, for  *)
(* any number of worktrees: at its milestone all of them were in the shown *)
(* versions together.                                                      *)
THEOREM OneInstant == ConnectedSpec => []SuccessIsOneInstant
<1>1. ConnectedInv => SuccessIsOneInstant
  BY DEF ConnectedInv, JobInv
<1>2. QED
  BY <1>1, ConnectedInvariance, PTL

(* The visible view never goes back, and its members are replaced by newer *)
(* generations all at once, whatever interrupted runs completed.           *)
THEOREM ViewsTogether == ConnectedSpec => ViewsMoveTogether
<1> DEFINE Moves ==
      (activeView[Connected] # None /\ activeView'[Connected] # activeView[Connected]) =>
          \A i, j \in Position :
              /\ Shown[i] <= Shown'[i]
              /\ activeView[Connected].gen[SlotAt(i)] < activeView'[Connected].gen[SlotAt(j)]
<1>1. ASSUME ConnectedInv, ConnectedNext, ~Publish
      PROVE  activeView' = activeView
  BY <1>1 DEF ConnectedNext, RunStep, Begin, StartWriter, Recover, Register, EnsureWorkspace,
      Connect, ConnectWorkspace, Prepare, ReuseMember, Reserve, ReserveSourceSlotEpoch,
      StageCandidate, StageSourceSlot, CreateGeneration, StageStep, StageAdvance, Fence,
      Complete, CompleteSourceSlotEpoch, ConfirmAll, Finish, Stop, ReuseFails, Edit, Abandon,
      StageAbort, StageArtifactsFailed, vars, viewVars
<1>2. ASSUME ConnectedInv, Publish
      PROVE  Moves
  <2> SUFFICES ASSUME activeView[Connected] # None, NEW i \in Position, NEW j \in Position
               PROVE  /\ Shown[i] <= Shown'[i]
                      /\ activeView[Connected].gen[SlotAt(i)] < activeView'[Connected].gen[SlotAt(j)]
    OBVIOUS
  <2>1. PICK m \in together : Instant(m) /\ Shown' = m
    BY <1>2, PublishedFacts
  <2>2. Shown[i] <= Shown'[i]
    BY <2>1 DEF Instant, Shown, VisibleGen
  <2>3. job.phase = "publish"
    BY <1>2 DEF Publish, InPhase
  <2>4. Newer(receipt[SlotAt(j)][slotEpoch[SlotAt(j)]])
    BY <1>2, <2>3 DEF ConnectedInv, JobInv, DoneInv, Finishing, Done
  <2>5. VisibleGen(i) < VisibleGen(j)'
    BY <1>2, <2>4, PublishedFacts DEF Newer
  <2>6. QED
    BY <2>2, <2>5 DEF VisibleGen
<1>3. ConnectedInv /\ [ConnectedNext]_allVars => [Moves]_allVars
  BY <1>1, <1>2
<1>4. QED
  BY <1>3, ConnectedInvariance, PTL DEF ConnectedSpec, ViewsMoveTogether

-----------------------------------------------------------------------------
(***************************************************************************)
(* Retention.                                                              *)
(*                                                                         *)
(* The argument for the replay of an applied plan: the digest determines   *)
(* the candidates, an audit row is only written with the sweep of its      *)
(* candidates, and a collected id is below the largest id ever issued, so  *)
(* it never comes back.                                                    *)
(***************************************************************************)

-----------------------------------------------------------------------------
(* The inductive invariant.                                                *)

ContentTypes ==
    /\ genSnapshot \in [Gen -> Snapshot \cup {None}]
    /\ overlays \subseteq Gen
    /\ activeOverlay \in [Repo -> Gen \cup {0}]

(* The generation being staged already has its snapshot and its artifacts, *)
(* although it has no files a reader could see.                            *)
StagedContent ==
    staging # 0 => ArtifactsOf[genSnapshot[staging]] \subseteq artifacts

(* The references of ReferencesIntact that the sweep must leave alone.     *)
GenerationsIntact ==
    /\ \A g \in Gen : Exists(g) => genSnapshot[g] \in snapshots
    /\ \A g \in Gen : Files(g) \subseteq artifacts

MemoryIntact == \A c \in citations : c.snapshot \in snapshots /\ c.artifact \in artifacts

OverlaysIntact ==
    /\ \A g \in overlays : Exists(g)
    /\ \A r \in Repo : activeOverlay[r] # 0 => activeOverlay[r] \in overlays

(* The digest of the shown plan binds its candidates.                      *)
PlanInv ==
    shown # None => shown.digest.candidates = shown.candidates /\ shown.candidates \subseteq Gen

(* The candidates of an applied plan are gone, and their ids are spent.    *)
AuditInv ==
    \A d \in audits : \A g \in d.candidates : g \in Gen /\ ~Exists(g) /\ g <= lastIssued

SweepInv ==
    /\ ContentTypes
    /\ StagedContent
    /\ GenerationsIntact
    /\ MemoryIntact
    /\ OverlaysIntact
    /\ PlanInv
    /\ AuditInv

RetentionInv == IInv /\ SweepInv

-----------------------------------------------------------------------------
(* The plan.                                                               *)

(* The first generations of a set are members of it.                       *)
LEMMA FirstPlannedIsSubset ==
    ASSUME NEW n, NEW gens
    PROVE  FirstPlanned(n, gens) \subseteq gens
BY DEF FirstPlanned

(* A plan collects generations that are eligible at its time, and its      *)
(* digest names them.                                                      *)
LEMMA PlanFacts ==
    ASSUME NEW pins, BuildPlan(pins) # None
    PROVE  /\ BuildPlan(pins).candidates \subseteq EligibleGenerations(pins)
           /\ BuildPlan(pins).digest.candidates = BuildPlan(pins).candidates
<1> DEFINE roots      == Roots(pins)
           available  == MaxRows - RootCount(roots)
           eligible   == FirstPlanned(available, EligibleGenerations(pins))
           garbage(k) == FirstPlanned(k, eligible)
           total(k)   == RootCount(roots) + Cardinality(eligible) + Reservation(garbage(k)) + 1
           fits(k)    == /\ k <= MaxCandidates
                         /\ total(k) <= MaxRows
                         /\ Estimate(garbage(k)) <= MaxEstimate
           longest    == Max({k \in 0 .. Cardinality(eligible) : fits(k)} \cup {0})
           plan       == [pins       |-> pins,
                          candidates |-> garbage(longest),
                          digest     |-> PlanDigest(roots, eligible, garbage(longest),
                                                    total(longest))]
<1>1. BuildPlan(pins) = IF ~fits(0) \/ (longest = 0 /\ eligible # {}) THEN None ELSE plan
  BY DEF BuildPlan
<1>2. BuildPlan(pins) = plan
  <2> HIDE DEF fits, longest, eligible, plan
  <2>1. QED
    BY <1>1
<1>3. plan.candidates = garbage(longest) /\ plan.digest.candidates = garbage(longest)
  <2> HIDE DEF roots, eligible, total, longest, garbage
  <2>1. QED
    BY DEF PlanDigest
<1>4. garbage(longest) \subseteq EligibleGenerations(pins)
  <2> HIDE DEF available, longest
  <2>1. garbage(longest) \subseteq eligible /\ eligible \subseteq EligibleGenerations(pins)
    BY FirstPlannedIsSubset
  <2>2. QED
    BY <2>1
<1>5. QED
  <2> HIDE DEF plan, garbage, longest
  <2>1. QED
    BY <1>2, <1>3, <1>4

(* What is swept are retained generations of the shown plan.               *)
LEMMA SweptFacts ==
    ASSUME PlanInv, shown # None, BuildPlan(shown.pins) # None,
           StillCurrent(BuildPlan(shown.pins))
    PROVE  /\ BuildPlan(shown.pins).candidates = shown.candidates
           /\ shown.candidates \subseteq Gen
           /\ \A g \in shown.candidates : g \in Gen /\ lifecycle[g] = "retained"
<1>1. BuildPlan(shown.pins).candidates = shown.candidates
  BY PlanFacts DEF StillCurrent, PlanInv
<1>2. shown.candidates \subseteq EligibleGenerations(shown.pins)
  BY <1>1, PlanFacts
<1>3. QED
  BY <1>1, <1>2 DEF EligibleGenerations, Collectable, Eligible

-----------------------------------------------------------------------------
(* Retention uses the store only through its commands.                     *)

(* Every step is a command of the store or leaves it alone.                *)
LEMMA RetentionStoreStep ==
    ASSUME RetentionInv, [RetentionNext]_retentionVars
    PROVE  [Next]_vars
<1>1. CASE StoreStep
  <2>1. 0 \in Epoch
    BY StoreAssumption DEF Epoch
  <2>2. QED
    BY <1>1, <2>1 DEF StoreStep, Next
<1>2. ASSUME NEW r \in Repo, NEW e \in Epoch, NEW g \in Gen, NEW s \in Snapshot,
             StageSnapshot(r, e, g, s)
      PROVE  Next
  BY <1>2 DEF StageSnapshot, Next
<1>3. CASE ApplyShown
  <2>1. CASE SweepRetentionPlan(BuildPlan(shown.pins).candidates)
             /\ BuildPlan(shown.pins) # None /\ StillCurrent(BuildPlan(shown.pins))
    <3>1. BuildPlan(shown.pins).candidates \in SUBSET Gen
      BY <1>3, <2>1, SweptFacts DEF RetentionInv, SweepInv, ApplyShown
    <3>2. QED
      BY <2>1, <3>1 DEF SweepRetentionPlan, Next
  <2>2. CASE UNCHANGED vars
    BY <2>2
  <2>3. QED
    BY <1>3, <2>1, <2>2 DEF ApplyShown, ExceedLimit, RefusePlan
<1>4. CASE \/ \E r \in Repo, a \in UNION {ArtifactsOf[s] : s \in Snapshot} :
                 CaptureMemory(r, a) \/ ProjectMemory(r, a)
           \/ \E r \in Repo : ImportOverlay(r)
           \/ \E pins \in PinSets : PlanRetention(pins)
           \/ ReplayRetention
  BY <1>4 DEF CaptureMemory, ProjectMemory, ImportOverlay, PlanRetention, ReplayRetention
<1>5. CASE UNCHANGED retentionVars
  BY <1>5 DEF retentionVars
<1>6. QED
  BY <1>1, <1>2, <1>3, <1>4, <1>5 DEF RetentionNext

-----------------------------------------------------------------------------
(* Contents, memory, overlays and plans, action by action.                 *)

(* What a command that leaves contents alone does to generations: none     *)
(* comes or goes, and only the staged one becomes readable.                *)
LEMMA CommandFacts ==
    ASSUME IInv, StoreStep
    PROVE  /\ \A g \in Gen : Exists(g)' <=> Exists(g)
           /\ \A g \in Gen : lifecycle'[g] \in Readable => lifecycle[g] \in Readable \/ g = staging
           /\ staging' \in {0, staging}
           /\ lastIssued' = lastIssued
<1> USE DEF IInv, TypeOK, Exists
<1>1. CASE Recover
  BY <1>1 DEF Recover, Recoverable, Incomplete, Readable
<1>2. CASE Stop \/ (\E r \in Repo : EnsureWorkspace(r, 0)) \/ \E r \in Repo : AdvanceSourceEpoch(r)
  BY <1>2 DEF Stop, EnsureWorkspace, AdvanceSourceEpoch, genVars
<1>3. CASE StageAdvance
  <2>1. lifecycle[staging] \in Incomplete /\ staging \in Gen
    BY <1>3 DEF StageAdvance, StagingInv
  <2>2. StagingSuccessor[lifecycle[staging]] # "absent"
    BY <2>1 DEF StagingSuccessor, Incomplete
  <2>3. lifecycle[staging] # "absent"
    BY <2>1 DEF Incomplete
  <2>4. QED
    BY <1>3, <2>1, <2>2, <2>3 DEF StageAdvance
<1>4. ASSUME NEW h \in Gen, NEW e \in Epoch, Activate(h, e)
      PROVE  /\ \A g \in Gen : (lifecycle'[g] # "absent") <=> (lifecycle[g] # "absent")
             /\ \A g \in Gen : lifecycle'[g] \in Readable => lifecycle[g] \in Readable
             /\ staging' = staging /\ lastIssued' = lastIssued
  BY <1>4 DEF Activate, ActivatedLifecycle, Readable
<1>5. QED
  BY <1>1, <1>2, <1>3, <1>4 DEF StoreStep

(* Plans and audit rows of a step that issues and deletes no id.           *)
LEMMA AuditKept ==
    ASSUME AuditInv, audits' = audits, lastIssued' = lastIssued,
           \A g \in Gen : Exists(g)' <=> Exists(g)
    PROVE  AuditInv'
BY DEF AuditInv

(* A command of the store.                                                 *)
LEMMA CommandSweep ==
    ASSUME RetentionInv, StoreStep
    PROVE  SweepInv'
<1> USE DEF RetentionInv, SweepInv
<1>1. UNCHANGED <<genSnapshot, snapshots, artifacts, citations, projected, overlays,
                  activeOverlay, audits, shown>>
  BY DEF StoreStep, contentVars, memoryVars, scipVars, planVars
<1>2. ContentTypes' /\ MemoryIntact' /\ PlanInv'
  BY <1>1 DEF ContentTypes, MemoryIntact, PlanInv
<1>3. StagedContent'
  BY <1>1, CommandFacts DEF StagedContent
<1>4. GenerationsIntact'
  <2>1. ASSUME NEW g \in Gen PROVE Files(g)' \subseteq artifacts
    <3>1. CASE lifecycle'[g] \notin Readable
      BY <3>1 DEF Files
    <3>2. CASE lifecycle'[g] \in Readable
      <4>1. Files(g)' = ArtifactsOf[genSnapshot[g]]
        BY <1>1, <3>2 DEF Files
      <4>2. CASE lifecycle[g] \in Readable
        BY <4>1, <4>2 DEF Files, GenerationsIntact
      <4>3. CASE g = staging
        <5>1. staging # 0
          BY <4>3 DEF Gen
        <5>2. QED
          BY <4>1, <4>3, <5>1 DEF StagedContent
      <4>4. QED
        BY <3>2, <4>2, <4>3, CommandFacts
    <3>3. QED
      BY <3>1, <3>2
  <2>2. QED
    BY <1>1, <2>1, CommandFacts DEF GenerationsIntact
<1>5. OverlaysIntact' /\ AuditInv'
  BY <1>1, CommandFacts, AuditKept DEF OverlaysIntact, ContentTypes
<1>6. QED
  BY <1>2, <1>3, <1>4, <1>5

(* A generation is staged: its id is new, its contents are stored first.   *)
LEMMA StageSweep ==
    ASSUME RetentionInv, NEW r \in Repo, NEW e \in Epoch, NEW g \in Gen, NEW s \in Snapshot,
           StageSnapshot(r, e, g, s)
    PROVE  SweepInv'
<1> USE DEF RetentionInv, SweepInv
<1>1. /\ genSnapshot' = [genSnapshot EXCEPT ![g] = s]
      /\ snapshots' = snapshots \cup {s} /\ artifacts' = artifacts \cup ArtifactsOf[s]
      /\ UNCHANGED <<citations, projected, overlays, activeOverlay, audits, shown>>
  BY DEF StageSnapshot, memoryVars, scipVars, planVars
<1>2. /\ lifecycle' = [lifecycle EXCEPT ![g] = "discovered"] /\ staging' = g
      /\ lastIssued' = IF g > lastIssued THEN g ELSE lastIssued
      /\ \A h \in Gen : Exists(h) => h < g
  BY DEF StageSnapshot, Stage, CreateGeneration, NextRowId
<1>3. /\ ~Exists(g) /\ Exists(g)' /\ Files(g)' = {}
      /\ \A h \in Gen : h # g => (Exists(h)' <=> Exists(h)) /\ Files(h)' = Files(h)
      /\ genSnapshot'[g] = s /\ \A h \in Gen : h # g => genSnapshot'[h] = genSnapshot[h]
  <2>1. ~Exists(g)
    BY <1>2 DEF Gen
  <2>2. lifecycle'[g] = "discovered" /\ \A h \in Gen : h # g => lifecycle'[h] = lifecycle[h]
    BY <1>2 DEF IInv, TypeOK
  <2>3. genSnapshot'[g] = s /\ \A h \in Gen : h # g => genSnapshot'[h] = genSnapshot[h]
    BY <1>1 DEF ContentTypes
  <2>4. QED
    BY <2>1, <2>2, <2>3 DEF Exists, Files, Readable
<1>4. ContentTypes' /\ MemoryIntact' /\ PlanInv'
  BY <1>1 DEF ContentTypes, MemoryIntact, PlanInv
<1>5. StagedContent'
  BY <1>1, <1>2, <1>3 DEF StagedContent
<1>6. GenerationsIntact'
  BY <1>1, <1>3 DEF GenerationsIntact
<1>7. OverlaysIntact'
  BY <1>1, <1>3 DEF OverlaysIntact, ContentTypes
<1>8. lastIssued < g /\ lastIssued' = g
  <2>1. lastIssued \in Gen \cup {0}
    BY DEF IInv, TypeOK
  <2>2. lastIssued # 0 => lastIssued < g
    BY <1>2, <2>1 DEF IInv, GenInv
  <2>3. QED
    BY <1>2, <2>1, <2>2, StoreAssumption DEF Gen
<1>9. AuditInv'
  <2> SUFFICES ASSUME NEW d \in audits, NEW h \in d.candidates
               PROVE  h \in Gen /\ ~Exists(h)' /\ h <= lastIssued'
    BY <1>1 DEF AuditInv
  <2>1. h \in Gen /\ ~Exists(h) /\ h <= lastIssued
    BY DEF AuditInv
  <2>2. lastIssued \in Gen \cup {0}
    BY DEF IInv, TypeOK
  <2>3. h < g
    BY <1>8, <2>1, <2>2, StoreAssumption DEF Gen
  <2>4. QED
    BY <1>3, <1>8, <2>1, <2>3, StoreAssumption DEF Gen
<1>10. QED
  BY <1>4, <1>5, <1>6, <1>7, <1>9

(* Memory cites the active generation, which is on record and has files.   *)
LEMMA MemorySweep ==
    ASSUME RetentionInv, NEW r \in Repo, NEW a, CaptureMemory(r, a) \/ ProjectMemory(r, a)
    PROVE  SweepInv'
<1> USE DEF RetentionInv, SweepInv
<1>1. /\ UNCHANGED <<lifecycle, staging, lastIssued, genSnapshot, snapshots, artifacts, overlays,
                     activeOverlay, audits, shown>>
      /\ citations' = citations \cup {[snapshot |-> genSnapshot[activeGen[r]], artifact |-> a]}
      /\ activeGen[r] # 0 /\ a \in Files(activeGen[r])
  BY DEF CaptureMemory, ProjectMemory, vars, genVars, contentVars, scipVars, planVars
<1>2. activeGen[r] \in Gen /\ Exists(activeGen[r])
  BY <1>1 DEF IInv, TypeOK, OneActiveGeneration, Exists
<1>3. genSnapshot[activeGen[r]] \in snapshots /\ a \in artifacts
  BY <1>1, <1>2 DEF GenerationsIntact
<1>4. MemoryIntact'
  BY <1>1, <1>3 DEF MemoryIntact
<1>5. ContentTypes' /\ StagedContent' /\ PlanInv' /\ AuditInv'
  BY <1>1 DEF ContentTypes, StagedContent, PlanInv, AuditInv, Exists
<1>6. GenerationsIntact' /\ OverlaysIntact'
  BY <1>1 DEF GenerationsIntact, OverlaysIntact, Exists, Files
<1>7. QED
  BY <1>4, <1>5, <1>6

(* An overlay is imported for the member of the repository's view.         *)
LEMMA OverlaySweep ==
    ASSUME RetentionInv, NEW r \in Repo, ImportOverlay(r)
    PROVE  SweepInv'
<1> USE DEF RetentionInv, SweepInv
<1> DEFINE g == activeView[r].gen[r]
<1>1. /\ UNCHANGED <<lifecycle, staging, lastIssued, genSnapshot, snapshots, artifacts, citations,
                     audits, shown>>
      /\ overlays' = overlays \cup {g} /\ activeOverlay' = [activeOverlay EXCEPT ![r] = g]
      /\ activeView[r] # None
  BY DEF ImportOverlay, vars, genVars, contentVars, memoryVars, planVars
<1>2. g \in Gen /\ Exists(g)
  <2>1. r \in Workspace /\ SlotsOf(r) # {}
    BY <1>1, ActiveViewFacts DEF IInv, Workspace
  <2>2. PICK s \in Slot : slotOwner[s] = r
    BY <2>1 DEF SlotsOf
  <2>3. s = r
    BY <2>2, StoreAssumption DEF IInv, SlotInv, Slot
  <2>4. r \in SlotsOf(r)
    BY <2>2, <2>3 DEF SlotsOf
  <2>5. QED
    BY <1>1, <2>1, <2>4, ActiveViewFacts DEF IInv, Exists, Readable
<1> HIDE DEF g
<1>3. ContentTypes'
  BY <1>1, <1>2 DEF ContentTypes
<1>4. OverlaysIntact'
  <2>1. \A h \in overlays' : Exists(h)'
    BY <1>1, <1>2 DEF OverlaysIntact, Exists
  <2>2. \A q \in Repo : activeOverlay'[q] # 0 => activeOverlay'[q] \in overlays'
    BY <1>1 DEF OverlaysIntact, ContentTypes
  <2>3. QED
    BY <2>1, <2>2 DEF OverlaysIntact
<1>5. StagedContent' /\ MemoryIntact' /\ PlanInv' /\ AuditInv' /\ GenerationsIntact'
  BY <1>1 DEF StagedContent, MemoryIntact, PlanInv, AuditInv, GenerationsIntact, Exists, Files
<1>6. QED
  BY <1>3, <1>4, <1>5

(* A plan is shown; nothing else changes.                                  *)
LEMMA PlanSweep ==
    ASSUME RetentionInv, NEW pins, PlanRetention(pins)
    PROVE  SweepInv'
<1> USE DEF RetentionInv, SweepInv
<1>1. /\ UNCHANGED <<lifecycle, staging, lastIssued, genSnapshot, snapshots, artifacts, citations,
                     overlays, activeOverlay, audits>>
      /\ shown' = BuildPlan(pins) /\ BuildPlan(pins) # None
  BY DEF PlanRetention, vars, genVars, contentVars, memoryVars, scipVars
<1>2. PlanInv'
  BY <1>1, PlanFacts DEF PlanInv, EligibleGenerations
<1>3. ContentTypes' /\ StagedContent' /\ MemoryIntact' /\ AuditInv' /\ GenerationsIntact'
      /\ OverlaysIntact'
  BY <1>1 DEF ContentTypes, StagedContent, MemoryIntact, AuditInv, GenerationsIntact,
      OverlaysIntact, Exists, Files
<1>4. QED
  BY <1>2, <1>3

(* The sweep: what is deleted is referred to by nothing that stays.        *)
LEMMA SweepSweep ==
    ASSUME RetentionInv, Idle, NEW garbage \in SUBSET Gen, SweepRetentionPlan(garbage),
           \A g \in garbage : lifecycle[g] = "retained", shown.digest.candidates = garbage
    PROVE  SweepInv'
<1> USE DEF RetentionInv, SweepInv
<1>1. /\ genSnapshot' = [g \in Gen |-> IF g \in garbage THEN None ELSE genSnapshot[g]]
      /\ snapshots' = snapshots \ GarbageSnapshots(garbage)
      /\ artifacts' = artifacts \ GarbageArtifacts(garbage)
      /\ overlays' = overlays \ garbage
      /\ activeOverlay' = [r \in Repo |-> IF activeOverlay[r] \in garbage
                                          THEN 0 ELSE activeOverlay[r]]
      /\ audits' = audits \cup {shown.digest}
      /\ UNCHANGED <<citations, shown>>
  BY DEF SweepRetentionPlan, memoryVars
<1>2. /\ lifecycle' = [g \in Gen |-> IF g \in garbage THEN "absent" ELSE lifecycle[g]]
      /\ lastIssued' = lastIssued /\ staging' = staging /\ staging = 0
  BY DEF SweepRetentionPlan, ApplyRetention, Idle
<1>3. /\ \A g \in Gen \ garbage : /\ (Exists(g)' <=> Exists(g)) /\ Files(g)' = Files(g)
                                  /\ genSnapshot'[g] = genSnapshot[g]
      /\ \A g \in garbage : Exists(g) /\ ~Exists(g)' /\ Files(g)' = {}
  BY <1>1, <1>2 DEF Exists, Files, Readable
<1>4. ContentTypes' /\ StagedContent' /\ PlanInv'
  BY <1>1, <1>2 DEF ContentTypes, StagedContent, PlanInv
<1>5. GenerationsIntact'
  <2>1. ASSUME NEW g \in Gen, Exists(g)' PROVE genSnapshot'[g] \in snapshots'
    <3>1. g \in Gen \ garbage /\ Exists(g)
      BY <1>3, <2>1
    <3>2. genSnapshot[g] \notin GarbageSnapshots(garbage)
      BY <3>1 DEF GarbageSnapshots
    <3>3. QED
      BY <1>1, <1>3, <3>1, <3>2 DEF GenerationsIntact
  <2>2. ASSUME NEW g \in Gen PROVE Files(g)' \subseteq artifacts'
    <3>1. CASE g \in garbage
      BY <1>3, <3>1
    <3>2. CASE g \in Gen \ garbage
      <4>1. Files(g) \cap GarbageArtifacts(garbage) = {}
        BY <3>2 DEF GarbageArtifacts
      <4>2. QED
        BY <1>1, <1>3, <3>2, <4>1 DEF GenerationsIntact
    <3>3. QED
      BY <3>1, <3>2
  <2>3. QED
    BY <2>1, <2>2 DEF GenerationsIntact
<1>6. MemoryIntact'
  BY <1>1 DEF MemoryIntact, GarbageSnapshots, GarbageArtifacts, CitedSnapshots, CitedArtifacts
<1>7. OverlaysIntact'
  BY <1>1, <1>3 DEF OverlaysIntact, ContentTypes
<1>8. AuditInv'
  <2>1. ASSUME NEW g \in garbage PROVE g \in Gen /\ ~Exists(g)' /\ g <= lastIssued'
    BY <1>2, <1>3, <2>1 DEF IInv, GenInv
  <2>2. ASSUME NEW d \in audits, NEW g \in d.candidates
        PROVE  g \in Gen /\ ~Exists(g)' /\ g <= lastIssued'
    BY <1>2, <1>3 DEF AuditInv
  <2>3. QED
    BY <1>1, <2>1, <2>2 DEF AuditInv
<1>9. QED
  BY <1>4, <1>5, <1>6, <1>7, <1>8

(* The operator applies the plan that was shown.                           *)
LEMMA ApplyCases ==
    ASSUME RetentionInv, ApplyShown
    PROVE  \/ /\ SweepRetentionPlan(shown.candidates) /\ Idle
              /\ shown # None /\ shown.candidates \in SUBSET Gen
              /\ shown.digest.candidates = shown.candidates
              /\ \A g \in shown.candidates : lifecycle[g] = "retained"
           \/ /\ UNCHANGED <<vars, contentVars, memoryVars, scipVars, planVars>>
              /\ answer' # "ok"
<1> DEFINE plan == BuildPlan(shown.pins)
<1>1. Idle /\ shown # None
  BY DEF ApplyShown
<1>2. CASE plan # None /\ StillCurrent(plan) /\ SweepRetentionPlan(plan.candidates)
  BY <1>1, <1>2, SweptFacts DEF RetentionInv, SweepInv, PlanInv
<1>3. CASE ExceedLimit(plan.candidates) \/ RefusePlan
  BY <1>3 DEF ExceedLimit, RefusePlan
<1>4. QED
  BY <1>2, <1>3 DEF ApplyShown

(* Nothing changes but the answer.                                         *)
LEMMA AnswerSweep ==
    ASSUME RetentionInv, UNCHANGED <<vars, contentVars, memoryVars, scipVars, planVars>>
    PROVE  SweepInv'
<1>1. UNCHANGED <<lifecycle, staging, lastIssued, genSnapshot, snapshots, artifacts, citations,
                  overlays, activeOverlay, audits, shown>>
  BY DEF vars, genVars, contentVars, memoryVars, scipVars, planVars
<1>2. QED
  BY <1>1 DEF RetentionInv, SweepInv, ContentTypes, StagedContent, MemoryIntact, PlanInv, AuditInv,
      GenerationsIntact, OverlaysIntact, Exists, Files

(* An empty store.                                                         *)
LEMMA RetentionInitInv ==
    ASSUME RetentionInit
    PROVE  RetentionInv
<1>1. IInv
  BY InitInv DEF RetentionInit
<1>2. /\ genSnapshot = [g \in Gen |-> None] /\ snapshots = {} /\ artifacts = {} /\ citations = {}
      /\ overlays = {} /\ activeOverlay = [r \in Repo |-> 0] /\ audits = {} /\ shown = None
      /\ lifecycle = [g \in Gen |-> "absent"] /\ staging = 0
  BY DEF RetentionInit, Init
<1>3. ContentTypes /\ StagedContent /\ MemoryIntact /\ PlanInv /\ AuditInv
  BY <1>2 DEF ContentTypes, StagedContent, MemoryIntact, PlanInv, AuditInv
<1>4. GenerationsIntact /\ OverlaysIntact
  BY <1>2 DEF GenerationsIntact, OverlaysIntact, Exists, Files, Readable
<1>5. QED
  BY <1>1, <1>3, <1>4 DEF RetentionInv, SweepInv

(* Every step preserves the invariant.                                     *)
LEMMA RetentionNextInv ==
    ASSUME RetentionInv, [RetentionNext]_retentionVars
    PROVE  RetentionInv'
<1>1. IInv'
  BY RetentionStoreStep, NextInv DEF RetentionInv
<1>2. CASE ApplyShown
  BY <1>1, <1>2, ApplyCases, SweepSweep, AnswerSweep DEF RetentionInv
<1>3. CASE ReplayRetention \/ UNCHANGED retentionVars
  <2>1. UNCHANGED <<vars, contentVars, memoryVars, scipVars, planVars>>
    BY <1>3 DEF ReplayRetention, retentionVars
  <2>2. QED
    BY <1>1, <2>1, AnswerSweep DEF RetentionInv
<1>4. CASE StoreStep
  BY <1>1, <1>4, CommandSweep DEF RetentionInv
<1>5. CASE \E r \in Repo, e \in Epoch, g \in Gen, s \in Snapshot : StageSnapshot(r, e, g, s)
  BY <1>1, <1>5, StageSweep DEF RetentionInv
<1>6. CASE \E r \in Repo, a \in UNION {ArtifactsOf[s] : s \in Snapshot} :
              CaptureMemory(r, a) \/ ProjectMemory(r, a)
  BY <1>1, <1>6, MemorySweep DEF RetentionInv
<1>7. CASE \E r \in Repo : ImportOverlay(r)
  BY <1>1, <1>7, OverlaySweep DEF RetentionInv
<1>8. CASE \E pins \in PinSets : PlanRetention(pins)
  BY <1>1, <1>8, PlanSweep DEF RetentionInv
<1>9. QED
  BY <1>2, <1>3, <1>4, <1>5, <1>6, <1>7, <1>8 DEF RetentionNext

-----------------------------------------------------------------------------
(* The invariant holds under any interleaving of plans, applications, runs,*)
(* captures and imports.                                                   *)
THEOREM RetentionInvariance == RetentionSpec => []RetentionInv
<1>1. RetentionInit => RetentionInv
  BY RetentionInitInv
<1>2. RetentionInv /\ [RetentionNext]_retentionVars => RetentionInv'
  BY RetentionNextInv
<1>3. QED
  BY <1>1, <1>2, PTL DEF RetentionSpec

(* Plans and sweeps use the store only through its commands, so every      *)
(* theorem about the store holds of a store that is swept.                 *)
THEOREM RetentionUsesTheStore == RetentionSpec => Spec
<1>1. RetentionInit => Init
  BY DEF RetentionInit
<1>2. RetentionInv /\ [RetentionNext]_retentionVars => [Next]_vars
  BY RetentionStoreStep
<1>3. QED
  BY <1>1, <1>2, RetentionInvariance, PTL DEF RetentionSpec, Spec

(* No sweep leaves a dangling reference, however snapshots and artifacts   *)
(* are shared between generations and memory.                              *)
THEOREM NothingDangles == RetentionSpec => []ReferencesIntact
<1>1. RetentionInv /\ ViewsBacked => ReferencesIntact
  BY DEF RetentionInv, SweepInv, GenerationsIntact, MemoryIntact, OverlaysIntact, ReferencesIntact
<1>2. QED
  BY <1>1, RetentionInvariance, RetentionUsesTheStore, BackedViews, PTL

(* An application deletes what the operator was shown and nothing else,    *)
(* and a positive answer, a replayed one included, means that all of it is *)
(* gone.                                                                   *)
THEOREM AppliedAsShown == RetentionSpec => ApplyDoesWhatWasShown
<1> DEFINE AsShown ==
      /\ \A g \in Gen : Exists(g) /\ ~Exists(g)' => shown # None /\ g \in shown.candidates
      /\ answer' = "ok" => \A g \in shown.candidates : ~Exists(g)'
<1>1. ASSUME RetentionInv, ApplyShown
      PROVE  AsShown
  <2>1. CASE /\ SweepRetentionPlan(shown.candidates) /\ shown # None
             /\ shown.candidates \in SUBSET Gen
    <3>1. lifecycle' = [g \in Gen |-> IF g \in shown.candidates THEN "absent" ELSE lifecycle[g]]
      BY <2>1 DEF SweepRetentionPlan, ApplyRetention
    <3>2. QED
      BY <2>1, <3>1 DEF Exists
  <2>2. CASE UNCHANGED vars /\ answer' # "ok"
    BY <2>2 DEF vars, genVars, Exists
  <2>3. QED
    BY <1>1, <2>1, <2>2, ApplyCases
<1>2. ASSUME RetentionInv, ReplayRetention
      PROVE  AsShown
  <2>1. lifecycle' = lifecycle /\ shown # None /\ shown.digest \in audits
    BY <1>2 DEF ReplayRetention, vars, genVars
  <2>2. \A g \in shown.candidates : ~Exists(g)
    BY <1>2, <2>1 DEF RetentionInv, SweepInv, PlanInv, AuditInv
  <2>3. QED
    BY <2>1, <2>2 DEF Exists
<1>3. ASSUME RetentionInv, StoreStep
      PROVE  AsShown
  BY <1>3, CommandFacts DEF RetentionInv, StoreStep
<1>4. ASSUME RetentionInv, NEW r \in Repo, NEW e \in Epoch, NEW g \in Gen, NEW s \in Snapshot,
             StageSnapshot(r, e, g, s)
      PROVE  AsShown
  BY <1>4 DEF StageSnapshot, Stage, CreateGeneration, Exists, RetentionInv, IInv, TypeOK
<1>5. ASSUME \/ \E r \in Repo, a \in UNION {ArtifactsOf[s] : s \in Snapshot} :
                   CaptureMemory(r, a) \/ ProjectMemory(r, a)
             \/ \E r \in Repo : ImportOverlay(r)
             \/ \E pins \in PinSets : PlanRetention(pins)
      PROVE  AsShown
  <2>1. lifecycle' = lifecycle /\ answer' = "none"
    BY <1>5 DEF CaptureMemory, ProjectMemory, ImportOverlay, PlanRetention, vars, genVars
  <2>2. QED
    BY <2>1 DEF Exists
<1>6. RetentionInv /\ [RetentionNext]_retentionVars => [AsShown]_retentionVars
  <2> HIDE DEF AsShown
  <2>1. QED
    BY <1>1, <1>2, <1>3, <1>4, <1>5 DEF RetentionNext
<1>7. QED
  BY <1>6, RetentionInvariance, PTL DEF RetentionSpec, ApplyDoesWhatWasShown
-----------------------------------------------------------------------------
(* Sums over finite sets.                                                  *)

(* A family of subsets of a finite set has a minimal member: induction     *)
(* over finite sets.                                                       *)
LEMMA SmallestSubset ==
    ASSUME NEW S, IsFiniteSet(S), NEW F, F \subseteq SUBSET S, F # {}
    PROVE  \E T \in F : \A U \in F : U \subseteq T => U = T
<1> DEFINE R == StrictSubsetOrdering(S)
<1>1. \A T \in F : T \in FiniteSubsetsOf(S)
  BY FS_Subset DEF FiniteSubsetsOf
<1>2. IsWellFoundedOn(R, FiniteSubsetsOf(S))
  BY FS_StrictSubsetOrderingWellFounded
<1>3. \E T \in F : \A U \in F : ~(<<U, T>> \in R)
  <2> HIDE DEF R
  <2> QED
    BY <1>1, <1>2, WFMin
<1>4. PICK T \in F : \A U \in F : ~(<<U, T>> \in R)
  BY <1>3
<1>5. ASSUME NEW U \in F, U \subseteq T, U # T
      PROVE  <<U, T>> \in R
  <2> DEFINE p == <<U, T>>
  <2>1. p \in (SUBSET S) \X (SUBSET S) /\ p[1] = U /\ p[2] = T
    OBVIOUS
  <2> HIDE DEF p
  <2>2. p \in {q \in (SUBSET S) \X (SUBSET S) : q[1] \subseteq q[2] /\ q[1] # q[2]}
    BY <2>1, <1>5
  <2> QED
    BY <2>2 DEF StrictSubsetOrdering, p
<1> HIDE DEF R
<1>6. ASSUME NEW U \in F, U \subseteq T
      PROVE  U = T
  BY <1>4, <1>5, <1>6
<1> QED
  BY <1>6

(* A sum is the number of cells of a diagram with one column per index.    *)
Cells(f, S) == UNION {{x} \X (1 .. f[x]) : x \in S}

(* Taking an index away takes its column away.                             *)
LEMMA OneColumn ==
    ASSUME NEW f, NEW S, NEW x \in S, f[x] \in Nat, IsFiniteSet(Cells(f, S \ {x}))
    PROVE  /\ IsFiniteSet(Cells(f, S))
           /\ Cardinality(Cells(f, S)) = f[x] + Cardinality(Cells(f, S \ {x}))
<1> DEFINE column == {x} \X (1 .. f[x])
           rest   == Cells(f, S \ {x})
<1>1. IsFiniteSet(column) /\ Cardinality(column) = f[x]
  <2>1. IsFiniteSet({x}) /\ Cardinality({x}) = 1
    BY FS_Singleton
  <2>2. IsFiniteSet(1 .. f[x]) /\ Cardinality(1 .. f[x]) = f[x]
    BY FS_Interval
  <2>3. IsFiniteSet(column) /\ Cardinality(column) = Cardinality({x}) * Cardinality(1 .. f[x])
    BY <2>1, <2>2, FS_Product
  <2> HIDE DEF column
  <2> QED
    BY <2>1, <2>2, <2>3
<1>2. Cells(f, S) = column \cup rest
  BY DEF Cells
<1>3. column \cap rest = {}
  BY DEF Cells
<1>4. Cardinality(column \cap rest) = 0
  BY <1>3, FS_EmptySet
<1>5. IsFiniteSet(column \cup rest)
      /\ Cardinality(column \cup rest) = Cardinality(column) + Cardinality(rest)
  <2>1. IsFiniteSet(rest) /\ Cardinality(rest) \in Nat
    BY FS_CardinalityType
  <2> HIDE DEF column, rest
  <2>2. /\ IsFiniteSet(column \cup rest)
        /\ Cardinality(column \cup rest) =
              Cardinality(column) + Cardinality(rest) - Cardinality(column \cap rest)
    BY <1>1, <2>1, FS_Union
  <2> QED
    BY <1>1, <1>4, <2>1, <2>2
<1> QED
  BY <1>1, <1>2, <1>5

(* The diagram is finite.                                                  *)
LEMMA CellsFinite ==
    ASSUME NEW S, IsFiniteSet(S), NEW f, \A x \in S : f[x] \in Nat
    PROVE  IsFiniteSet(Cells(f, S))
<1> DEFINE bad == {T \in SUBSET S : ~IsFiniteSet(Cells(f, T))}
<1>1. SUFFICES ASSUME bad # {} PROVE FALSE
  OBVIOUS
<1>2. PICK T \in bad : \A U \in bad : U \subseteq T => U = T
  <2>1. bad \subseteq SUBSET S
    OBVIOUS
  <2> HIDE DEF bad
  <2> QED
    BY <1>1, <2>1, SmallestSubset
<1>3. T # {}
  <2>1. Cells(f, {}) = {}
    BY DEF Cells
  <2> QED
    BY <2>1, FS_EmptySet
<1>4. PICK x \in T : TRUE
  BY <1>3
<1>5. IsFiniteSet(Cells(f, T \ {x}))
  BY <1>2, <1>4
<1>6. IsFiniteSet(Cells(f, T))
  BY <1>5, OneColumn
<1> QED
  BY <1>6

(* The fold that defines a sum counts the cells.                           *)
LEMMA SumIsCardinality ==
    ASSUME NEW S, IsFiniteSet(S), NEW f, \A x \in S : f[x] \in Nat
    PROVE  SumFunctionOnSet(f, S) = Cardinality(Cells(f, S))
<1> DEFINE pick(s) == CHOOSE x \in s : TRUE
           G(h) == [s \in SUBSET S |->
                      IF s = {} THEN 0 ELSE f[pick(s)] + h[s \ {pick(s)}]]
           W == [s \in SUBSET S |-> Cardinality(Cells(f, s))]
           iter == CHOOSE h : h = G(h)
<1>1. SumFunctionOnSet(f, S) = iter[S]
  BY DEF SumFunctionOnSet, FoldFunctionOnSet, MapThenFoldSet
<1>2. \A s \in SUBSET S : s # {} => pick(s) \in s /\ s \ {pick(s)} \in SUBSET S
  OBVIOUS
<1> HIDE DEF pick
<1>3. ASSUME NEW s \in SUBSET S
      PROVE  W[s] = IF s = {} THEN 0 ELSE f[pick(s)] + W[s \ {pick(s)}]
  <2>1. CASE s = {}
    <3>1. Cells(f, {}) = {}
      BY DEF Cells
    <3> QED
      BY <2>1, <3>1, FS_EmptySet
  <2>2. CASE s # {}
    <3>1. pick(s) \in s /\ s \ {pick(s)} \in SUBSET S /\ f[pick(s)] \in Nat
      BY <1>2, <2>2
    <3>2. IsFiniteSet(Cells(f, s \ {pick(s)}))
      <4>1. IsFiniteSet(s \ {pick(s)})
        BY <3>1, FS_Subset
      <4> QED
        BY <3>1, <4>1, CellsFinite
    <3>3. Cardinality(Cells(f, s)) = f[pick(s)] + Cardinality(Cells(f, s \ {pick(s)}))
      BY <3>1, <3>2, OneColumn
    <3> QED
      BY <2>2, <3>1, <3>3
  <2> QED
    BY <2>1, <2>2
<1>4. W = G(W)
  <2>1. W = [s \in SUBSET S |-> W[s]]
    OBVIOUS
  <2> HIDE DEF W
  <2> QED
    BY <1>3, <2>1
<1>5. iter = G(iter)
  <2> HIDE DEF G, W
  <2> QED
    BY <1>4
<1>6. \A s \in SUBSET S : iter[s] = IF s = {} THEN 0 ELSE f[pick(s)] + iter[s \ {pick(s)}]
  <2> HIDE DEF iter
  <2> QED
    BY <1>5
<1> HIDE DEF W, iter, G
<1>7. \A s \in SUBSET S : iter[s] = W[s]
  <2> DEFINE bad == {s \in SUBSET S : iter[s] # W[s]}
  <2>1. SUFFICES ASSUME bad # {} PROVE FALSE
    OBVIOUS
  <2>2. PICK s \in bad : \A u \in bad : u \subseteq s => u = s
    <3>1. bad \subseteq SUBSET S
      OBVIOUS
    <3> HIDE DEF bad
    <3> QED
      BY <2>1, <3>1, SmallestSubset
  <2>3. s # {}
    BY <1>3, <1>6
  <2>4. pick(s) \in s /\ s \ {pick(s)} \in SUBSET S
    BY <1>2, <2>3
  <2>5. iter[s \ {pick(s)}] = W[s \ {pick(s)}]
    BY <2>2, <2>4
  <2> QED
    BY <1>3, <1>6, <2>3, <2>5
<1> QED
  BY <1>1, <1>7 DEF W

(* Sums are numbers; an index more adds its value.                         *)
LEMMA SumFacts ==
    ASSUME NEW S, IsFiniteSet(S), NEW f, \A x \in S : f[x] \in Nat
    PROVE  /\ SumFunctionOnSet(f, S) \in Nat
           /\ SumFunctionOnSet(f, {}) = 0
           /\ \A x \in S : SumFunctionOnSet(f, S) = SumFunctionOnSet(f, S \ {x}) + f[x]
           /\ \A T \in SUBSET S : SumFunctionOnSet(f, T) <= SumFunctionOnSet(f, S)
<1>1. \A T \in SUBSET S : /\ IsFiniteSet(T) /\ IsFiniteSet(Cells(f, T))
                          /\ SumFunctionOnSet(f, T) = Cardinality(Cells(f, T))
                          /\ SumFunctionOnSet(f, T) \in Nat
  <2> TAKE T \in SUBSET S
  <2>1. IsFiniteSet(T)
    BY FS_Subset
  <2>2. IsFiniteSet(Cells(f, T))
    BY <2>1, CellsFinite
  <2> QED
    BY <2>1, <2>2, SumIsCardinality, FS_CardinalityType
<1>2. SumFunctionOnSet(f, {}) = 0
  <2>1. Cells(f, {}) = {}
    BY DEF Cells
  <2> QED
    BY <1>1, <2>1, FS_EmptySet
<1>3. ASSUME NEW x \in S
      PROVE  SumFunctionOnSet(f, S) = SumFunctionOnSet(f, S \ {x}) + f[x]
  <2>1. S \in SUBSET S /\ S \ {x} \in SUBSET S /\ f[x] \in Nat
    OBVIOUS
  <2>2. IsFiniteSet(Cells(f, S \ {x}))
    BY <1>1, <2>1
  <2>3. Cardinality(Cells(f, S)) = f[x] + Cardinality(Cells(f, S \ {x}))
    BY <2>1, <2>2, OneColumn
  <2> QED
    BY <1>1, <2>1, <2>3
<1>4. ASSUME NEW T \in SUBSET S
      PROVE  SumFunctionOnSet(f, T) <= SumFunctionOnSet(f, S)
  <2>1. Cells(f, T) \in SUBSET Cells(f, S)
    BY DEF Cells
  <2> QED
    BY <1>1, <2>1, FS_Subset
<1> QED
  BY <1>1, <1>2, <1>3, <1>4

-----------------------------------------------------------------------------
(* Reservations.                                                           *)

(* What keeps every count of a plan a number.                              *)
CountInv ==
    /\ IsFiniteSet(views)
    /\ IsFiniteSet(citations)
    /\ projected \subseteq Gen
    /\ snapshots \subseteq Snapshot
    /\ shown # None => shown.pins \subseteq Gen

(* The sets of generations, slots and receipts are finite.                 *)
LEMMA FiniteTables ==
    /\ IsFiniteSet(Gen) /\ IsFiniteSet(Slot) /\ IsFiniteSet(Repo)
    /\ IsFiniteSet(Slot \X Epoch)
<1>1. IsFiniteSet(Gen) /\ IsFiniteSet(Epoch)
  BY StoreAssumption, FS_Interval DEF Gen, Epoch
<1>2. IsFiniteSet(Slot)
  BY RetentionAssumption
<1>3. IsFiniteSet(Repo)
  <2>1. Repo \in SUBSET Slot
    BY DEF Slot
  <2> QED
    BY <1>2, <2>1, FS_Subset
<1>4. IsFiniteSet(Slot \X Epoch)
  BY <1>1, <1>2, FS_Product
<1> QED
  BY <1>1, <1>2, <1>3, <1>4

(* A plan keeps the pins it was made with.                                 *)
LEMMA PlanPins ==
    ASSUME NEW pins, BuildPlan(pins) # None
    PROVE  BuildPlan(pins).pins = pins
  BY DEF BuildPlan

(* The initial state has nothing to count.                                 *)
LEMMA CountInit ==
    ASSUME RetentionInit
    PROVE  CountInv
<1>1. views = {} /\ citations = {} /\ projected = {} /\ snapshots = {} /\ shown = None
  BY DEF RetentionInit, Init
<1> QED
  BY <1>1, FS_EmptySet DEF CountInv

(* A step adds at most one view and one citation.                          *)
LEMMA CountStep ==
    ASSUME RetentionInv, CountInv, [RetentionNext]_retentionVars
    PROVE  CountInv'
<1>1. ASSUME NEW v, views' \subseteq views \cup {v}
      PROVE  IsFiniteSet(views')
  <2>1. IsFiniteSet(views \cup {v})
    BY FS_AddElement DEF CountInv
  <2> QED
    BY <1>1, <2>1, FS_Subset
<1>2. IsFiniteSet(views')
  <2>1. [Next]_vars
    BY RetentionStoreStep
  <2>2. \E v : views' \subseteq views \cup {v}
    <3>1. ASSUME NEW w \in Workspace, PublishWorkspaceView(w)
          PROVE  views' \subseteq views \cup {CurrentView(w)}
      BY <3>1 DEF PublishWorkspaceView
    <3>2. ASSUME NEW g \in Gen, NEW e \in Epoch, Activate(g, e)
          PROVE  views' \subseteq views \cup {DefaultView(genRepo[g], g)}
      BY <3>2 DEF Activate
    <3>3. ASSUME NEW garbage \in SUBSET Gen, ApplyRetention(garbage)
          PROVE  views' \subseteq views
      BY <3>3 DEF ApplyRetention
    <3>4. CASE UNCHANGED vars
      BY <3>4 DEF vars, viewVars
    <3>5. CASE Recover \/ Stop \/ StageAdvance \/ (\E r \in Repo : AdvanceSourceEpoch(r))
               \/ (\E r \in Repo, e \in Epoch : EnsureWorkspace(r, e))
               \/ (\E outcome \in Lifecycle : StageAbort(outcome))
               \/ (\E g \in Gen, outcome \in Lifecycle : StageArtifactsFailed(g, outcome))
      BY <3>5 DEF Recover, Stop, StageAdvance, AdvanceSourceEpoch, EnsureWorkspace, StageAbort,
                  StageArtifactsFailed, viewVars
    <3>6. CASE \/ \E w \in ConfiguredWorkspace, d \in SUBSET ConfiguredSlot :
                    \E mapping \in [d -> Repo] : ConnectWorkspace(w, mapping)
               \/ \E s \in Slot, e \in Epoch : ReserveSourceSlotEpoch(s, e)
      BY <3>6 DEF ConnectWorkspace, ReserveSourceSlotEpoch, viewVars
    <3>7. CASE \/ \E r \in Repo, e \in Epoch, g \in Gen : Stage(r, e, g)
               \/ \E s \in Slot, e \in Epoch, g \in Gen : StageSourceSlot(s, e, g)
               \/ \E s \in Slot, e \in Epoch, g \in Gen : CompleteSourceSlotEpoch(s, e, g)
      BY <3>7 DEF Stage, StageSourceSlot, CreateGeneration, CompleteSourceSlotEpoch, viewVars
    <3> QED
      BY <2>1, <3>1, <3>2, <3>3, <3>4, <3>5, <3>6, <3>7 DEF Next, Workspace
  <2> QED
    BY <1>1, <2>2
<1>3. /\ IsFiniteSet(citations') /\ projected' \subseteq Gen /\ snapshots' \subseteq Snapshot
      /\ shown' # None => shown'.pins \subseteq Gen
  <2>1. CASE StoreStep \/ ReplayRetention \/ (\E r \in Repo : ImportOverlay(r)) \/ UNCHANGED retentionVars
    <3>1. citations' = citations /\ projected' = projected /\ snapshots' = snapshots /\ shown' = shown
      BY <2>1 DEF StoreStep, ReplayRetention, ImportOverlay, contentVars, memoryVars, planVars,
                  retentionVars
    <3> QED
      BY <3>1 DEF CountInv
  <2>2. ASSUME NEW r \in Repo, NEW e \in Epoch, NEW g \in Gen, NEW s \in Snapshot,
               StageSnapshot(r, e, g, s)
        PROVE  /\ IsFiniteSet(citations') /\ projected' \subseteq Gen /\ snapshots' \subseteq Snapshot
               /\ shown' # None => shown'.pins \subseteq Gen
    BY <2>2 DEF StageSnapshot, memoryVars, planVars, CountInv
  <2>3. ASSUME NEW r \in Repo, NEW a, CaptureMemory(r, a) \/ ProjectMemory(r, a)
        PROVE  /\ IsFiniteSet(citations') /\ projected' \subseteq Gen /\ snapshots' \subseteq Snapshot
               /\ shown' # None => shown'.pins \subseteq Gen
    <3>1. /\ citations' = citations \cup {[snapshot |-> genSnapshot[activeGen[r]], artifact |-> a]}
          /\ projected' \subseteq projected \cup {activeGen[r]} /\ activeGen[r] # 0
          /\ snapshots' = snapshots /\ shown' = shown
      BY <2>3 DEF CaptureMemory, ProjectMemory, contentVars, planVars
    <3>2. activeGen[r] \in Gen
      BY <3>1 DEF RetentionInv, IInv, TypeOK
    <3>3. IsFiniteSet(citations')
      BY <3>1, FS_AddElement DEF CountInv
    <3> QED
      BY <3>1, <3>2, <3>3 DEF CountInv
  <2>4. ASSUME NEW pins \in PinSets, PlanRetention(pins)
        PROVE  /\ IsFiniteSet(citations') /\ projected' \subseteq Gen /\ snapshots' \subseteq Snapshot
               /\ shown' # None => shown'.pins \subseteq Gen
    <3>1. /\ citations' = citations /\ projected' = projected /\ snapshots' = snapshots
          /\ shown' = BuildPlan(pins) /\ BuildPlan(pins) # None
      BY <2>4 DEF PlanRetention, contentVars, memoryVars
    <3>2. shown'.pins \subseteq Gen
      BY <3>1, PlanPins, RetentionAssumption
    <3> QED
      BY <3>1, <3>2 DEF CountInv
  <2>5. CASE ApplyShown
    <3>1. /\ citations' = citations /\ projected' = projected /\ snapshots' \subseteq snapshots
          /\ shown' = shown
      BY <2>5 DEF ApplyShown, ExceedLimit, RefusePlan, SweepRetentionPlan, contentVars, memoryVars,
                  planVars
    <3> QED
      BY <3>1 DEF CountInv
  <2> QED
    BY <2>1, <2>2, <2>3, <2>4, <2>5 DEF RetentionNext
<1> QED
  BY <1>2, <1>3 DEF CountInv

(* The roots of a plan can be counted.                                     *)
LEMMA RootsCounted ==
    ASSUME RetentionInv, CountInv, NEW pins \in SUBSET Gen
    PROVE  RootCount(Roots(pins)) \in Nat
<1> DEFINE roots == Roots(pins)
<1>1. \A S : IsFiniteSet(S) => Cardinality(S) \in Nat
  BY FS_CardinalityType
<1>2. /\ \A T \in SUBSET Gen : IsFiniteSet(T)
      /\ \A T \in SUBSET Slot : IsFiniteSet(T)
      /\ \A T \in SUBSET Repo : IsFiniteSet(T)
      /\ \A T \in SUBSET views : IsFiniteSet(T)
      /\ IsFiniteSet(citations)
  BY FiniteTables, FS_Subset DEF CountInv
<1>3. IsFiniteSet(Slot \X (Gen \cup {0})) /\ IsFiniteSet(Repo \X (Gen \cup {0}))
  <2>1. IsFiniteSet(Gen \cup {0})
    BY FiniteTables, FS_AddElement
  <2> QED
    BY <2>1, FiniteTables, FS_Product
<1>4. IsFiniteSet(CurrentReceipts)
  <2>1. CurrentReceipts \in SUBSET (Slot \X (Gen \cup {0}))
    BY DEF CurrentReceipts, RetentionInv, IInv, TypeOK
  <2> QED
    BY <1>3, <2>1, FS_Subset
<1>5. IsFiniteSet({<<r, activeOverlay[r]>> : r \in {q \in Repo : activeOverlay[q] # 0}})
  <2>1. {<<r, activeOverlay[r]>> : r \in {q \in Repo : activeOverlay[q] # 0}}
          \in SUBSET (Repo \X (Gen \cup {0}))
    BY DEF RetentionInv, SweepInv, ContentTypes
  <2> QED
    BY <1>3, <2>1, FS_Subset
<1>6. /\ roots.pins = pins /\ DOMAIN roots.workspaces = registered
      /\ DOMAIN roots.slots = {t \in Slot : slotOwner[t] # None}
      /\ roots.views = {v \in views : activeView[v.workspace] = v}
      /\ roots.receipts = CurrentReceipts
      /\ roots.floor = {g \in Gen : lifecycle[g] = "retained" /\ RetainedRank(g) <= Keep}
      /\ roots.memory = citations /\ roots.projections = projected /\ roots.overlays = overlays
      /\ roots.active = {<<r, activeOverlay[r]>> : r \in {q \in Repo : activeOverlay[q] # 0}}
  BY DEF Roots
<1> HIDE DEF roots
<1>7. /\ IsFiniteSet(roots.pins) /\ IsFiniteSet(DOMAIN roots.workspaces)
      /\ IsFiniteSet(DOMAIN roots.slots)
  <2>1. registered \in SUBSET Repo
    BY DEF RetentionInv, IInv, TypeOK
  <2>2. {t \in Slot : slotOwner[t] # None} \in SUBSET Slot
    OBVIOUS
  <2> QED
    BY <1>2, <1>6, <2>1, <2>2
<1>8. IsFiniteSet(roots.views) /\ IsFiniteSet(roots.floor)
  <2>1. {v \in views : activeView[v.workspace] = v} \in SUBSET views
    OBVIOUS
  <2>2. {g \in Gen : lifecycle[g] = "retained" /\ RetainedRank(g) <= Keep} \in SUBSET Gen
    OBVIOUS
  <2> QED
    BY <1>2, <1>6, <2>1, <2>2
<1>9. IsFiniteSet(roots.memory) /\ IsFiniteSet(roots.projections) /\ IsFiniteSet(roots.overlays)
  <2>1. projected \in SUBSET Gen /\ overlays \in SUBSET Gen
    BY DEF CountInv, RetentionInv, SweepInv, ContentTypes
  <2> QED
    BY <1>2, <1>6, <2>1
<1>10. /\ Cardinality(roots.pins) \in Nat /\ Cardinality(DOMAIN roots.workspaces) \in Nat
       /\ Cardinality(DOMAIN roots.slots) \in Nat /\ Cardinality(roots.views) \in Nat
       /\ Cardinality(roots.receipts) \in Nat /\ Cardinality(roots.floor) \in Nat
       /\ Cardinality(roots.memory) \in Nat /\ Cardinality(roots.projections) \in Nat
       /\ Cardinality(roots.overlays) \in Nat /\ Cardinality(roots.active) \in Nat
  BY <1>1, <1>4, <1>5, <1>6, <1>7, <1>8, <1>9
<1>11. RootCount(roots) \in Nat
  BY <1>10 DEF RootCount
<1> QED
  BY <1>11 DEF roots

(* The order of a plan is strict.                                          *)
LEMMA PlannedOrder ==
    ASSUME RetentionInv, NEW S \in SUBSET {g \in Gen : Exists(g)}
    PROVE  /\ \A g \in S : ~PlannedBefore(g, g)
           /\ \A f, g, h \in S : PlannedBefore(f, g) /\ PlannedBefore(g, h) => PlannedBefore(f, h)
<1>1. \A g \in S : SlotRank[genRepo[g]] \in Nat /\ genEpoch[g] \in Nat /\ g \in Nat
  <2> TAKE g \in S
  <2>1. g \in Gen /\ genRepo[g] \in Repo /\ genEpoch[g] \in Epoch
    BY DEF RetentionInv, IInv, TypeOK, GenInv
  <2> QED
    BY <2>1, RetentionAssumption, StoreAssumption DEF Gen, Epoch
<1> QED
  BY <1>1 DEF PlannedBefore

(* A proper prefix of a set of generations is as long as it was to be.     *)
LEMMA PrefixFills ==
    ASSUME RetentionInv, NEW S \in SUBSET {g \in Gen : Exists(g)}, NEW n \in Int,
           FirstPlanned(n, S) # S
    PROVE  n <= Cardinality(FirstPlanned(n, S))
<1> DEFINE below(g) == {h \in S : PlannedBefore(h, g)}
           prefix   == FirstPlanned(n, S)
           rest     == S \ prefix
           F        == {below(g) : g \in rest}
<1>1. IsFiniteSet(S)
  BY FiniteTables, FS_Subset
<1>2. prefix = {g \in S : Cardinality(below(g)) < n}
  BY DEF FirstPlanned
<1>3. PICK first \in rest : TRUE
  <2>1. prefix \subseteq S /\ prefix # S
    BY <1>2
  <2> HIDE DEF prefix
  <2> QED
    BY <2>1
<1>4. \A g : below(g) \subseteq S /\ \A h : h \in below(g) <=> h \in S /\ PlannedBefore(h, g)
  OBVIOUS
<1>5. rest \subseteq S /\ \A h : h \in rest <=> h \in S /\ h \notin prefix
  OBVIOUS
<1> HIDE DEF below, prefix, rest
<1>6. F \subseteq SUBSET S
  BY <1>4
<1>7. F # {}
  BY <1>3
<1>8. PICK T \in F : \A U \in F : U \subseteq T => U = T
  <2> HIDE DEF F
  <2> QED
    BY <1>1, <1>6, <1>7, SmallestSubset
<1>9. PICK g \in rest : T = below(g)
  OBVIOUS
<1>10. \A h \in rest : below(h) \subseteq below(g) => below(h) = below(g)
  <2>1. \A h \in rest : below(h) \in F
    OBVIOUS
  <2> QED
    BY <1>8, <1>9, <2>1
<1>11. below(g) \subseteq prefix
  <2> SUFFICES ASSUME NEW h \in below(g), h \notin prefix
               PROVE  FALSE
    OBVIOUS
  <2>1. h \in S /\ PlannedBefore(h, g) /\ h \in rest /\ g \in S
    BY <1>4, <1>5, <1>9
  <2>2. below(h) \subseteq below(g) /\ h \notin below(h)
    BY <1>4, <2>1, PlannedOrder
  <2> QED
    BY <2>1, <2>2, <1>10
<1>12. Cardinality(below(g)) \in Nat /\ ~(Cardinality(below(g)) < n)
  <2>1. IsFiniteSet(below(g))
    BY <1>1, <1>4, FS_Subset
  <2> QED
    BY <1>2, <1>5, <1>9, <2>1, FS_CardinalityType
<1>13. IsFiniteSet(prefix) /\ Cardinality(prefix) \in Nat
  <2>1. prefix \in SUBSET S
    BY <1>2
  <2>2. IsFiniteSet(prefix)
    BY <1>1, <2>1, FS_Subset
  <2> QED
    BY <2>2, FS_CardinalityType
<1>14. Cardinality(below(g)) <= Cardinality(prefix)
  BY <1>11, <1>13, FS_Subset
<1>15. n <= Cardinality(prefix)
  BY <1>12, <1>13, <1>14
<1> QED
  BY <1>15 DEF prefix

(* A bounded set of numbers has its maximum.                               *)
LEMMA MaxIsMember ==
    ASSUME NEW n \in Nat, NEW K \in SUBSET (0 .. n), K # {}
    PROVE  Max(K) \in K
<1> DEFINE S     == 0 .. n
           up(k) == {i \in S : i >= k}
           F     == {up(k) : k \in K}
<1>1. IsFiniteSet(S)
  BY FS_Interval
<1>2. \A k : up(k) \subseteq 0 .. n /\ \A i : i \in up(k) <=> i \in 0 .. n /\ i >= k
  OBVIOUS
<1> HIDE DEF up
<1>3. F \subseteq SUBSET S
  BY <1>2
<1>4. F # {}
  OBVIOUS
<1>5. PICK T \in F : \A U \in F : U \subseteq T => U = T
  <2> HIDE DEF F, S
  <2> QED
    BY <1>1, <1>3, <1>4, SmallestSubset
<1>6. PICK k \in K : T = up(k)
  OBVIOUS
<1>7. \A j \in K : up(j) \subseteq up(k) => up(j) = up(k)
  <2>1. \A j \in K : up(j) \in F
    OBVIOUS
  <2> QED
    BY <1>5, <1>6, <2>1
<1>8. \A j \in K : k >= j
  <2> SUFFICES ASSUME NEW j \in K, ~(k >= j)
               PROVE  FALSE
    OBVIOUS
  <2>1. k \in 0 .. n /\ j \in 0 .. n /\ j > k
    OBVIOUS
  <2>2. up(j) \subseteq up(k)
    BY <1>2, <2>1
  <2>3. k \in up(k) /\ k \notin up(j)
    BY <1>2, <2>1
  <2> QED
    BY <2>2, <2>3, <1>7
<1> QED
  BY <1>8 DEF Max

(* Everything a set of generations owns or shares is finite, so its rows   *)
(* can be counted.                                                         *)
LEMMA RowsCounted ==
    ASSUME RetentionInv, CountInv, NEW g \in Gen, lifecycle[g] = "retained"
    PROVE  /\ genSnapshot[g] \in Snapshot
           /\ Files(g) = ArtifactsOf[genSnapshot[g]]
           /\ IsFiniteSet(Files(g)) /\ Cardinality(Files(g)) \in Nat
           /\ IsFiniteSet(ViewsOf(g)) /\ Cardinality(ViewsOf(g)) \in Nat
           /\ IsFiniteSet(ReceiptsOf(g)) /\ Cardinality(ReceiptsOf(g)) \in Nat
           /\ EstimatedRows(g) \in Nat
           /\ EstimatedRows(g) = 2 + 3 * Cardinality(Files(g)) + 2 * Cardinality(ViewsOf(g))
                                   + Cardinality(ReceiptsOf(g))
<1>1. genSnapshot[g] \in Snapshot
  BY DEF RetentionInv, SweepInv, GenerationsIntact, CountInv, Exists
<1>2. Files(g) = ArtifactsOf[genSnapshot[g]]
  BY DEF Files, Readable
<1>3. IsFiniteSet(Files(g)) /\ Cardinality(Files(g)) \in Nat
  BY <1>1, <1>2, RetentionAssumption, FS_CardinalityType
<1>4. IsFiniteSet(ViewsOf(g)) /\ Cardinality(ViewsOf(g)) \in Nat
  <2>1. ViewsOf(g) \in SUBSET views
    BY DEF ViewsOf
  <2>2. IsFiniteSet(ViewsOf(g))
    BY <2>1, FS_Subset DEF CountInv
  <2> QED
    BY <2>2, FS_CardinalityType
<1>5. IsFiniteSet(ReceiptsOf(g)) /\ Cardinality(ReceiptsOf(g)) \in Nat
  <2>1. ReceiptsOf(g) \in SUBSET (Slot \X Epoch)
    BY DEF ReceiptsOf
  <2>2. IsFiniteSet(ReceiptsOf(g))
    BY <2>1, FiniteTables, FS_Subset
  <2> QED
    BY <2>2, FS_CardinalityType
<1>6. EstimatedRows(g) = 1 + Cardinality(Files(g)) + 2 * Cardinality(ViewsOf(g))
                           + Cardinality(ReceiptsOf(g)) + 1 + 2 * Cardinality(Files(g))
  BY <1>2 DEF EstimatedRows
<1>7. /\ EstimatedRows(g) \in Nat
      /\ EstimatedRows(g) = 2 + 3 * Cardinality(Files(g)) + 2 * Cardinality(ViewsOf(g))
                              + Cardinality(ReceiptsOf(g))
  BY <1>3, <1>4, <1>5, <1>6
<1> QED
  BY <1>1, <1>2, <1>3, <1>4, <1>5, <1>7

(* So a reservation is a number.                                           *)
LEMMA EstimatesCounted ==
    ASSUME RetentionInv, CountInv, NEW garbage \in SUBSET Gen,
           \A g \in garbage : lifecycle[g] = "retained"
    PROVE  Estimate(garbage) \in Nat /\ Reservation(garbage) \in Nat
<1> DEFINE f == [g \in garbage |-> EstimatedRows(g)]
<1>1. IsFiniteSet(garbage)
  BY FiniteTables, FS_Subset
<1>2. \A g \in garbage : f[g] \in Nat
  BY RowsCounted
<1>3. SumFunctionOnSet(f, garbage) \in Nat
  <2> HIDE DEF f
  <2> QED
    BY <1>1, <1>2, SumFacts
<1>4. Estimate(garbage) \in Nat
  BY <1>3 DEF Estimate
<1> QED
  BY <1>4 DEF Reservation

(* A plan that is offered fits its rows, and it has counted every eligible *)
(* generation.                                                             *)
LEMMA PlanFits ==
    ASSUME RetentionInv, CountInv, NEW pins \in SUBSET Gen, BuildPlan(pins) # None
    PROVE  RootCount(Roots(pins)) + Cardinality(EligibleGenerations(pins))
             + Reservation(BuildPlan(pins).candidates) + 1 <= MaxRows
<1> DEFINE roots      == Roots(pins)
           available  == MaxRows - RootCount(roots)
           eligible   == FirstPlanned(available, EligibleGenerations(pins))
           garbage(k) == FirstPlanned(k, eligible)
           total(k)   == RootCount(roots) + Cardinality(eligible) + Reservation(garbage(k)) + 1
           fits(k)    == /\ k <= MaxCandidates
                         /\ total(k) <= MaxRows
                         /\ Estimate(garbage(k)) <= MaxEstimate
           fitting    == {k \in 0 .. Cardinality(eligible) : fits(k)} \cup {0}
           longest    == Max(fitting)
           plan       == [pins       |-> pins,
                          candidates |-> garbage(longest),
                          digest     |-> PlanDigest(roots, eligible, garbage(longest),
                                                    total(longest))]
<1>1. BuildPlan(pins) = IF ~fits(0) \/ (longest = 0 /\ eligible # {}) THEN None ELSE plan
  BY DEF BuildPlan
<1>2. BuildPlan(pins) = plan /\ fits(0)
  <2> HIDE DEF fits, longest, eligible, plan
  <2> QED
    BY <1>1
<1>3. plan.candidates = garbage(longest)
  <2> HIDE DEF roots, eligible, total, longest, garbage
  <2> QED
    OBVIOUS
<1>4. /\ EligibleGenerations(pins) \in SUBSET {g \in Gen : Exists(g)}
      /\ IsFiniteSet(EligibleGenerations(pins))
  <2>1. EligibleGenerations(pins) \in SUBSET {g \in Gen : Exists(g)}
    BY DEF EligibleGenerations, Collectable, Eligible, Exists
  <2>2. EligibleGenerations(pins) \in SUBSET Gen
    BY <2>1
  <2> QED
    BY <2>1, <2>2, FiniteTables, FS_Subset
<1>5. eligible \subseteq EligibleGenerations(pins)
  BY FirstPlannedIsSubset
<1>6. IsFiniteSet(eligible) /\ Cardinality(eligible) \in Nat
  <2> HIDE DEF eligible
  <2> QED
    BY <1>4, <1>5, FS_Subset, FS_CardinalityType
<1>7. RootCount(roots) \in Nat /\ MaxRows \in Nat
  BY RootsCounted, RetentionAssumption
<1>8. \A k : fits(k) => total(k) <= MaxRows
  OBVIOUS
<1>9. fits(longest)
  <2>1. fitting \in SUBSET (0 .. Cardinality(eligible)) /\ fitting # {}
    BY <1>6
  <2>2. longest \in fitting
    <3> HIDE DEF fitting, eligible
    <3> QED
      BY <1>6, <2>1, MaxIsMember
  <2>3. \A k \in fitting : fits(k)
    <3> HIDE DEF fits, eligible
    <3> QED
      BY <1>2
  <2> HIDE DEF fits, longest, fitting
  <2> QED
    BY <2>2, <2>3
<1>10. total(longest) <= MaxRows
  <2> HIDE DEF fits, total, longest
  <2> QED
    BY <1>8, <1>9
<1>11. Reservation(garbage(longest)) \in Nat
  <2>1. garbage(longest) \subseteq eligible
    BY FirstPlannedIsSubset
  <2> HIDE DEF garbage, eligible, longest
  <2>2. garbage(longest) \subseteq EligibleGenerations(pins)
    BY <1>5, <2>1
  <2> QED
    BY <1>4, <2>2, EstimatesCounted DEF EligibleGenerations, Collectable, Eligible
<1> HIDE DEF garbage, longest
<1>12. eligible = EligibleGenerations(pins)
  <2>1. available \in Int
    BY <1>7
  <2>2. Cardinality(eligible) < available
    <3> HIDE DEF eligible, roots
    <3> QED
      BY <1>6, <1>7, <1>10, <1>11
  <2>3. SUFFICES ASSUME eligible # EligibleGenerations(pins) PROVE FALSE
    OBVIOUS
  <2>4. available <= Cardinality(eligible)
    <3> HIDE DEF available
    <3> QED
      BY <1>4, <2>1, <2>3, PrefixFills
  <2> HIDE DEF available, eligible
  <2> QED
    BY <1>6, <2>1, <2>2, <2>4
<1>13. RootCount(roots) + Cardinality(EligibleGenerations(pins))
         + Reservation(garbage(longest)) + 1 <= MaxRows
  <2> HIDE DEF eligible, roots
  <2> QED
    BY <1>10, <1>12
<1> HIDE DEF plan
<1> QED
  BY <1>2, <1>3, <1>13

(* What a set of generations is recorded in, before it is asked what else  *)
(* is recorded there.                                                      *)
SharedViews(G)     == {v \in views : \E s \in Slot : v.gen[s] \in G}
SharedReceipts(G)  == UNION {ReceiptsOf(g) : g \in G}
SharedSnapshots(G) == {genSnapshot[g] : g \in G}
SharedArtifacts(G) == UNION {Files(g) : g \in G}

(* The rows of one manifest.                                               *)
ManifestRows == [s \in Snapshot |-> 1 + Cardinality(ArtifactsOf[s])]

(* A set covered by two finite ones has no more members than both.         *)
LEMMA CoverBound ==
    ASSUME NEW A, NEW B, IsFiniteSet(A), IsFiniteSet(B), NEW C, C \subseteq A \cup B
    PROVE  /\ IsFiniteSet(C) /\ Cardinality(C) \in Nat
           /\ Cardinality(A) \in Nat /\ Cardinality(B) \in Nat
           /\ Cardinality(C) <= Cardinality(A) + Cardinality(B)
<1>1. /\ IsFiniteSet(A \cup B)
      /\ Cardinality(A \cup B) = Cardinality(A) + Cardinality(B) - Cardinality(A \cap B)
  BY FS_Union
<1>2. IsFiniteSet(A \cap B)
  BY FS_Intersection
<1>3. /\ Cardinality(A) \in Nat /\ Cardinality(B) \in Nat
      /\ Cardinality(A \cap B) \in Nat /\ Cardinality(A \cup B) \in Nat
  BY <1>1, <1>2, FS_CardinalityType
<1>4. IsFiniteSet(C) /\ Cardinality(C) <= Cardinality(A \cup B)
  BY <1>1, FS_Subset
<1>5. Cardinality(C) \in Nat
  BY <1>4, FS_CardinalityType
<1> QED
  BY <1>1, <1>3, <1>4, <1>5

(* A finite set has a finite image.                                        *)
LEMMA ImageFinite ==
    ASSUME NEW S, IsFiniteSet(S), NEW f
    PROVE  IsFiniteSet({f[x] : x \in S})
<1> DEFINE T == {f[x] : x \in S}
           h == [x \in S |-> f[x]]
<1>1. h \in Surjection(S, T)
  BY DEF Surjection
<1> HIDE DEF h, T
<1>2. IsFiniteSet(T)
  BY <1>1, FS_Surjection
<1> QED
  BY <1>2 DEF T

(* All of it is finite.                                                    *)
LEMMA SharedFinite ==
    ASSUME RetentionInv, CountInv, NEW G \in SUBSET Gen, \A g \in G : lifecycle[g] = "retained"
    PROVE  /\ IsFiniteSet(G) /\ IsFiniteSet(SharedViews(G)) /\ IsFiniteSet(SharedReceipts(G))
           /\ IsFiniteSet(SharedSnapshots(G)) /\ SharedSnapshots(G) \subseteq Snapshot
           /\ IsFiniteSet(SharedArtifacts(G))
<1>1. IsFiniteSet(G)
  BY FiniteTables, FS_Subset
<1>2. IsFiniteSet(SharedViews(G))
  <2>1. SharedViews(G) \in SUBSET views
    BY DEF SharedViews
  <2> QED
    BY <2>1, FS_Subset DEF CountInv
<1>3. IsFiniteSet(SharedReceipts(G))
  <2>1. SharedReceipts(G) \in SUBSET (Slot \X Epoch)
    BY DEF SharedReceipts, ReceiptsOf
  <2> QED
    BY <2>1, FiniteTables, FS_Subset
<1>4. IsFiniteSet(SharedSnapshots(G)) /\ SharedSnapshots(G) \subseteq Snapshot
  <2>1. IsFiniteSet(SharedSnapshots(G))
    BY <1>1, ImageFinite DEF SharedSnapshots
  <2>2. SharedSnapshots(G) \subseteq Snapshot
    BY RowsCounted DEF SharedSnapshots
  <2> QED
    BY <2>1, <2>2
<1>5. IsFiniteSet(SharedArtifacts(G))
  <2> DEFINE files == {Files(g) : g \in G}
  <2>1. \A F \in files : IsFiniteSet(F)
    BY RowsCounted
  <2>2. IsFiniteSet(files)
    <3> DEFINE filesOf == [g \in G |-> Files(g)]
    <3>1. IsFiniteSet({filesOf[g] : g \in G})
      <4> HIDE DEF filesOf
      <4> QED
        BY <1>1, ImageFinite
    <3>2. files = {filesOf[g] : g \in G}
      OBVIOUS
    <3> QED
      BY <3>1, <3>2
  <2>3. IsFiniteSet(UNION files)
    <3> HIDE DEF files
    <3> QED
      BY <2>1, <2>2, FS_UNION
  <2> QED
    BY <2>3 DEF SharedArtifacts
<1> QED
  BY <1>1, <1>2, <1>3, <1>4, <1>5

(* One generation more adds at most what it is recorded in itself.         *)
LEMMA SharedGrows ==
    ASSUME RetentionInv, CountInv, NEW G \in SUBSET Gen, \A g \in G : lifecycle[g] = "retained",
           NEW x \in G
    PROVE  LET U == G \ {x} IN
           /\ Cardinality(G) = Cardinality(U) + 1
           /\ Cardinality(SharedViews(G)) <= Cardinality(SharedViews(U)) + Cardinality(ViewsOf(x))
           /\ Cardinality(SharedReceipts(G))
                <= Cardinality(SharedReceipts(U)) + Cardinality(ReceiptsOf(x))
           /\ Cardinality(SharedArtifacts(G))
                <= Cardinality(SharedArtifacts(U)) + Cardinality(Files(x))
           /\ Cardinality(SharedSnapshots(G)) <= Cardinality(SharedSnapshots(U)) + 1
           /\ SumFunctionOnSet(ManifestRows, SharedSnapshots(G))
                <= SumFunctionOnSet(ManifestRows, SharedSnapshots(U)) + 1 + Cardinality(Files(x))
<1> DEFINE U == G \ {x}
           s == genSnapshot[x]
<1>1. /\ U \in SUBSET Gen /\ \A g \in U : lifecycle[g] = "retained"
      /\ x \in Gen /\ lifecycle[x] = "retained" /\ x \notin U /\ G = U \cup {x}
  OBVIOUS
<1> HIDE DEF U
<1>2. Cardinality(G) = Cardinality(U) + 1
  BY <1>1, SharedFinite, FS_AddElement
<1>3. /\ IsFiniteSet(SharedViews(U)) /\ IsFiniteSet(SharedReceipts(U))
      /\ IsFiniteSet(SharedSnapshots(U)) /\ IsFiniteSet(SharedArtifacts(U))
  BY <1>1, SharedFinite
<1>4. IsFiniteSet(ViewsOf(x)) /\ IsFiniteSet(ReceiptsOf(x)) /\ IsFiniteSet(Files(x))
  BY <1>1, RowsCounted
<1>5. IsFiniteSet({s}) /\ Cardinality({s}) = 1
  BY FS_Singleton
<1>6. Cardinality(SharedViews(G)) <= Cardinality(SharedViews(U)) + Cardinality(ViewsOf(x))
  <2>1. SharedViews(G) \subseteq SharedViews(U) \cup ViewsOf(x)
    BY <1>1 DEF SharedViews, ViewsOf
  <2> QED
    BY <1>3, <1>4, <2>1, CoverBound
<1>7. Cardinality(SharedReceipts(G)) <= Cardinality(SharedReceipts(U)) + Cardinality(ReceiptsOf(x))
  <2>1. SharedReceipts(G) \subseteq SharedReceipts(U) \cup ReceiptsOf(x)
    BY <1>1 DEF SharedReceipts
  <2> QED
    BY <1>3, <1>4, <2>1, CoverBound
<1>8. Cardinality(SharedArtifacts(G)) <= Cardinality(SharedArtifacts(U)) + Cardinality(Files(x))
  <2>1. SharedArtifacts(G) \subseteq SharedArtifacts(U) \cup Files(x)
    BY <1>1 DEF SharedArtifacts
  <2> QED
    BY <1>3, <1>4, <2>1, CoverBound
<1>9. SharedSnapshots(G) = SharedSnapshots(U) \cup {s}
  BY <1>1 DEF SharedSnapshots
<1>10. Cardinality(SharedSnapshots(G)) <= Cardinality(SharedSnapshots(U)) + 1
  <2>1. SharedSnapshots(G) \subseteq SharedSnapshots(U) \cup {s}
    BY <1>9
  <2> HIDE DEF s
  <2>2. Cardinality(SharedSnapshots(G)) <= Cardinality(SharedSnapshots(U)) + Cardinality({s})
    BY <1>3, <1>5, <2>1, CoverBound
  <2> QED
    BY <1>5, <2>2
<1>11. SumFunctionOnSet(ManifestRows, SharedSnapshots(G))
         <= SumFunctionOnSet(ManifestRows, SharedSnapshots(U)) + 1 + Cardinality(Files(x))
  <2>1. s \in Snapshot /\ ManifestRows[s] = 1 + Cardinality(Files(x)) /\ Cardinality(Files(x)) \in Nat
    BY <1>1, RowsCounted DEF ManifestRows
  <2>2. IsFiniteSet(SharedSnapshots(G)) /\ \A t \in SharedSnapshots(G) : ManifestRows[t] \in Nat
    <3>1. IsFiniteSet(SharedSnapshots(G)) /\ SharedSnapshots(G) \subseteq Snapshot
      BY SharedFinite
    <3>2. \A t \in Snapshot : ManifestRows[t] \in Nat
      BY RetentionAssumption, FS_CardinalityType DEF ManifestRows
    <3> QED
      BY <3>1, <3>2
  <2>3. SumFunctionOnSet(ManifestRows, SharedSnapshots(U)) \in Nat
    <3>1. \A t \in SharedSnapshots(U) : ManifestRows[t] \in Nat
      BY <1>9, <2>2
    <3> QED
      BY <1>3, <3>1, SumFacts
  <2> HIDE DEF s
  <2>4. CASE s \in SharedSnapshots(U)
    <3>1. SharedSnapshots(G) = SharedSnapshots(U)
      BY <1>9, <2>4
    <3> QED
      BY <2>1, <2>3, <3>1
  <2>5. CASE s \notin SharedSnapshots(U)
    <3>1. SharedSnapshots(U) = SharedSnapshots(G) \ {s} /\ s \in SharedSnapshots(G)
      BY <1>9, <2>5
    <3>2. SumFunctionOnSet(ManifestRows, SharedSnapshots(G))
            = SumFunctionOnSet(ManifestRows, SharedSnapshots(G) \ {s}) + ManifestRows[s]
      BY <2>2, <3>1, SumFacts
    <3> QED
      BY <2>1, <2>3, <3>1, <3>2
  <2> QED
    BY <2>4, <2>5
<1> QED
  BY <1>2, <1>6, <1>7, <1>8, <1>10, <1>11 DEF U

(* Marking and deleting what generations without an overlay are recorded   *)
(* in takes no more rows than two passes over their estimates.             *)
LEMMA SharedBounded ==
    ASSUME RetentionInv, CountInv, NEW garbage \in SUBSET Gen,
           \A g \in garbage : lifecycle[g] = "retained"
    PROVE  LET files == [g \in garbage |-> 1 + Cardinality(Files(g))] IN
           Cardinality(garbage) + 3 * Cardinality(SharedViews(garbage))
             + 2 * Cardinality(SharedReceipts(garbage)) + Cardinality(SharedSnapshots(garbage))
             + 2 * Cardinality(SharedArtifacts(garbage)) + SumFunctionOnSet(files, garbage)
             + SumFunctionOnSet(ManifestRows, SharedSnapshots(garbage))
             <= 2 * Estimate(garbage)
<1> DEFINE files == [g \in garbage |-> 1 + Cardinality(Files(g))]
           rows  == [g \in garbage |-> EstimatedRows(g)]
           n(G)  == Cardinality(G)
           v(G)  == Cardinality(SharedViews(G))
           r(G)  == Cardinality(SharedReceipts(G))
           s(G)  == Cardinality(SharedSnapshots(G))
           a(G)  == Cardinality(SharedArtifacts(G))
           f(G)  == SumFunctionOnSet(files, G)
           m(G)  == SumFunctionOnSet(ManifestRows, SharedSnapshots(G))
           e(G)  == SumFunctionOnSet(rows, G)
           within(G) == n(G) + 3 * v(G) + 2 * r(G) + s(G) + 2 * a(G) + f(G) + m(G) <= 2 * e(G)
           bad   == {G \in SUBSET garbage : ~within(G)}
<1>1. \A g \in garbage : files[g] \in Nat /\ rows[g] \in Nat
  BY RowsCounted
<1>2. IsFiniteSet(garbage)
  BY SharedFinite
<1>3. ASSUME NEW G \in SUBSET garbage
      PROVE  /\ n(G) \in Nat /\ v(G) \in Nat /\ r(G) \in Nat /\ s(G) \in Nat /\ a(G) \in Nat
             /\ f(G) \in Nat /\ m(G) \in Nat /\ e(G) \in Nat
  <2>1. G \in SUBSET Gen /\ \A g \in G : lifecycle[g] = "retained"
    OBVIOUS
  <2>2. /\ IsFiniteSet(G) /\ IsFiniteSet(SharedViews(G)) /\ IsFiniteSet(SharedReceipts(G))
        /\ IsFiniteSet(SharedSnapshots(G)) /\ SharedSnapshots(G) \subseteq Snapshot
        /\ IsFiniteSet(SharedArtifacts(G))
    BY <2>1, SharedFinite
  <2>3. n(G) \in Nat /\ v(G) \in Nat /\ r(G) \in Nat /\ s(G) \in Nat /\ a(G) \in Nat
    BY <2>2, FS_CardinalityType
  <2>4. \A t \in SharedSnapshots(G) : ManifestRows[t] \in Nat
    BY <2>2, RetentionAssumption, FS_CardinalityType DEF ManifestRows
  <2>5. m(G) \in Nat
    BY <2>2, <2>4, SumFacts
  <2>6. \A g \in G : files[g] \in Nat /\ rows[g] \in Nat
    BY <1>1
  <2>7. f(G) \in Nat /\ e(G) \in Nat
    <3> HIDE DEF files, rows
    <3> QED
      BY <2>2, <2>6, SumFacts
  <2> QED
    BY <2>3, <2>5, <2>7
<1>4. within({})
  <2>1. /\ SharedViews({}) = {} /\ SharedReceipts({}) = {} /\ SharedSnapshots({}) = {}
        /\ SharedArtifacts({}) = {}
    BY DEF SharedViews, SharedReceipts, SharedSnapshots, SharedArtifacts
  <2>2. n({}) = 0 /\ v({}) = 0 /\ r({}) = 0 /\ s({}) = 0 /\ a({}) = 0
    BY <2>1, FS_EmptySet
  <2>3. f({}) = 0 /\ e({}) = 0
    <3> HIDE DEF files, rows
    <3> QED
      BY <1>1, <1>2, SumFacts
  <2>4. m({}) = 0
    <3>1. IsFiniteSet({}) /\ \A t \in {} : ManifestRows[t] \in Nat
      BY FS_EmptySet
    <3>2. SumFunctionOnSet(ManifestRows, {}) = 0
      BY <3>1, SumFacts
    <3> QED
      BY <2>1, <3>2
  <2> HIDE DEF n, v, r, s, a, f, m, e
  <2> QED
    BY <2>2, <2>3, <2>4
<1>5. ASSUME NEW G \in SUBSET garbage, NEW x \in G, within(G \ {x})
      PROVE  within(G)
  <2> DEFINE U == G \ {x}
             F == Cardinality(Files(x))
             V == Cardinality(ViewsOf(x))
             R == Cardinality(ReceiptsOf(x))
  <2>1. x \in Gen /\ x \in garbage /\ lifecycle[x] = "retained" /\ U \in SUBSET garbage
    OBVIOUS
  <2>2. /\ F \in Nat /\ V \in Nat /\ R \in Nat /\ files[x] = 1 + F
        /\ rows[x] = 2 + 3 * F + 2 * V + R
    BY <2>1, RowsCounted
  <2>3. /\ n(G) = n(U) + 1 /\ v(G) <= v(U) + V /\ r(G) <= r(U) + R /\ a(G) <= a(U) + F
        /\ s(G) <= s(U) + 1 /\ m(G) <= m(U) + 1 + F
    <3>1. G \in SUBSET Gen /\ \A g \in G : lifecycle[g] = "retained"
      OBVIOUS
    <3> QED
      BY <3>1, SharedGrows
  <2>4. f(G) = f(U) + files[x] /\ e(G) = e(U) + rows[x]
    <3>1. IsFiniteSet(G) /\ \A g \in G : files[g] \in Nat /\ rows[g] \in Nat
      BY <1>1, <1>2, FS_Subset
    <3> HIDE DEF files, rows
    <3> QED
      BY <3>1, SumFacts
  <2>5. within(U)
    BY <1>5
  <2>6. /\ n(G) \in Nat /\ v(G) \in Nat /\ r(G) \in Nat /\ s(G) \in Nat /\ a(G) \in Nat
        /\ f(G) \in Nat /\ m(G) \in Nat /\ e(G) \in Nat
    BY <1>3
  <2>7. /\ n(U) \in Nat /\ v(U) \in Nat /\ r(U) \in Nat /\ s(U) \in Nat /\ a(U) \in Nat
        /\ f(U) \in Nat /\ m(U) \in Nat /\ e(U) \in Nat
    BY <1>3, <2>1
  <2> HIDE DEF files, rows, n, v, r, s, a, f, m, e, U, F, V, R
  <2> QED
    BY <2>2, <2>3, <2>4, <2>5, <2>6, <2>7
<1>6. bad = {}
  <2> SUFFICES ASSUME bad # {} PROVE FALSE
    OBVIOUS
  <2>1. bad \subseteq SUBSET garbage
    OBVIOUS
  <2>2. \A G : G \in bad <=> G \in SUBSET garbage /\ ~within(G)
    OBVIOUS
  <2> HIDE DEF bad, within
  <2>3. PICK T \in bad : \A W \in bad : W \subseteq T => W = T
    BY <1>2, <2>1, SmallestSubset
  <2>4. PICK x \in T : TRUE
    BY <1>4, <2>2, <2>3
  <2>5. T \ {x} \notin bad /\ T \in SUBSET garbage /\ T \ {x} \in SUBSET garbage
    BY <2>1, <2>3, <2>4
  <2> QED
    BY <1>5, <2>2, <2>3, <2>4, <2>5
<1>7. within(garbage)
  <2> HIDE DEF within
  <2> QED
    BY <1>6
<1> QED
  BY <1>7 DEF Estimate

(* A sweep of generations without an overlay stays within its reservation. *)
LEMMA SweepBounded ==
    ASSUME RetentionInv, CountInv, NEW garbage \in SUBSET Gen,
           \A g \in garbage : lifecycle[g] = "retained", garbage \cap overlays = {}
    PROVE  /\ MarkedRows(garbage) \in Nat /\ DeletedRows(garbage) \in Nat
           /\ MarkedRows(garbage) + DeletedRows(garbage) <= Reservation(garbage)
<1> DEFINE files == [g \in garbage |-> 1 + Cardinality(Files(g))]
           n     == Cardinality(garbage)
           gv    == Cardinality(GarbageViews(garbage))
           sv    == Cardinality(SharedViews(garbage))
           r     == Cardinality(SharedReceipts(garbage))
           gs    == Cardinality(GarbageSnapshots(garbage))
           ss    == Cardinality(SharedSnapshots(garbage))
           ga    == Cardinality(GarbageArtifacts(garbage))
           sa    == Cardinality(SharedArtifacts(garbage))
           f     == SumFunctionOnSet(files, garbage)
           gm    == SumFunctionOnSet(ManifestRows, GarbageSnapshots(garbage))
           sm    == SumFunctionOnSet(ManifestRows, SharedSnapshots(garbage))
<1>1. n + 3 * sv + 2 * r + ss + 2 * sa + f + sm <= 2 * Estimate(garbage)
  BY SharedBounded
<1>2. Cardinality(overlays \cap garbage) = 0
  <2>1. overlays \cap garbage = {}
    OBVIOUS
  <2> QED
    BY <2>1, FS_EmptySet
<1>3. Cardinality({q \in Repo : activeOverlay[q] \in garbage}) = 0
  <2>1. 0 \notin Gen
    BY StoreAssumption DEF Gen
  <2>2. {q \in Repo : activeOverlay[q] \in garbage} = {}
    BY <2>1 DEF RetentionInv, SweepInv, OverlaysIntact
  <2> QED
    BY <2>2, FS_EmptySet
<1>4. MarkedRows(garbage) = n + 0 + gv + r + gs + ga
  BY <1>2 DEF MarkedRows, SharedReceipts
<1>5. DeletedRows(garbage) = 0 + OverlayRows * 0 + 2 * gv + r + f + ga + gm
  BY <1>2, <1>3 DEF DeletedRows, SharedReceipts, ManifestRows
<1>6. /\ GarbageViews(garbage) \subseteq SharedViews(garbage)
      /\ GarbageSnapshots(garbage) \subseteq SharedSnapshots(garbage)
      /\ GarbageArtifacts(garbage) \subseteq SharedArtifacts(garbage)
  BY DEF GarbageViews, SharedViews, GarbageSnapshots, SharedSnapshots, GarbageArtifacts,
         SharedArtifacts
<1>7. /\ IsFiniteSet(garbage) /\ IsFiniteSet(SharedViews(garbage))
      /\ IsFiniteSet(SharedReceipts(garbage)) /\ IsFiniteSet(SharedSnapshots(garbage))
      /\ SharedSnapshots(garbage) \subseteq Snapshot /\ IsFiniteSet(SharedArtifacts(garbage))
  BY SharedFinite
<1>8. /\ gv <= sv /\ gs <= ss /\ ga <= sa /\ n \in Nat /\ r \in Nat
      /\ gv \in Nat /\ sv \in Nat /\ gs \in Nat /\ ss \in Nat /\ ga \in Nat /\ sa \in Nat
  <2>1. n \in Nat /\ r \in Nat /\ sv \in Nat /\ ss \in Nat /\ sa \in Nat
    BY <1>7, FS_CardinalityType
  <2>2. IsFiniteSet(GarbageViews(garbage)) /\ gv <= sv
    BY <1>6, <1>7, FS_Subset
  <2>3. IsFiniteSet(GarbageSnapshots(garbage)) /\ gs <= ss
    BY <1>6, <1>7, FS_Subset
  <2>4. IsFiniteSet(GarbageArtifacts(garbage)) /\ ga <= sa
    BY <1>6, <1>7, FS_Subset
  <2>5. gv \in Nat /\ gs \in Nat /\ ga \in Nat
    BY <2>2, <2>3, <2>4, FS_CardinalityType
  <2> QED
    BY <2>1, <2>2, <2>3, <2>4, <2>5
<1>9. gm <= sm /\ gm \in Nat /\ sm \in Nat
  <2>1. \A t \in SharedSnapshots(garbage) : ManifestRows[t] \in Nat
    BY <1>7, RetentionAssumption, FS_CardinalityType DEF ManifestRows
  <2>2. \A t \in GarbageSnapshots(garbage) : ManifestRows[t] \in Nat
    BY <1>6, <2>1
  <2>3. IsFiniteSet(GarbageSnapshots(garbage))
    BY <1>6, <1>7, FS_Subset
  <2>4. sm \in Nat /\ gm <= sm
    BY <1>6, <1>7, <2>1, SumFacts
  <2>5. gm \in Nat
    BY <2>2, <2>3, SumFacts
  <2> QED
    BY <2>4, <2>5
<1>10. f \in Nat
  <2>1. \A g \in garbage : files[g] \in Nat
    BY RowsCounted
  <2> HIDE DEF files
  <2> QED
    BY <1>7, <2>1, SumFacts
<1>11. Estimate(garbage) \in Nat /\ OverlayRows \in Nat
  BY EstimatesCounted, RetentionAssumption
<1> HIDE DEF n, gv, sv, r, gs, ss, ga, sa, f, gm, sm
<1>12. /\ MarkedRows(garbage) \in Nat /\ DeletedRows(garbage) \in Nat
       /\ MarkedRows(garbage) + DeletedRows(garbage) <= 2 * Estimate(garbage)
  BY <1>1, <1>4, <1>5, <1>8, <1>9, <1>10, <1>11
<1> QED
  BY <1>12 DEF Reservation

(* Everything that is counted stays finite.                                *)
LEMMA CountInvariance == RetentionSpec => []CountInv
<1>1. RetentionInit => CountInv
  BY CountInit
<1>2. RetentionInv /\ CountInv /\ [RetentionNext]_retentionVars => CountInv'
  BY CountStep
<1> QED
  BY <1>1, <1>2, RetentionInvariance, PTL DEF RetentionSpec

(* ReservationsSuffice: an application that was accepted answers "limit"   *)
(* only if a candidate has a SCIP overlay.  The plan that is computed      *)
(* again has counted its roots, all eligible generations and two passes    *)
(* over the estimates; without an overlay the sweep takes no more.         *)
THEOREM ReservationsCover == RetentionSpec => ReservationsSuffice
<1>1. ASSUME RetentionInv, CountInv, [RetentionNext]_retentionVars
      PROVE  [answer' = "limit" =>
                BuildPlan(shown.pins).candidates \cap overlays # {}]_retentionVars
  <2> SUFFICES ASSUME RetentionNext, answer' = "limit",
                      BuildPlan(shown.pins).candidates \cap overlays = {}
               PROVE  FALSE
    BY <1>1
  <2>1. ApplyShown
    BY DEF RetentionNext, StoreStep, StageSnapshot, CaptureMemory, ProjectMemory, ImportOverlay,
           PlanRetention, ReplayRetention
  <2> DEFINE plan == BuildPlan(shown.pins)
             garbage == plan.candidates
  <2>2. /\ shown # None /\ plan # None /\ StillCurrent(plan)
        /\ ConsumedRows(shown.pins, garbage) > MaxRows
    BY <2>1 DEF ApplyShown, ExceedLimit, SweepRetentionPlan, RefusePlan
  <2>3. shown.pins \in SUBSET Gen
    BY <1>1, <2>2 DEF CountInv
  <2>4. garbage \in SUBSET Gen /\ \A g \in garbage : lifecycle[g] = "retained"
    BY <1>1, <2>2, SweptFacts DEF RetentionInv, SweepInv
  <2>5. /\ RootCount(Roots(shown.pins)) + Cardinality(EligibleGenerations(shown.pins))
             + Reservation(garbage) + 1 <= MaxRows
        /\ MarkedRows(garbage) \in Nat /\ DeletedRows(garbage) \in Nat
        /\ MarkedRows(garbage) + DeletedRows(garbage) <= Reservation(garbage)
    <3>1. RootCount(Roots(shown.pins)) + Cardinality(EligibleGenerations(shown.pins))
             + Reservation(garbage) + 1 <= MaxRows
      BY <1>1, <2>2, <2>3, PlanFits
    <3>2. garbage \cap overlays = {}
      OBVIOUS
    <3> HIDE DEF garbage
    <3>3. /\ MarkedRows(garbage) \in Nat /\ DeletedRows(garbage) \in Nat
          /\ MarkedRows(garbage) + DeletedRows(garbage) <= Reservation(garbage)
      BY <1>1, <2>4, <3>2, SweepBounded
    <3> QED
      BY <3>1, <3>3
  <2>6. /\ RootCount(Roots(shown.pins)) \in Nat
        /\ Cardinality(EligibleGenerations(shown.pins)) \in Nat
        /\ Reservation(garbage) \in Nat /\ MaxRows \in Nat
    <3>1. Cardinality(EligibleGenerations(shown.pins)) \in Nat
      <4>1. EligibleGenerations(shown.pins) \in SUBSET Gen
        BY DEF EligibleGenerations
      <4> QED
        BY <4>1, FiniteTables, FS_Subset, FS_CardinalityType
    <3>2. Reservation(garbage) \in Nat
      <4> HIDE DEF garbage
      <4> QED
        BY <1>1, <2>4, EstimatesCounted
    <3> QED
      BY <1>1, <2>3, <3>1, <3>2, RootsCounted, RetentionAssumption
  <2> HIDE DEF garbage
  <2> QED
    BY <2>2, <2>5, <2>6 DEF ConsumedRows
<1> QED
  BY <1>1, RetentionInvariance, CountInvariance, PTL DEF RetentionSpec, ReservationsSuffice
=============================================================================
