------------------------------ MODULE Retention ------------------------------
(***************************************************************************)
(* Generation retention of RepoWitness: a plan is computed read-only at    *)
(* any time, without the mutation lease, and shown to the operator; later  *)
(* it is applied by a writer, which computes it again and refuses if its   *)
(* digest has changed.  An applied plan leaves an audit row, so that a     *)
(* repeated application answers from the row and deletes nothing more.     *)
(*                                                                         *)
(* The module adds to GenerationStore what a sweep shares between          *)
(* generations or must leave alone: source snapshots, analysis artifacts,  *)
(* the memory rows that cite them, and the SCIP overlays of a generation.  *)
(* Work is counted in rows: the plan consumes one row for every root and   *)
(* every eligible generation and reserves what the sweep will need.        *)
(*                                                                         *)
(* One file is one artifact, without facts, graph rows or syntax sites;    *)
(* the tables that hold those follow their generation or artifact and add  *)
(* the same number of rows to the estimate and to the sweep.               *)
(***************************************************************************)
EXTENDS GenerationStore, FiniteSetsExt, Functions

CONSTANTS
    Snapshot,        \* source snapshot digests
    ArtifactsOf,     \* the artifacts of the files of each snapshot
    SlotRank,        \* the order of the identities of the default slots
    OverlayRows,     \* rows of one SCIP overlay: receipt, documents, occurrences
    MaxCandidates,   \* RetentionLimits.max_generation_candidates
    MaxRows,         \* RetentionLimits.max_rows
    MaxEstimate,     \* RetentionLimits.max_estimated_bytes, counted in rows
    PinSets,         \* the sets of generations an operator may pin
    MaxRecords,      \* bound: memory records captured
    MaxProjections,  \* bound: generations memory is projected onto
    MaxUnpublished,  \* bound: generations that are not, or not yet, published
    MaxOverlays,     \* bound: SCIP overlays in the store
    MaxAudits        \* bound: rows of retention_collection_audit

ASSUME RetentionAssumption ==
    /\ Keep \in Nat \ {0}
    /\ MaxCandidates \in Nat \ {0}
    /\ MaxRows \in Nat \ {0}
    /\ MaxEstimate \in Nat \ {0}
    /\ OverlayRows \in Nat
    /\ PinSets \subseteq SUBSET Gen
    /\ IsFiniteSet(Slot)
    /\ DOMAIN ArtifactsOf = Snapshot
    /\ \A s \in Snapshot : IsFiniteSet(ArtifactsOf[s])
    /\ SlotRank \in [Repo -> Nat]
    /\ \A r, q \in Repo : SlotRank[r] = SlotRank[q] => r = q

VARIABLES
    genSnapshot,    \* index_generations.snapshot_digest, or None
    snapshots,      \* complete source_snapshots with their manifests
    artifacts,      \* complete analysis_artifacts
    citations,      \* memory rows that name a snapshot and an artifact of it
    projected,      \* memory_projection_generations.index_generation_id
    overlays,       \* generations with a complete SCIP overlay
    activeOverlay,  \* active_scip_overlays: the overlaid generation, or 0
    audits,         \* retention_collection_audit: digests of applied plans
    shown,          \* the plan the operator holds, or None
    answer          \* what the last step answered to the operator

contentVars == <<genSnapshot, snapshots, artifacts>>
memoryVars  == <<citations, projected>>
scipVars    == <<overlays, activeOverlay>>
planVars    == <<audits, shown>>
retentionVars == <<vars, contentVars, memoryVars, scipVars, planVars, answer>>

RetentionInit ==
    /\ Init
    /\ genSnapshot = [g \in Gen |-> None]
    /\ snapshots = {}
    /\ artifacts = {}
    /\ citations = {}
    /\ projected = {}
    /\ overlays = {}
    /\ activeOverlay = [r \in Repo |-> 0]
    /\ audits = {}
    /\ shown = None
    /\ answer = "none"

-----------------------------------------------------------------------------
(* What the tables hold.                                                   *)

(* generation_files: recovery deletes those of a failed generation.        *)
Files(g) == IF lifecycle[g] \in Readable THEN ArtifactsOf[genSnapshot[g]] ELSE {}

CitedSnapshots == {c.snapshot : c \in citations}
CitedArtifacts == {c.artifact : c \in citations}

ViewsOf(g) == {v \in views : \E s \in Slot : v.gen[s] = g}

ReceiptsOf(g) == {row \in Slot \X Epoch : receipt[row[1]][row[2]] = g}

CurrentReceipts == {<<s, receipt[s][slotEpoch[s]]>> : s \in {t \in Slot :
                       slotOwner[t] # None /\ receipt[t][slotEpoch[t]] # 0}}

-----------------------------------------------------------------------------
(* The sweep of a set of generations.                                      *)

(* A snapshot goes with its last generation unless memory cites it.        *)
GarbageSnapshots(garbage) ==
    {genSnapshot[g] : g \in garbage} \
        ({genSnapshot[g] : g \in Gen \ garbage} \cup CitedSnapshots
            \cup {genSnapshot[g] : g \in projected})

(* An artifact goes with the last generation that has a file of it.        *)
(* Faulty variant: the files of the remaining generations are not looked   *)
(* at.                                                                     *)
GarbageArtifacts_IgnoresSharing(garbage) == (UNION {Files(g) : g \in garbage}) \ CitedArtifacts

GarbageArtifacts(garbage) ==
    (UNION {Files(g) : g \in garbage}) \
        ((UNION {Files(g) : g \in Gen \ garbage}) \cup CitedArtifacts)

(* estimate_retention_generation: every row a generation owns or shares.   *)
(* The rows of its SCIP overlay are not among them.                        *)
EstimatedRows(g) ==
    1 + Cardinality(Files(g)) + 2 * Cardinality(ViewsOf(g)) + Cardinality(ReceiptsOf(g))
      + 1 + 2 * Cardinality(ArtifactsOf[genSnapshot[g]])

(* The rows a sweep really marks and really deletes.                       *)
MarkedRows(garbage) ==
    Cardinality(garbage) + Cardinality(overlays \cap garbage)
      + Cardinality(GarbageViews(garbage))
      + Cardinality(UNION {ReceiptsOf(g) : g \in garbage})
      + Cardinality(GarbageSnapshots(garbage)) + Cardinality(GarbageArtifacts(garbage))

DeletedRows(garbage) ==
    LET manifest == [s \in Snapshot |-> 1 + Cardinality(ArtifactsOf[s])]
        files    == [g \in garbage |-> 1 + Cardinality(Files(g))]
    IN  Cardinality({r \in Repo : activeOverlay[r] \in garbage})
          + OverlayRows * Cardinality(overlays \cap garbage)
          + 2 * Cardinality(GarbageViews(garbage))
          + Cardinality(UNION {ReceiptsOf(g) : g \in garbage})
          + SumFunctionOnSet(files, garbage)
          + Cardinality(GarbageArtifacts(garbage))
          + SumFunctionOnSet(manifest, GarbageSnapshots(garbage))

-----------------------------------------------------------------------------
(* The plan.                                                               *)

(* Everything that is hashed and counted as a root.                        *)
Roots(pins) ==
    [pins |-> pins,
     workspaces |-> [r \in registered |-> <<repoEpoch[r], activeGen[r]>>],
     slots |-> [s \in {t \in Slot : slotOwner[t] # None} |-> slotEpoch[s]],
     views |-> {v \in views : activeView[v.workspace] = v},
     receipts |-> CurrentReceipts,
     floor |-> {g \in Gen : lifecycle[g] = "retained" /\ RetainedRank(g) <= Keep},
     memory |-> citations,
     projections |-> projected,
     overlays |-> overlays,
     active |-> {<<r, activeOverlay[r]>> : r \in {q \in Repo : activeOverlay[q] # 0}}]

(* A projection is a root for its generation and for its snapshot; a       *)
(* citation for its snapshot and for its artifact.                         *)
RootCount(roots) ==
    Cardinality(roots.pins) + Cardinality(DOMAIN roots.workspaces)
      + Cardinality(DOMAIN roots.slots) + Cardinality(roots.views)
      + Cardinality(roots.receipts) + Cardinality(roots.floor)
      + 2 * Cardinality(roots.memory) + 2 * Cardinality(roots.projections)
      + Cardinality(roots.overlays) + Cardinality(roots.active)

(* A generation memory or the operator still needs is not eligible.        *)
Collectable(g, pins) ==
    /\ Eligible(g)
    /\ g \notin projected \cup pins
    /\ genSnapshot[g] \notin CitedSnapshots
    /\ Files(g) \cap CitedArtifacts = {}

EligibleGenerations(pins) == {g \in Gen : Collectable(g, pins)}

(* Slot by slot, from the oldest generation to the newest.                 *)
PlannedBefore(g, h) ==
    LET slot(k) == SlotRank[genRepo[k]] IN
    \/ slot(g) < slot(h)
    \/ slot(g) = slot(h) /\ genEpoch[g] < genEpoch[h]
    \/ slot(g) = slot(h) /\ genEpoch[g] = genEpoch[h] /\ g < h

(* The first n of a set of generations in that order.                      *)
FirstPlanned(n, gens) ==
    {g \in gens : Cardinality({h \in gens : PlannedBefore(h, g)}) < n}

(* The estimate of a set of candidates.                                    *)
Estimate(garbage) == SumFunctionOnSet([g \in garbage |-> EstimatedRows(g)], garbage)

(* Marking and deleting each touch every row of a candidate at most once.  *)
(* Faulty variant: one pass over the rows is reserved.                     *)
Reservation_OnePass(garbage) == Estimate(garbage)

Reservation(garbage) == 2 * Estimate(garbage)

(* What the digest binds: the policy, the roots, the eligible generations, *)
(* the candidates and the counts.                                          *)
(* Faulty variant: only the policy and the roots are hashed.               *)
PlanDigest_RootsOnly(roots, eligible, candidates, rows) == [roots |-> roots]

PlanDigest(roots, eligible, candidates, rows) ==
    [roots |-> roots, eligible |-> eligible, candidates |-> candidates, rows |-> rows]

(* build_retention_plan_with_budget: the longest prefix of the eligible    *)
(* generations that respects every limit, or no plan if a limit does not   *)
(* even admit the first.                                                   *)
BuildPlan(pins) ==
    LET roots      == Roots(pins)
        available  == MaxRows - RootCount(roots)
        eligible   == FirstPlanned(available, EligibleGenerations(pins))
        garbage(k) == FirstPlanned(k, eligible)
        total(k)   == RootCount(roots) + Cardinality(eligible) + Reservation(garbage(k)) + 1
        fits(k)    == /\ k <= MaxCandidates
                      /\ total(k) <= MaxRows
                      /\ Estimate(garbage(k)) <= MaxEstimate
        longest    == Max({k \in 0 .. Cardinality(eligible) : fits(k)} \cup {0})
    IN  IF ~fits(0) \/ (longest = 0 /\ eligible # {})
        THEN None
        ELSE [pins       |-> pins,
              candidates |-> garbage(longest),
              digest     |-> PlanDigest(roots, eligible, garbage(longest), total(longest))]

-----------------------------------------------------------------------------
(* The operator's calls.                                                   *)

(* validate_retention_pins: a pinned generation must be one that readers   *)
(* can still use.                                                          *)
PinsAvailable(pins) == \A g \in pins : lifecycle[g] \in {"active", "retained"}

(* plan_local_retention reads the database without the lease, so a run     *)
(* may be staging meanwhile.  The operator keeps a plan that collects      *)
(* something: applying one that does not leaves an audit row only.         *)
PlanRetention(pins) ==
    /\ PinsAvailable(pins)
    /\ BuildPlan(pins) # None
    /\ BuildPlan(pins).candidates # {}
    /\ shown' = BuildPlan(pins)
    /\ answer' = "none"
    /\ UNCHANGED <<vars, contentVars, memoryVars, scipVars, audits>>

(* A plan that was applied before answers from its audit row.              *)
ReplayRetention ==
    /\ Idle
    /\ shown # None
    /\ shown.digest \in audits
    /\ answer' = "ok"
    /\ UNCHANGED <<vars, contentVars, memoryVars, scipVars, planVars>>

StillCurrent(plan) == plan.digest = shown.digest

(* No plan, another plan, or a pin that has gone: nothing is touched.      *)
RefusePlan ==
    /\ answer' = "refused"
    /\ UNCHANGED <<vars, contentVars, memoryVars, scipVars, planVars>>

(* Rows the application has consumed at its end: the planning it repeats,  *)
(* the marks, the deletions and the audit row; reservations are released.  *)
ConsumedRows(pins, garbage) ==
    RootCount(Roots(pins)) + Cardinality(EligibleGenerations(pins))
      + MarkedRows(garbage) + DeletedRows(garbage) + 1

(* The sweep runs out of rows and is rolled back.                          *)
ExceedLimit(garbage) ==
    /\ ConsumedRows(shown.pins, garbage) > MaxRows
    /\ answer' = "limit"
    /\ UNCHANGED <<vars, contentVars, memoryVars, scipVars, planVars>>

(* sweep_retention_plan: marks, deletions and the audit row commit         *)
(* together.                                                               *)
SweepRetentionPlan(garbage) ==
    /\ ConsumedRows(shown.pins, garbage) <= MaxRows
    /\ Cardinality(audits) < MaxAudits
    /\ ApplyRetention(garbage)
    /\ genSnapshot' = [g \in Gen |-> IF g \in garbage THEN None ELSE genSnapshot[g]]
    /\ snapshots' = snapshots \ GarbageSnapshots(garbage)
    /\ artifacts' = artifacts \ GarbageArtifacts(garbage)
    /\ overlays' = overlays \ garbage
    /\ activeOverlay' = [r \in Repo |-> IF activeOverlay[r] \in garbage
                                        THEN 0 ELSE activeOverlay[r]]
    /\ audits' = audits \cup {shown.digest}
    /\ answer' = "ok"
    /\ UNCHANGED <<memoryVars, shown>>

(* apply_generation_retention: the plan is computed again, and it is the   *)
(* new plan that is swept when its digest is the shown one.                *)
ApplyShown ==
    /\ Idle
    /\ shown # None
    /\ shown.digest \notin audits
    /\ LET plan == BuildPlan(shown.pins) IN
       IF PinsAvailable(shown.pins) /\ plan # None /\ StillCurrent(plan)
       THEN ExceedLimit(plan.candidates) \/ SweepRetentionPlan(plan.candidates)
       ELSE RefusePlan

-----------------------------------------------------------------------------
(* What changes the store between a plan and its application.              *)

Unpublished == {g \in Gen : lifecycle[g] \notin {"active", "retained", "absent"}}

(* stage: the snapshot and its artifacts are stored, or found complete,    *)
(* before the generation that refers to them is created.                   *)
StageSnapshot(r, e, g, s) ==
    /\ Cardinality(Unpublished) < MaxUnpublished
    /\ Stage(r, e, g)
    /\ genSnapshot' = [genSnapshot EXCEPT ![g] = s]
    /\ snapshots' = snapshots \cup {s}
    /\ artifacts' = artifacts \cup ArtifactsOf[s]
    /\ answer' = "none"
    /\ UNCHANGED <<memoryVars, scipVars, planVars>>

(* The commands of the store that leave contents and memory alone; a run   *)
(* may die while it is staging.                                            *)
StoreStep ==
    /\ \/ Recover
       \/ staging # 0 /\ Stop
       \/ \E r \in Repo : EnsureWorkspace(r, 0)
       \/ \E r \in Repo : AdvanceSourceEpoch(r)
       \/ StageAdvance
       \/ \E g \in Gen, e \in Epoch : Activate(g, e)
    /\ answer' = "none"
    /\ UNCHANGED <<contentVars, memoryVars, scipVars, planVars>>

(* import_memory_version: a record captured from the active generation     *)
(* cites its snapshot and one of its artifacts.                            *)
CaptureMemory(r, a) ==
    /\ Idle
    /\ activeGen[r] # 0
    /\ a \in Files(activeGen[r])
    /\ Cardinality(citations) < MaxRecords
    /\ citations' = citations \cup {[snapshot |-> genSnapshot[activeGen[r]], artifact |-> a]}
    /\ answer' = "none"
    /\ UNCHANGED <<vars, contentVars, projected, scipVars, planVars>>

(* publish_memory_projection: the evidence of the journal is projected     *)
(* onto the active generation, at the current epoch only; projections stay.*)
ProjectMemory(r, a) ==
    /\ Idle
    /\ citations # {}
    /\ activeGen[r] # 0
    /\ genEpoch[activeGen[r]] = repoEpoch[r]
    /\ a \in Files(activeGen[r])
    /\ Cardinality(projected) < MaxProjections
    /\ citations' = citations \cup {[snapshot |-> genSnapshot[activeGen[r]], artifact |-> a]}
    /\ projected' = projected \cup {activeGen[r]}
    /\ answer' = "none"
    /\ UNCHANGED <<vars, contentVars, scipVars, planVars>>

(* stage_scip_overlay: only for a member of the active view; a complete    *)
(* overlay is activated again.                                             *)
ImportOverlay(r) ==
    /\ Idle
    /\ activeView[r] # None
    /\ Cardinality(overlays) < MaxOverlays
    /\ overlays' = overlays \cup {activeView[r].gen[r]}
    /\ activeOverlay' = [activeOverlay EXCEPT ![r] = activeView[r].gen[r]]
    /\ answer' = "none"
    /\ UNCHANGED <<vars, contentVars, memoryVars, planVars>>

RetentionNext ==
    \/ StoreStep
    \/ \E r \in Repo, e \in Epoch, g \in Gen, s \in Snapshot : StageSnapshot(r, e, g, s)
    \/ \E r \in Repo, a \in UNION {ArtifactsOf[s] : s \in Snapshot} :
          CaptureMemory(r, a) \/ ProjectMemory(r, a)
    \/ \E r \in Repo : ImportOverlay(r)
    \/ \E pins \in PinSets : PlanRetention(pins)
    \/ ReplayRetention
    \/ ApplyShown

RetentionSpec == RetentionInit /\ [][RetentionNext]_retentionVars

-----------------------------------------------------------------------------
(* Properties.                                                             *)

(* No reference dangles, whatever was shared: a readable generation has    *)
(* its snapshot and every artifact of its files, memory captured from an   *)
(* indexed state still finds the snapshot and the artifact it cites, an    *)
(* overlay has its generation, and a published view its members and their  *)
(* receipts.                                                               *)
ReferencesIntact ==
    /\ \A g \in Gen : Exists(g) => genSnapshot[g] \in snapshots
    /\ \A g \in Gen : Files(g) \subseteq artifacts
    /\ \A c \in citations : c.snapshot \in snapshots /\ c.artifact \in artifacts
    /\ \A g \in overlays : Exists(g)
    /\ \A r \in Repo : activeOverlay[r] # 0 => activeOverlay[r] \in overlays
    /\ ViewsBacked

(* An application does what the operator was shown and nothing else: no    *)
(* generation disappears that was not a candidate of the shown plan, and   *)
(* a positive answer, even one replayed from the audit after any number of *)
(* other steps, means that every candidate is gone.                        *)
ApplyDoesWhatWasShown ==
    [][/\ \A g \in Gen : Exists(g) /\ ~Exists(g)' => shown # None /\ g \in shown.candidates
       /\ answer' = "ok" => \A g \in shown.candidates : ~Exists(g)']_retentionVars

(* The rows a plan reserves cover its application, whatever the            *)
(* generations share: an accepted plan can run out of rows only if a       *)
(* candidate has a SCIP overlay, whose rows the estimate leaves out.       *)
ReservationsSuffice ==
    [][answer' = "limit" => BuildPlan(shown.pins).candidates \cap overlays # {}]_retentionVars
=============================================================================
