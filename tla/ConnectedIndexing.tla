-------------------------- MODULE ConnectedIndexing --------------------------
(***************************************************************************)
(* Runs that index a connected workspace: several worktrees, one published *)
(* view.  A run holds the mutation lease from its start, prepares every    *)
(* worktree of the manifest in order, then stages, fences and completes    *)
(* them one at a time, fences all of them once more and publishes.  It may *)
(* end anywhere by an error, a cancellation, a deadline or a crash, with   *)
(* some slots completed and others not.  A refreshing run first looks      *)
(* whether the visible view still describes every worktree.                *)
(*                                                                         *)
(* A worktree is a version number that only grows: it never returns to an  *)
(* earlier content.  What is read while it changes is the last version of  *)
(* the reading or a mixture that no version equals.                        *)
(***************************************************************************)
EXTENDS GenerationStore, Sequences

CONSTANTS
    Manifest,         \* sequence of [slot, repo], in the order of the request
    Connected,        \* the connected workspace
    MaxDisturbances   \* bound on edits, faults and runs that do not refresh

Position == 1 .. Len(Manifest)

ASSUME ConnectedAssumption ==
    /\ Manifest \in Seq([slot : ConfiguredSlot, repo : Repo])
    /\ Len(Manifest) >= 1
    /\ \A i, j \in Position : Manifest[i].slot = Manifest[j].slot => i = j
    /\ Connected \in ConfiguredWorkspace
    /\ MaxDisturbances \in Nat

VARIABLES
    worktree,      \* the version each worktree is in now
    indexed,       \* the version a generation was made from
    job,           \* the connected run that holds the mutation lease
    together,      \* history: the joint versions since the run's last milestone
    disturbances   \* number of disturbances so far

connectedVars == <<worktree, indexed, job, together, disturbances>>
allVars       == <<vars, connectedVars>>

-----------------------------------------------------------------------------
Version == 1 .. (MaxDisturbances + 1)

(* A mixture of two versions.                                              *)
Mixed == 0

SlotAt(i) == Manifest[i].slot

Mapping == [s \in {SlotAt(i) : i \in Position} |->
              Manifest[CHOOSE i \in Position : SlotAt(i) = s].repo]

NoJob == [phase |-> "idle", refresh |-> FALSE, at |-> 1, torn |-> FALSE,
          seen |-> [i \in Position |-> Mixed], gen |-> 0]

ConnectedInit ==
    /\ Init
    /\ worktree = [i \in Position |-> 1]
    /\ indexed = [g \in Gen |-> Mixed]
    /\ job = NoJob
    /\ together = {}
    /\ disturbances = 0

Disturb == disturbances < MaxDisturbances /\ disturbances' = disturbances + 1

InPhase(p) == job.phase = p

GoTo(p) == job' = [job EXCEPT !.phase = p]

(* The next worktree of a loop over the manifest, or the next phase.       *)
NextOr(p) ==
    IF job.at < Len(Manifest) THEN [job EXCEPT !.at = @ + 1]
    ELSE [job EXCEPT !.phase = p, !.at = 1]

LastOne == job.at = Len(Manifest)

(* A milestone: from here on the run has to find all worktrees in place.   *)
Milestone(reached) == together' = IF reached THEN {worktree} ELSE together

-----------------------------------------------------------------------------
(* The environment.                                                        *)

Edit(i) ==
    /\ Disturb
    /\ worktree' = [worktree EXCEPT ![i] = @ + 1]
    /\ together' = IF InPhase("idle") THEN {} ELSE together \cup {worktree'}
    /\ job' = [job EXCEPT !.torn = @ \/ (job.phase \in {"probe", "prepare"} /\ job.at = i)]
    /\ UNCHANGED <<vars, indexed>>

(* The run ends early; a generation being staged, or given its graph, may  *)
(* first be marked failed or cancelled.                                    *)
Abandon ==
    /\ Disturb
    /\ job.phase \notin {"idle", "succeeded", "failed"}
    /\ GoTo("failed")
    /\ \/ UNCHANGED vars
       \/ \E outcome \in {"failed", "cancelled"} : StageAbort(outcome)
       \/ InPhase("fence") /\ \E outcome \in {"failed", "cancelled"} :
             StageArtifactsFailed(job.gen, outcome)
    /\ UNCHANGED <<worktree, indexed, together>>

(* The writer is shut down, or dropped, and the lease is free.             *)
Finish ==
    /\ job.phase \in {"succeeded", "failed"}
    /\ IF open THEN Stop ELSE UNCHANGED vars
    /\ job' = NoJob
    /\ together' = {}
    /\ UNCHANGED <<worktree, indexed, disturbances>>

-----------------------------------------------------------------------------
(* Start: the lease, the writer, the workspaces and the slots.             *)

Begin(refresh) ==
    /\ InPhase("idle")
    /\ IF refresh THEN UNCHANGED disturbances ELSE Disturb
    /\ job' = [NoJob EXCEPT !.phase = "start", !.refresh = refresh]
    /\ UNCHANGED <<vars, worktree, indexed, together>>

StartWriter ==
    /\ InPhase("start")
    /\ Recover
    /\ GoTo("register")
    /\ UNCHANGED <<worktree, indexed, together, disturbances>>

Register ==
    /\ InPhase("register")
    /\ EnsureWorkspace(Manifest[job.at].repo, 0)
    /\ job' = NextOr("connect")
    /\ UNCHANGED <<worktree, indexed, together, disturbances>>

(* Membership that is already registered is left as it is.                 *)
AlreadyConnected == \A s \in Slot :
    IF s \in DOMAIN Mapping THEN slotOwner[s] = Connected /\ slotRepo[s] = Mapping[s]
                            ELSE slotOwner[s] # Connected

Connect ==
    /\ InPhase("connect")
    /\ IF AlreadyConnected THEN UNCHANGED vars ELSE ConnectWorkspace(Connected, Mapping)
    /\ GoTo(IF job.refresh /\ activeView[Connected] # None THEN "probe" ELSE "prepare")
    /\ UNCHANGED <<worktree, indexed, together, disturbances>>

-----------------------------------------------------------------------------
(* What the worktrees hold, and whether the visible view still says so.    *)

Prepare(seen) ==
    /\ job.phase \in {"probe", "prepare"}
    /\ seen \in {worktree[job.at]} \cup (IF job.torn THEN {Mixed} ELSE {})
    /\ job' = [NextOr(IF InPhase("probe") THEN "reuse" ELSE "reserve") EXCEPT
                  !.seen[job.at] = seen, !.torn = FALSE]
    /\ Milestone(LastOne)
    /\ UNCHANGED <<vars, worktree, indexed, disturbances>>

(* The fence reads a worktree again (see SourceCapture).                   *)
Confirmed(i) == job.seen[i] = worktree[i]

(* The member of the visible view has the version that was seen.           *)
MemberSeen(i) ==
    LET g == activeView[Connected].gen[SlotAt(i)] IN g # 0 /\ indexed[g] = job.seen[i]

ReuseMember_OnlyFences ==
    /\ InPhase("reuse")
    /\ job' = IF Confirmed(job.at) THEN NextOr("succeeded")
              ELSE [job EXCEPT !.phase = "prepare", !.at = 1]
    /\ UNCHANGED <<vars, worktree, indexed, together, disturbances>>

(* One worktree after another is compared and fenced.  A difference sends  *)
(* the run back to prepare everything anew.                                *)
ReuseMember ==
    /\ InPhase("reuse")
    /\ job' = IF MemberSeen(job.at) /\ Confirmed(job.at) THEN NextOr("succeeded")
              ELSE [job EXCEPT !.phase = "prepare", !.at = 1]
    /\ UNCHANGED <<vars, worktree, indexed, together, disturbances>>

(* So does any error of the fence.                                         *)
ReuseFails ==
    /\ InPhase("reuse")
    /\ Disturb
    /\ job' = [job EXCEPT !.phase = "prepare", !.at = 1]
    /\ UNCHANGED <<vars, worktree, indexed, together>>

-----------------------------------------------------------------------------
(* One worktree: reserve an epoch, stage, fence, complete.                 *)

Here == SlotAt(job.at)

Reserve_KeepsCompleted ==
    LET g == receipt[Here][slotEpoch[Here]] IN
    /\ InPhase("reserve")
    /\ IF g # 0 /\ indexed[g] = job.seen[job.at]
       THEN job' = NextOr("confirm") /\ Milestone(LastOne) /\ UNCHANGED vars
       ELSE /\ ReserveSourceSlotEpoch(Here, slotEpoch[Here])
            /\ GoTo("stage") /\ UNCHANGED together
    /\ UNCHANGED <<worktree, indexed, disturbances>>

Reserve ==
    /\ InPhase("reserve")
    /\ \/ ReserveSourceSlotEpoch(Here, slotEpoch[Here]) /\ GoTo("stage")
       \/ ~HasSuccessor(slotEpoch[Here]) /\ GoTo("failed") /\ UNCHANGED vars
    /\ UNCHANGED <<worktree, indexed, together, disturbances>>

StageCandidate(g) ==
    /\ InPhase("stage")
    /\ StageSourceSlot(Here, slotEpoch[Here], g)
    /\ indexed' = [indexed EXCEPT ![g] = job.seen[job.at]]
    /\ job' = [job EXCEPT !.phase = "staging", !.gen = g]
    /\ UNCHANGED <<worktree, together, disturbances>>

StageStep ==
    /\ InPhase("staging")
    /\ StageAdvance
    /\ GoTo(IF staging' = 0 THEN "fence" ELSE "staging")
    /\ UNCHANGED <<worktree, indexed, together, disturbances>>

Fence ==
    /\ InPhase("fence")
    /\ GoTo(IF Confirmed(job.at) THEN "complete" ELSE "failed")
    /\ UNCHANGED <<vars, worktree, indexed, together, disturbances>>

Complete ==
    /\ InPhase("complete")
    /\ CompleteSourceSlotEpoch(Here, slotEpoch[Here], job.gen)
    /\ job' = IF LastOne THEN NextOr("confirm") ELSE [NextOr("confirm") EXCEPT !.phase = "reserve"]
    /\ Milestone(LastOne)
    /\ UNCHANGED <<worktree, indexed, disturbances>>

-----------------------------------------------------------------------------
(* All worktrees once more, then the view.                                 *)

ConfirmAll_Skipped ==
    /\ InPhase("confirm")
    /\ GoTo("publish")
    /\ UNCHANGED <<vars, worktree, indexed, together, disturbances>>

ConfirmAll ==
    /\ InPhase("confirm")
    /\ job' = IF Confirmed(job.at) THEN NextOr("publish") ELSE [job EXCEPT !.phase = "failed"]
    /\ UNCHANGED <<vars, worktree, indexed, together, disturbances>>

Publish ==
    /\ InPhase("publish")
    /\ PublishWorkspaceView(Connected)
    /\ GoTo("succeeded")
    /\ UNCHANGED <<worktree, indexed, together, disturbances>>

-----------------------------------------------------------------------------
RunStep ==
    \/ Begin(TRUE) \/ StartWriter \/ Register \/ Connect
    \/ \E seen \in Version \cup {Mixed} : Prepare(seen)
    \/ ReuseMember \/ Reserve
    \/ \E g \in Gen : StageCandidate(g)
    \/ StageStep \/ Fence \/ Complete \/ ConfirmAll \/ Publish \/ Finish

ConnectedNext ==
    \/ RunStep
    \/ Begin(FALSE)
    \/ ReuseFails
    \/ \E i \in Position : Edit(i)
    \/ Abandon

ConnectedSpec == ConnectedInit /\ [][ConnectedNext]_allVars

(* The workspace is refreshed again and again, and a run takes its next    *)
(* step: every command has a deadline.                                     *)
FairConnectedSpec == ConnectedSpec /\ WF_allVars(RunStep)

-----------------------------------------------------------------------------
(* Properties.                                                             *)

(* Types of the store, the worktrees and the run, whose position never     *)
(* leaves the manifest.                                                    *)
ConnectedTypeOK ==
    /\ TypeOK
    /\ worktree \in [Position -> Version]
    /\ indexed \in [Gen -> Version \cup {Mixed}]
    /\ job \in [phase : {"idle", "start", "register", "connect", "probe", "prepare", "reuse",
                         "reserve", "stage", "staging", "fence", "complete", "confirm",
                         "publish", "succeeded", "failed"},
                refresh : BOOLEAN, at : Position, torn : BOOLEAN,
                seen : [Position -> Version \cup {Mixed}], gen : Gen \cup {0}]
    /\ together \subseteq [Position -> Version]
    /\ disturbances \in 0 .. MaxDisturbances

(* The versions the visible view shows.                                    *)
Shown == [i \in Position |-> indexed[activeView[Connected].gen[SlotAt(i)]]]

(* What a successful run reports is one state of the whole workspace: at   *)
(* some instant after the last worktree had been prepared for a reuse, or  *)
(* completed for a publication, all worktrees were in the shown versions   *)
(* together.                                                               *)
SuccessIsOneInstant ==
    InPhase("succeeded") => activeView[Connected] # None /\ Shown \in together

(* A run that fails half way leaves the visible view to the runs before    *)
(* it, and what it completed is never shown: the view never goes back to   *)
(* earlier versions, and all its members are newer than all the ones they  *)
(* replace.                                                                *)
ViewsMoveTogether ==
    [][(activeView[Connected] # None /\ activeView'[Connected] # activeView[Connected]) =>
          \A i, j \in Position :
              /\ Shown[i] <= Shown'[i]
              /\ activeView[Connected].gen[SlotAt(i)] < activeView'[Connected].gen[SlotAt(j)]
      ]_allVars

(* Once edits and faults cease, the visible view describes every worktree  *)
(* and stays so, whatever the interrupted runs completed; unless failures  *)
(* have used up the epochs of a slot.                                      *)
Exhausted == \E i \in Position : ~HasSuccessor(slotEpoch[SlotAt(i)])

ConnectedConverges ==
    <>[](Exhausted \/ (activeView[Connected] # None /\ Shown = worktree))
=============================================================================
