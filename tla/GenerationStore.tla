--------------------------- MODULE GenerationStore ---------------------------
(***************************************************************************)
(* The durable index store of RepoWitness: index generations and their     *)
(* lifecycle, the source-slot epochs that fence them, the receipts that    *)
(* bind a generation to an epoch, the published workspace views that       *)
(* readers pin, crash recovery and generation retention.                   *)
(*                                                                         *)
(* All state below is SQLite state: it survives a crash.  One writer       *)
(* thread owns the store (the mutation lease excludes other processes) and *)
(* runs one command at a time; a command is one IMMEDIATE transaction and  *)
(* so one action, except generation staging, whose lifecycle transitions   *)
(* are separate transactions with a possible crash between any two.        *)
(* Readers have their own connections and see every intermediate state.    *)
(* A command that fails rolls back and changes nothing.                    *)
(***************************************************************************)
EXTENDS Integers, FiniteSets

CONSTANTS
    Repo,                 \* repository identities
    ConfiguredSlot,       \* source-slot identities declared in manifests
    ConfiguredWorkspace,  \* connected-workspace identities declared in manifests
    MaxEpoch,             \* the largest source epoch the store represents
    MaxGeneration,        \* the largest generation row id
    Keep,                 \* retained generations kept per source slot
    None                  \* no workspace, no repository, no view

(***************************************************************************)
(* The default slot and the default workspace of a repository carry the    *)
(* bytes of the repository identity itself.  Configured identities are 256 *)
(* random bits and so differ from every repository identity.               *)
(***************************************************************************)
Slot      == Repo \cup ConfiguredSlot
Workspace == Repo \cup ConfiguredWorkspace
Epoch     == 0 .. MaxEpoch
Gen       == 1 .. MaxGeneration

(* A published view: one epoch and one generation per member slot; a slot  *)
(* that is not a member has generation 0.                                  *)
View == [workspace : Workspace, epoch : [Slot -> Epoch], gen : [Slot -> Gen \cup {0}]]

ASSUME StoreAssumption ==
    /\ MaxEpoch \in Nat
    /\ MaxGeneration \in Nat
    /\ Keep \in Nat
    /\ Repo \cap ConfiguredSlot = {}
    /\ Repo \cap ConfiguredWorkspace = {}
    /\ None \notin Repo \cup ConfiguredWorkspace
    /\ None \notin View

VARIABLES
    open,        \* the writer holds the mutation lease and has recovered
    staging,     \* the generation the writer is staging, or 0
    registered,  \* repositories with a workspaces row
    repoEpoch,   \* workspaces.source_epoch
    activeGen,   \* workspaces.active_generation_id, or 0
    lifecycle,   \* index_generations.lifecycle_state, "absent" when no row
    genRepo,     \* the repository of a generation
    genEpoch,    \* index_generations.source_epoch
    slotOwner,   \* the connected workspace a slot row belongs to
    slotRepo,    \* the repository a slot row maps to
    slotEpoch,   \* workspace_source_slots.source_epoch
    receipt,     \* source_slot_generation_receipts, or 0
    views,       \* published workspace_views with their members
    activeView,  \* active_workspace_views
    lastIssued   \* history: the largest generation id ever issued

genVars  == <<lifecycle, genRepo, genEpoch>>
slotVars == <<slotOwner, slotRepo, slotEpoch>>
viewVars == <<views, activeView>>
vars == <<open, staging, registered, repoEpoch, activeGen, genVars, slotVars,
          receipt, viewVars, lastIssued>>

-----------------------------------------------------------------------------
(* Lifecycle classes of the schema's lifecycle CHECK and triggers.         *)

Incomplete == {"discovered", "extracting", "resolving", "validating"}
Readable   == {"ready", "active", "retained"}
Lifecycle  == Incomplete \cup Readable \cup {"failed", "cancelled", "absent"}

Exists(g) == lifecycle[g] # "absent"

(* One step of staging: each lifecycle state has one staging successor.    *)
StagingSuccessor ==
    [discovered |-> "extracting", extracting |-> "resolving",
     resolving |-> "validating", validating |-> "ready"]

SlotsOf(w) == {s \in Slot : slotOwner[s] = w}

InActiveView(g) ==
    \E w \in Workspace : activeView[w] # None /\ \E s \in Slot : activeView[w].gen[s] = g

(* A receipt at the current epoch of its slot refers to the generation.    *)
CurrentlyReceipted(g) ==
    \E s \in Slot : slotOwner[s] # None /\ receipt[s][slotEpoch[s]] = g

Published(w) == activeView[w] # None \/ \E v \in views : v.workspace = w

-----------------------------------------------------------------------------
Init ==
    /\ open = FALSE
    /\ staging = 0
    /\ registered = {}
    /\ repoEpoch = [r \in Repo |-> 0]
    /\ activeGen = [r \in Repo |-> 0]
    /\ lifecycle = [g \in Gen |-> "absent"]
    /\ genRepo = [g \in Gen |-> None]
    /\ genEpoch = [g \in Gen |-> 0]
    /\ slotOwner = [s \in Slot |-> None]
    /\ slotRepo = [s \in Slot |-> None]
    /\ slotEpoch = [s \in Slot |-> 0]
    /\ receipt = [s \in Slot |-> [e \in Epoch |-> 0]]
    /\ views = {}
    /\ activeView = [w \in Workspace |-> None]
    /\ lastIssued = 0

(* A command runs only between commands: the writer thread is sequential.  *)
Idle == open /\ staging = 0

(***************************************************************************)
(* Startup: acquire the lease, open the database and recover.  Recovery    *)
(* fails every generation that never reached ready, and every ready one    *)
(* that neither an active view nor a current receipt can still reach.      *)
(***************************************************************************)
(* Faulty variants: recovery that forgets one of its two exceptions.        *)
Recoverable_ForgetsViews(g) ==
    lifecycle[g] \in Incomplete \/ (lifecycle[g] = "ready" /\ ~CurrentlyReceipted(g))

Recoverable_ForgetsReceipts(g) ==
    lifecycle[g] \in Incomplete \/ (lifecycle[g] = "ready" /\ ~InActiveView(g))

Recoverable(g) ==
    \/ lifecycle[g] \in Incomplete
    \/ /\ lifecycle[g] = "ready"
       /\ ~InActiveView(g)
       /\ ~CurrentlyReceipted(g)

Recover ==
    /\ ~open
    /\ open' = TRUE
    /\ lifecycle' = [g \in Gen |-> IF Recoverable(g) THEN "failed" ELSE lifecycle[g]]
    /\ UNCHANGED <<staging, registered, repoEpoch, activeGen, genRepo, genEpoch,
                   slotVars, receipt, viewVars, lastIssued>>

(* The writer process stops: a crash at any point, or an orderly shutdown. *)
Stop ==
    /\ open
    /\ open' = FALSE
    /\ staging' = 0
    /\ UNCHANGED <<registered, repoEpoch, activeGen, genVars, slotVars, receipt,
                   viewVars, lastIssued>>

(***************************************************************************)
(* ensure_workspace: insert the workspace row unless it exists, then make  *)
(* the default slot agree with the stored epoch or fail.                   *)
(***************************************************************************)
EnsureWorkspace(r, e) ==
    LET stored == IF r \in registered THEN repoEpoch[r] ELSE e IN
    /\ Idle
    /\ \/ /\ slotOwner[r] = r
          /\ slotRepo[r] = r
          /\ slotEpoch[r] = stored
          /\ UNCHANGED slotVars
       \/ /\ slotOwner[r] = None
          /\ ~Published(r)
          /\ slotOwner' = [slotOwner EXCEPT ![r] = r]
          /\ slotRepo' = [slotRepo EXCEPT ![r] = r]
          /\ slotEpoch' = [slotEpoch EXCEPT ![r] = stored]
    /\ registered' = registered \cup {r}
    /\ repoEpoch' = [repoEpoch EXCEPT ![r] = stored]
    /\ UNCHANGED <<open, staging, activeGen, genVars, receipt, viewVars, lastIssued>>

(***************************************************************************)
(* connect_workspace: replace the slot mappings of a workspace that has    *)
(* never been published; an unchanged mapping keeps its epochs.            *)
(***************************************************************************)
ConnectWorkspace(w, mapping) ==
    LET slots == DOMAIN mapping
        old   == SlotsOf(w)
        same  == slots = old /\ \A s \in slots : slotRepo[s] = mapping[s]
    IN
    /\ Idle
    /\ slots # {}
    /\ \A s \in slots : mapping[s] \in registered
    /\ ~same
    /\ ~Published(w)
    /\ \A s \in slots : slotOwner[s] \in {None, w}
    /\ slotOwner' = [s \in Slot |-> IF s \in slots THEN w
                                    ELSE IF s \in old THEN None ELSE slotOwner[s]]
    /\ slotRepo' = [s \in Slot |-> IF s \in slots THEN mapping[s]
                                   ELSE IF s \in old THEN None ELSE slotRepo[s]]
    /\ slotEpoch' = [s \in Slot |-> IF s \in slots \cup old THEN 0 ELSE slotEpoch[s]]
    /\ receipt' = [s \in Slot |-> IF s \in old THEN [e \in Epoch |-> 0] ELSE receipt[s]]
    /\ UNCHANGED <<open, staging, registered, repoEpoch, activeGen, genVars, viewVars,
                   lastIssued>>

(* SourceSlotEpoch::checked_next: the largest epoch has no successor.      *)
(* Faulty variant: the successor is taken without the check.               *)
HasSuccessor_Unchecked(e) == e <= MaxEpoch

HasSuccessor(e) == e < MaxEpoch

(* advance_source_epoch: the slot trigger admits only the exact successor. *)
AdvanceSourceEpoch(r) ==
    /\ Idle
    /\ r \in registered
    /\ HasSuccessor(repoEpoch[r])
    /\ slotOwner[r] = r
    /\ slotEpoch[r] = repoEpoch[r]
    /\ repoEpoch' = [repoEpoch EXCEPT ![r] = @ + 1]
    /\ slotEpoch' = [slotEpoch EXCEPT ![r] = repoEpoch[r] + 1]
    /\ UNCHANGED <<open, staging, registered, activeGen, genVars, slotOwner, slotRepo,
                   receipt, viewVars, lastIssued>>

(***************************************************************************)
(* reserve_source_slot_epoch: compare-and-swap to the successor; for a     *)
(* default slot the repository epoch moves in the same transaction.        *)
(* Faulty variant: only the slot's epoch moves.                            *)
(***************************************************************************)
ReservedRepoEpoch_SlotOnly(s, next) == repoEpoch

ReservedRepoEpoch(s, next) == [r \in Repo |-> IF r = s THEN next ELSE repoEpoch[r]]

ReserveSourceSlotEpoch(s, expected) ==
    /\ Idle
    /\ slotOwner[s] # None
    /\ slotEpoch[s] = expected
    /\ HasSuccessor(expected)
    /\ s \in Repo => repoEpoch[s] = expected
    /\ slotEpoch' = [slotEpoch EXCEPT ![s] = expected + 1]
    /\ repoEpoch' = ReservedRepoEpoch(s, expected + 1)
    /\ UNCHANGED <<open, staging, registered, activeGen, genVars, slotOwner, slotRepo,
                   receipt, viewVars, lastIssued>>

-----------------------------------------------------------------------------
(* Staging one generation.                                                 *)

(* SQLite gives a new row the successor of the largest row id in the table *)
(* (index_generations has no AUTOINCREMENT).                               *)
NextRowId(g) == /\ \A h \in Gen : Exists(h) => h < g
                /\ g # 1 => Exists(g - 1)

CreateGeneration(r, g) ==
    /\ NextRowId(g)
    /\ lifecycle' = [lifecycle EXCEPT ![g] = "discovered"]
    /\ genRepo' = [genRepo EXCEPT ![g] = r]
    /\ genEpoch' = [genEpoch EXCEPT ![g] = repoEpoch[r]]
    /\ staging' = g
    /\ lastIssued' = IF g > lastIssued THEN g ELSE lastIssued
    /\ UNCHANGED <<open, registered, repoEpoch, activeGen, slotVars, receipt, viewVars>>

(* stage: the caller's epoch must be the repository's current one.         *)
Stage(r, e, g) ==
    /\ Idle
    /\ r \in registered
    /\ repoEpoch[r] = e
    /\ CreateGeneration(r, g)

(* stage_source_slot: the reserved slot epoch must still be current; the   *)
(* generation is recorded under the repository's own epoch.                *)
StageSourceSlot(s, e, g) ==
    /\ Idle
    /\ slotOwner[s] # None
    /\ slotEpoch[s] = e
    /\ CreateGeneration(slotRepo[s], g)

(* One lifecycle transition of the generation being staged.                *)
StageAdvance ==
    /\ staging # 0
    /\ lifecycle' = [lifecycle EXCEPT ![staging] = StagingSuccessor[lifecycle[staging]]]
    /\ staging' = IF lifecycle'[staging] = "ready" THEN 0 ELSE staging
    /\ UNCHANGED <<open, registered, repoEpoch, activeGen, genRepo, genEpoch, slotVars,
                   receipt, viewVars, lastIssued>>

(* Staging fails or is cancelled; marking the generation is best effort.   *)
StageAbort(outcome) ==
    /\ staging # 0
    /\ outcome \in {"failed", "cancelled", lifecycle[staging]}
    /\ lifecycle' = [lifecycle EXCEPT ![staging] = outcome]
    /\ staging' = 0
    /\ UNCHANGED <<open, registered, repoEpoch, activeGen, genRepo, genEpoch, slotVars,
                   receipt, viewVars, lastIssued>>

(* Graph, syntax-site or topology staging fails on a ready generation of   *)
(* the repository's current epoch.  Callers stage these artifacts while    *)
(* they hold the staged token, so no receipt names the generation yet.     *)
StageArtifactsFailed(g, outcome) ==
    /\ Idle
    /\ lifecycle[g] = "ready"
    /\ genEpoch[g] = repoEpoch[genRepo[g]]
    /\ \A s \in Slot, e \in Epoch : receipt[s][e] # g
    /\ outcome \in {"failed", "cancelled"}
    /\ lifecycle' = [lifecycle EXCEPT ![g] = outcome]
    /\ UNCHANGED <<open, staging, registered, repoEpoch, activeGen, genRepo, genEpoch,
                   slotVars, receipt, viewVars, lastIssued>>

-----------------------------------------------------------------------------
(* Completion, publication and activation.                                 *)

(* insert_source_slot_receipt: the first receipt of an epoch wins.         *)
(* Faulty variant: a later receipt of the same epoch replaces the first.   *)
ReceiptAccepts_LastWins(s, e, g) == receipt[s][e] \in Gen \cup {0}

ReceiptAccepts(s, e, g) == receipt[s][e] \in {0, g}

CompleteSourceSlotEpoch(s, e, g) ==
    /\ Idle
    /\ slotOwner[s] # None
    /\ slotEpoch[s] = e
    /\ lifecycle[g] \in Readable
    /\ genRepo[g] = slotRepo[s]
    /\ ReceiptAccepts(s, e, g)
    /\ receipt' = [receipt EXCEPT ![s][e] = g]
    /\ UNCHANGED <<open, staging, registered, repoEpoch, activeGen, genVars, slotVars,
                   viewVars, lastIssued>>

(* The members a view of w must have: every slot at its current epoch.     *)
CurrentView(w) ==
    [workspace |-> w,
     epoch |-> [s \in Slot |-> IF slotOwner[s] = w THEN slotEpoch[s] ELSE 0],
     gen   |-> [s \in Slot |-> IF slotOwner[s] = w THEN receipt[s][slotEpoch[s]] ELSE 0]]

(* Faulty variant: a slot that has not completed its current epoch is      *)
(* skipped instead of refusing the publication.                            *)
EligibleMember_SkipsIncomplete(s) ==
    receipt[s][slotEpoch[s]] # 0 => lifecycle[receipt[s][slotEpoch[s]]] \in Readable

EligibleMember(s) ==
    /\ receipt[s][slotEpoch[s]] # 0
    /\ lifecycle[receipt[s][slotEpoch[s]]] \in Readable

PublishWorkspaceView(w) ==
    /\ Idle
    /\ SlotsOf(w) # {}
    /\ \A s \in SlotsOf(w) : EligibleMember(s)
    /\ views' = views \cup {CurrentView(w)}
    /\ activeView' = [activeView EXCEPT ![w] = CurrentView(w)]
    /\ UNCHANGED <<open, staging, registered, repoEpoch, activeGen, genVars, slotVars,
                   receipt, lastIssued>>

(* publish_default_workspace_view: the one-member view of a repository.    *)
DefaultView(r, g) ==
    [workspace |-> r,
     epoch |-> [s \in Slot |-> IF s = r THEN repoEpoch[r] ELSE 0],
     gen   |-> [s \in Slot |-> IF s = r THEN g ELSE 0]]

(* The epoch fence of an activation: the generation, the repository and    *)
(* its default slot are all still at the epoch the caller expects.         *)
(* Faulty variant: the generation's own epoch is not compared.             *)
ActivationFence_IgnoresGeneration(g, e) ==
    LET r == genRepo[g] IN repoEpoch[r] = e /\ slotOwner[r] = r /\ slotEpoch[r] = e

ActivationFence(g, e) ==
    LET r == genRepo[g] IN
    /\ genEpoch[g] = e
    /\ repoEpoch[r] = e
    /\ slotOwner[r] = r
    /\ slotEpoch[r] = e

(* The old active generation is retained and the new one becomes active.   *)
(* Faulty variant: the old one is not demoted.                             *)
ActivatedLifecycle_KeepsOld(g) == [lifecycle EXCEPT ![g] = "active"]

ActivatedLifecycle(g) ==
    [h \in Gen |->
        IF h = g THEN "active"
        ELSE IF genRepo[h] = genRepo[g] /\ lifecycle[h] = "active" THEN "retained"
        ELSE lifecycle[h]]

(* activate: lifecycle, pointer, receipt and default view move together.   *)
Activate(g, e) ==
    LET r == genRepo[g] IN
    /\ Idle
    /\ lifecycle[g] = "ready"
    /\ ActivationFence(g, e)
    /\ ReceiptAccepts(r, e, g)
    /\ lifecycle' = ActivatedLifecycle(g)
    /\ activeGen' = [activeGen EXCEPT ![r] = g]
    /\ receipt' = [receipt EXCEPT ![r][e] = g]
    /\ views' = views \cup {DefaultView(r, g)}
    /\ activeView' = [activeView EXCEPT ![r] = DefaultView(r, g)]
    /\ UNCHANGED <<open, staging, registered, repoEpoch, genRepo, genEpoch, slotVars,
                   lastIssued>>

-----------------------------------------------------------------------------
(***************************************************************************)
(* Retention.  A generation may be collected only when it is retained,     *)
(* ranks below the newest Keep of its repository, and no active pointer,   *)
(* active view or current receipt reaches it.  The limits of the policy,   *)
(* its pins and the memory journal only shrink the collected set further.  *)
(***************************************************************************)
RetainedRank(g) ==
    Cardinality({h \in Gen : /\ lifecycle[h] = "retained"
                             /\ genRepo[h] = genRepo[g]
                             /\ \/ genEpoch[h] > genEpoch[g]
                                \/ genEpoch[h] = genEpoch[g] /\ h >= g})

Eligible(g) ==
    /\ lifecycle[g] = "retained"
    /\ RetainedRank(g) > Keep
    /\ \A r \in Repo : activeGen[r] # g
    /\ ~InActiveView(g)
    /\ ~CurrentlyReceipted(g)

(* The superseded views that contain a collected generation.               *)
GarbageViews(garbage) ==
    {v \in views : v # activeView[v.workspace] /\ \E s \in Slot : v.gen[s] \in garbage}

(* The sweep deletes those views and every receipt of a collected one.     *)
ApplyRetention(garbage) ==
    /\ Idle
    /\ garbage # {}
    /\ \A g \in garbage : Eligible(g)
    /\ lifecycle' = [g \in Gen |-> IF g \in garbage THEN "absent" ELSE lifecycle[g]]
    /\ genRepo' = [g \in Gen |-> IF g \in garbage THEN None ELSE genRepo[g]]
    /\ genEpoch' = [g \in Gen |-> IF g \in garbage THEN 0 ELSE genEpoch[g]]
    /\ views' = views \ GarbageViews(garbage)
    /\ receipt' = [s \in Slot |-> [e \in Epoch |->
                     IF receipt[s][e] \in garbage THEN 0 ELSE receipt[s][e]]]
    /\ UNCHANGED <<open, staging, registered, repoEpoch, activeGen, slotVars, activeView,
                   lastIssued>>

-----------------------------------------------------------------------------
Next ==
    \/ Recover
    \/ Stop
    \/ \E r \in Repo, e \in Epoch : EnsureWorkspace(r, e)
    \/ \E w \in ConfiguredWorkspace, d \in SUBSET ConfiguredSlot :
          \E mapping \in [d -> Repo] : ConnectWorkspace(w, mapping)
    \/ \E r \in Repo : AdvanceSourceEpoch(r)
    \/ \E s \in Slot, e \in Epoch : ReserveSourceSlotEpoch(s, e)
    \/ \E r \in Repo, e \in Epoch, g \in Gen : Stage(r, e, g)
    \/ \E s \in Slot, e \in Epoch, g \in Gen : StageSourceSlot(s, e, g)
    \/ StageAdvance
    \/ \E outcome \in Lifecycle : StageAbort(outcome)
    \/ \E g \in Gen, outcome \in Lifecycle : StageArtifactsFailed(g, outcome)
    \/ \E s \in Slot, e \in Epoch, g \in Gen : CompleteSourceSlotEpoch(s, e, g)
    \/ \E w \in ConfiguredWorkspace : PublishWorkspaceView(w)
    \/ \E g \in Gen, e \in Epoch : Activate(g, e)
    \/ \E garbage \in SUBSET Gen : ApplyRetention(garbage)

Spec == Init /\ [][Next]_vars

-----------------------------------------------------------------------------
(* Properties.                                                             *)

Member(w, s) == activeView[w] # None /\ activeView[w].gen[s] # 0

(* Every variable has its type: the shape of the SQLite tables.            *)
TypeOK ==
    /\ open \in BOOLEAN
    /\ staging \in Gen \cup {0}
    /\ registered \in SUBSET Repo
    /\ repoEpoch \in [Repo -> Epoch]
    /\ activeGen \in [Repo -> Gen \cup {0}]
    /\ lifecycle \in [Gen -> Lifecycle]
    /\ genRepo \in [Gen -> Repo \cup {None}]
    /\ genEpoch \in [Gen -> Epoch]
    /\ slotOwner \in [Slot -> Workspace \cup {None}]
    /\ slotRepo \in [Slot -> Repo \cup {None}]
    /\ slotEpoch \in [Slot -> Epoch]
    /\ receipt \in [Slot -> [Epoch -> Gen \cup {0}]]
    /\ views \in SUBSET View
    /\ activeView \in [Workspace -> View \cup {None}]
    /\ lastIssued \in Gen \cup {0}

(* The two places that store a repository's epoch, its workspaces row and  *)
(* its default slot, never disagree, although three commands move them.    *)
DefaultSlotAgrees ==
    \A r \in registered : /\ slotOwner[r] = r
                          /\ slotRepo[r] = r
                          /\ slotEpoch[r] = repoEpoch[r]

(* A repository has at most one active generation, and it is the one the   *)
(* workspaces row points to.                                               *)
OneActiveGeneration ==
    /\ \A r \in Repo : activeGen[r] # 0 =>
          lifecycle[activeGen[r]] = "active" /\ genRepo[activeGen[r]] = r
    /\ \A g \in Gen : lifecycle[g] = "active" =>
          genRepo[g] # None /\ activeGen[genRepo[g]] = g

(* What readers see of a workspace is complete: its active view has one    *)
(* member per slot, no member of another workspace, and every member is a  *)
(* fully built generation of the slot's repository.  Neither recovery, a   *)
(* failed staging nor retention ever takes a visible generation away.      *)
VisibleViewComplete ==
    \A w \in Workspace : activeView[w] # None =>
        /\ SlotsOf(w) # {}
        /\ \A s \in Slot : Member(w, s) <=> slotOwner[s] = w
        /\ \A s \in SlotsOf(w) :
              /\ lifecycle[activeView[w].gen[s]] \in Readable
              /\ genRepo[activeView[w].gen[s]] = slotRepo[s]

(* The single-repository pointer and the repository's default view name    *)
(* the same generation: readers of either see the same index.              *)
PointerMatchesDefaultView ==
    \A r \in Repo : activeGen[r] = IF activeView[r] = None THEN 0 ELSE activeView[r].gen[r]

(* Every published view is backed: each member has a receipt at the epoch  *)
(* the view recorded, and the generation still exists.                     *)
ViewsBacked ==
    \A v \in views, s \in Slot : v.gen[s] # 0 =>
        /\ receipt[s][v.epoch[s]] = v.gen[s]
        /\ Exists(v.gen[s])

(* A completed source epoch survives until it is superseded: the generation*)
(* of a current receipt stays readable through crashes and retention, and  *)
(* one that was built at the repository's current epoch can be activated   *)
(* after a restart or already is active.                                   *)
CompletedEpochSurvives ==
    \A s \in Slot :
        LET g == receipt[s][slotEpoch[s]] IN
        (slotOwner[s] # None /\ g # 0) =>
            /\ lifecycle[g] \in Readable
            /\ genRepo[g] = slotRepo[s]
            /\ (s \in Repo /\ genEpoch[g] = repoEpoch[s]) => lifecycle[g] # "retained"

(* Generation ids order the generations of a repository by source epoch.   *)
IdsFollowEpochs ==
    \A g, h \in Gen : (Exists(g) /\ Exists(h) /\ genRepo[g] = genRepo[h] /\ g < h)
                        => genEpoch[g] <= genEpoch[h]

(* A generation id is never issued twice, although SQLite hands out the    *)
(* successor of the largest row id and retention deletes rows.             *)
IdsNeverReissued ==
    [][\A g \in Gen : ~Exists(g) /\ Exists(g)' => g > lastIssued]_vars

(* Readers of a repository never go back: the active generation moves only *)
(* to a later generation built at a strictly later source epoch.           *)
ActivationMovesForward ==
    [][\A r \in Repo : (activeGen[r] # 0 /\ activeGen'[r] # activeGen[r]) =>
          /\ activeGen'[r] > activeGen[r]
          /\ genEpoch'[activeGen'[r]] > genEpoch[activeGen[r]]]_vars

(* The store implements the contract readers rely on: a workspace switches *)
(* atomically from one complete view to a later one, and no generation a   *)
(* current view names ever goes away.                                      *)
Contract == INSTANCE PublishedViews
                WITH current <- activeView, readable <- {g \in Gen : lifecycle[g] \in Readable}

ImplementsContract == Contract!Spec
=============================================================================
