------------------------ MODULE GenerationStoreProofs ------------------------
(***************************************************************************)
(* Machine-checked safety of the index store, for any number of            *)
(* repositories, slots, workspaces, epochs and generations.                *)
(***************************************************************************)
EXTENDS GenerationStore, TLAPS

-----------------------------------------------------------------------------
(* The inductive invariant.                                                *)

(* Default slots belong to default workspaces and configured slots to      *)
(* configured workspaces; a slot row maps to a registered repository.      *)
SlotInv ==
    /\ \A r \in Repo : slotOwner[r] \in {None, r}
    /\ \A s \in ConfiguredSlot : slotOwner[s] \in ConfiguredWorkspace \cup {None}
    /\ \A s \in Slot : slotOwner[s] # None => slotRepo[s] \in registered
    /\ \A r \in Repo : slotOwner[r] # None => r \in registered

(* Ids, repositories and epochs of generation rows; the newest id is never *)
(* deleted, which is why no id is issued twice.                            *)
GenInv ==
    /\ \A g \in Gen : Exists(g) =>
          /\ genRepo[g] \in registered
          /\ genEpoch[g] <= repoEpoch[genRepo[g]]
          /\ g <= lastIssued
    /\ \A g \in Gen : ~Exists(g) => genRepo[g] = None
    /\ lastIssued # 0 => Exists(lastIssued)

(* Only an open writer stages, and what it stages is not visible.          *)
StagingInv == staging # 0 => open /\ lifecycle[staging] \in Incomplete

(* The active generation holds the receipt of its own epoch, so no other   *)
(* generation of that epoch can be activated; hence the retained ones are  *)
(* all older than the active one.                                          *)
ActiveInv ==
    /\ \A r \in Repo : activeGen[r] # 0 =>
          receipt[r][genEpoch[activeGen[r]]] = activeGen[r]
    /\ \A g \in Gen : lifecycle[g] = "retained" => g < activeGen[genRepo[g]]

(* A receipt is no newer than its slot and names a generation of the       *)
(* slot's repository; at the current epoch that generation is readable.    *)
ReceiptInv ==
    /\ \A s \in Slot, e \in Epoch : receipt[s][e] # 0 =>
          /\ e <= slotEpoch[s]
          /\ slotOwner[s] # None
          /\ Exists(receipt[s][e])
          /\ genRepo[receipt[s][e]] = slotRepo[s]
    /\ \A s \in Slot : receipt[s][slotEpoch[s]] # 0 =>
          lifecycle[receipt[s][slotEpoch[s]]] \in Readable

(* Members of published views are slots of the view's workspace, backed by *)
(* receipts.                                                               *)
ViewInv ==
    \A v \in views, s \in Slot : v.gen[s] # 0 =>
        /\ slotOwner[s] = v.workspace
        /\ v.epoch[s] <= slotEpoch[s]
        /\ receipt[s][v.epoch[s]] = v.gen[s]

(* The active view of a workspace is published and has a readable          *)
(* generation for each slot of the workspace.                              *)
ActiveViewInv ==
    \A w \in Workspace : activeView[w] # None =>
        /\ activeView[w] \in views
        /\ activeView[w].workspace = w
        /\ SlotsOf(w) # {}
        /\ \A s \in SlotsOf(w) : /\ activeView[w].gen[s] # 0
                                 /\ lifecycle[activeView[w].gen[s]] \in Readable

IInv ==
    /\ TypeOK
    /\ SlotInv
    /\ DefaultSlotAgrees
    /\ GenInv
    /\ StagingInv
    /\ IdsFollowEpochs
    /\ OneActiveGeneration
    /\ ActiveInv
    /\ ReceiptInv
    /\ ViewInv
    /\ ActiveViewInv
    /\ PointerMatchesDefaultView
-----------------------------------------------------------------------------
(* The fields of a view.                                                   *)
LEMMA ViewTyping ==
    ASSUME NEW v \in View, NEW s \in Slot
    PROVE  /\ v.workspace \in Workspace
           /\ v.epoch[s] \in Epoch
           /\ v.gen[s] \in Gen \cup {0}
BY DEF View

(* What a receipt says, by the receipt part of the invariant.              *)
LEMMA ReceiptFacts ==
    ASSUME TypeOK, ReceiptInv, NEW s \in Slot, NEW e \in Epoch, receipt[s][e] # 0
    PROVE  /\ receipt[s][e] \in Gen
           /\ e <= slotEpoch[s]
           /\ slotOwner[s] # None
           /\ lifecycle[receipt[s][e]] # "absent"
           /\ genRepo[receipt[s][e]] = slotRepo[s]
BY DEF TypeOK, ReceiptInv, Exists

(* At the current epoch of its slot it names a readable generation.        *)
LEMMA CurrentReceiptFacts ==
    ASSUME TypeOK, ReceiptInv, NEW s \in Slot, receipt[s][slotEpoch[s]] # 0
    PROVE  /\ receipt[s][slotEpoch[s]] \in Gen
           /\ lifecycle[receipt[s][slotEpoch[s]]] \in Readable
           /\ slotOwner[s] # None
BY DEF TypeOK, ReceiptInv

(* What the active view of a workspace says.                               *)
LEMMA ActiveViewFacts ==
    ASSUME TypeOK, ActiveViewInv, NEW w \in Workspace, activeView[w] # None
    PROVE  /\ activeView[w] \in views
           /\ activeView[w] \in View
           /\ activeView[w].workspace = w
           /\ SlotsOf(w) # {}
           /\ \A s \in SlotsOf(w) :
                 /\ s \in Slot
                 /\ activeView[w].gen[s] \in Gen
                 /\ lifecycle[activeView[w].gen[s]] \in Readable
<1>1. activeView[w] \in views /\ activeView[w] \in View
  BY DEF TypeOK, ActiveViewInv
<1>2. SlotsOf(w) \subseteq Slot
  BY DEF SlotsOf
<1>3. \A s \in SlotsOf(w) : activeView[w].gen[s] \in Gen
  BY <1>1, <1>2, ViewTyping DEF ActiveViewInv
<1> QED BY <1>1, <1>2, <1>3 DEF ActiveViewInv

(* A step that leaves views, slots and the readable generations alone      *)
(* keeps every active view backed.                                         *)
LEMMA ActiveViewsKept ==
    ASSUME TypeOK, ActiveViewInv, viewVars' = viewVars, slotVars' = slotVars,
           \A h \in Gen : lifecycle[h] \in Readable => lifecycle'[h] \in Readable
    PROVE  ActiveViewInv'
<1> SUFFICES ASSUME NEW w \in Workspace, activeView'[w] # None
             PROVE  /\ activeView'[w] \in views'
                    /\ activeView'[w].workspace = w
                    /\ SlotsOf(w)' # {}
                    /\ \A s \in SlotsOf(w)' :
                          /\ activeView'[w].gen[s] # 0
                          /\ lifecycle'[activeView'[w].gen[s]] \in Readable
  BY DEF ActiveViewInv
<1>1. activeView' = activeView /\ views' = views /\ SlotsOf(w)' = SlotsOf(w)
  BY DEF viewVars, slotVars, SlotsOf
<1>2. 0 \notin Gen
  BY StoreAssumption DEF Gen
<1> QED BY <1>1, <1>2, ActiveViewFacts

(* The one-member view of a repository is a view.                          *)
LEMMA DefaultViewTyping ==
    ASSUME TypeOK, NEW r \in Repo, NEW g \in Gen
    PROVE  DefaultView(r, g) \in View /\ DefaultView(r, g) # None
<1>1. DefaultView(r, g) \in View
  BY StoreAssumption DEF DefaultView, View, TypeOK, Slot, Workspace, Epoch
<1> QED BY <1>1, StoreAssumption

(* Recovery fails only generations that no view and no current receipt     *)
(* reaches.                                                                *)
LEMMA RecoverStep ==
    ASSUME IInv, Recover
    PROVE  IInv'
<1> USE StoreAssumption DEF IInv, Slot, Workspace, Epoch, Gen, Exists, Incomplete, Readable,
            Lifecycle
<1>1. TypeOK'
  BY DEF Recover, slotVars, viewVars, TypeOK
<1>2. GenInv'
  BY DEF Recover, TypeOK, GenInv, Recoverable
<1>3. StagingInv'
  BY DEF Recover, StagingInv
<1>4. IdsFollowEpochs'
  BY DEF Recover, IdsFollowEpochs, Recoverable
<1>5. OneActiveGeneration'
  BY DEF Recover, TypeOK, OneActiveGeneration, Recoverable
<1>6. ActiveInv'
  BY DEF Recover, ActiveInv
<1>7. ReceiptInv'
  <2>1. /\ receipt' = receipt /\ slotVars' = slotVars /\ genRepo' = genRepo
    BY DEF Recover
  <2>2. slotEpoch' = slotEpoch /\ slotOwner' = slotOwner /\ slotRepo' = slotRepo
    BY <2>1 DEF slotVars
  <2>3. ASSUME NEW h \in Gen, lifecycle[h] # "absent" PROVE lifecycle'[h] # "absent"
    BY <2>3 DEF Recover
  <2>4. ASSUME NEW h \in Gen, lifecycle[h] \in Readable, CurrentlyReceipted(h)
        PROVE  lifecycle'[h] \in Readable
    BY <2>4 DEF Recover, Recoverable
  <2>5. ASSUME NEW s \in Slot, receipt[s][slotEpoch[s]] # 0
        PROVE  CurrentlyReceipted(receipt[s][slotEpoch[s]])
    BY <2>5, CurrentReceiptFacts DEF CurrentlyReceipted
  <2>6. ASSUME NEW s \in Slot, NEW e \in Epoch, receipt'[s][e] # 0
        PROVE  /\ e <= slotEpoch'[s]
               /\ slotOwner'[s] # None
               /\ lifecycle'[receipt'[s][e]] # "absent"
               /\ genRepo'[receipt'[s][e]] = slotRepo'[s]
    BY <2>1, <2>2, <2>3, <2>6, ReceiptFacts
  <2>7. ASSUME NEW s \in Slot, receipt'[s][slotEpoch'[s]] # 0
        PROVE  lifecycle'[receipt'[s][slotEpoch'[s]]] \in Readable
    BY <2>1, <2>2, <2>4, <2>5, <2>7, CurrentReceiptFacts
  <2> QED BY <2>6, <2>7 DEF ReceiptInv
<1>8. ActiveViewInv'
  <2> SUFFICES ASSUME NEW w_1 \in Workspace, activeView'[w_1] # None
               PROVE  /\ activeView'[w_1] \in views'
                      /\ activeView'[w_1].workspace = w_1
                      /\ SlotsOf(w_1)' # {}
                      /\ \A s_1 \in SlotsOf(w_1)' :
                            /\ activeView'[w_1].gen[s_1] # 0
                            /\ lifecycle'[activeView'[w_1].gen[s_1]] \in Readable
    BY DEF ActiveViewInv
  <2>1. activeView'[w_1] \in views' /\ activeView'[w_1].workspace = w_1
    BY DEF Recover, Recoverable, InActiveView, genVars, slotVars, viewVars, TypeOK, ActiveViewInv
  <2>2. SlotsOf(w_1)' # {}
    BY DEF Recover, Recoverable, InActiveView, genVars, slotVars, viewVars, TypeOK, ActiveViewInv, SlotsOf
  <2>3. ASSUME NEW s_1 \in SlotsOf(w_1)'
        PROVE  /\ activeView'[w_1].gen[s_1] # 0
               /\ lifecycle'[activeView'[w_1].gen[s_1]] \in Readable
    BY <2>3, ViewTyping DEF Recover, Recoverable, InActiveView, genVars, slotVars, viewVars, TypeOK, ActiveViewInv, SlotsOf
  <2> QED BY <2>1, <2>2, <2>3
<1>9. SlotInv' /\ DefaultSlotAgrees' /\ ViewInv' /\ PointerMatchesDefaultView'
  BY DEF Recover, slotVars, viewVars, SlotInv, DefaultSlotAgrees, ViewInv,
       PointerMatchesDefaultView
<1> QED BY <1>1, <1>2, <1>3, <1>4, <1>5, <1>6, <1>7, <1>8, <1>9

(* A crash loses the writer, never durable state.                          *)
LEMMA StopStep ==
    ASSUME IInv, Stop
    PROVE  IInv'
<1> USE StoreAssumption DEF IInv, Slot, Workspace, Epoch, Gen, Exists, Incomplete, Readable,
            Lifecycle
<1>1. TypeOK'
  BY DEF Stop, genVars, slotVars, viewVars, TypeOK
<1>2. StagingInv'
  BY DEF Stop, StagingInv
<1>3. SlotInv' /\ DefaultSlotAgrees' /\ GenInv' /\ IdsFollowEpochs' /\
     OneActiveGeneration' /\ ActiveInv' /\ ReceiptInv' /\ ViewInv' /\ ActiveViewInv' /\
     PointerMatchesDefaultView'
  BY DEF Stop, genVars, slotVars, viewVars, SlotInv, DefaultSlotAgrees, GenInv,
       IdsFollowEpochs, OneActiveGeneration, ActiveInv, ReceiptInv, ViewInv,
       ActiveViewInv, PointerMatchesDefaultView, SlotsOf
<1> QED BY <1>1, <1>2, <1>3

(* Registering a repository adds its default slot at the stored epoch.     *)
LEMMA EnsureWorkspaceStep ==
    ASSUME NEW r \in Repo, NEW e \in Epoch, IInv, EnsureWorkspace(r, e)
    PROVE  IInv'
<1> USE StoreAssumption DEF IInv, Slot, Workspace, Epoch, Gen, Exists, Incomplete, Readable,
            Lifecycle
<1>1. TypeOK'
  <2> DEFINE stored == IF r \in registered THEN repoEpoch[r] ELSE e
  <2>1. stored \in Epoch
    BY DEF TypeOK
  <2>2. \/ UNCHANGED <<slotOwner, slotRepo, slotEpoch>>
        \/ /\ slotOwner' = [slotOwner EXCEPT ![r] = r]
           /\ slotRepo' = [slotRepo EXCEPT ![r] = r]
           /\ slotEpoch' = [slotEpoch EXCEPT ![r] = stored]
    BY DEF EnsureWorkspace, slotVars
  <2> HIDE DEF stored
  <2>3. /\ slotOwner' \in [Slot -> Workspace \cup {None}]
        /\ slotRepo' \in [Slot -> Repo \cup {None}]
        /\ slotEpoch' \in [Slot -> Epoch]
    <3>1. CASE UNCHANGED <<slotOwner, slotRepo, slotEpoch>>
      BY <3>1 DEF TypeOK
    <3>2. CASE /\ slotOwner' = [slotOwner EXCEPT ![r] = r]
               /\ slotRepo' = [slotRepo EXCEPT ![r] = r]
               /\ slotEpoch' = [slotEpoch EXCEPT ![r] = stored]
      BY <2>1, <3>2 DEF TypeOK
    <3> QED BY <2>2, <3>1, <3>2
  <2>4. registered' \in SUBSET Repo /\ repoEpoch' \in [Repo -> Epoch]
    BY <2>1 DEF EnsureWorkspace, TypeOK, stored
  <2> QED BY <2>3, <2>4 DEF EnsureWorkspace, TypeOK, genVars, viewVars
<1>2. SlotInv'
  <2>1. registered' = registered \cup {r}
    BY DEF EnsureWorkspace
  <2>2. \/ UNCHANGED <<slotOwner, slotRepo>>
        \/ /\ slotOwner' = [slotOwner EXCEPT ![r] = r]
           /\ slotRepo' = [slotRepo EXCEPT ![r] = r]
    BY DEF EnsureWorkspace, slotVars
  <2>3. CASE UNCHANGED <<slotOwner, slotRepo>>
    BY <2>1, <2>3 DEF SlotInv, TypeOK
  <2>4. CASE /\ slotOwner' = [slotOwner EXCEPT ![r] = r]
             /\ slotRepo' = [slotRepo EXCEPT ![r] = r]
    BY <2>1, <2>4 DEF SlotInv, TypeOK
  <2> QED BY <2>2, <2>3, <2>4
<1>3. DefaultSlotAgrees'
  BY DEF EnsureWorkspace, slotVars, TypeOK, DefaultSlotAgrees
<1>4. GenInv'
  BY DEF EnsureWorkspace, genVars, GenInv
<1>5. ReceiptInv'
  <2>1. ASSUME NEW s_1 \in Slot, NEW e_1 \in Epoch, receipt'[s_1][e_1] # 0
        PROVE  /\ e_1 <= slotEpoch'[s_1]
               /\ slotOwner'[s_1] # None
               /\ Exists(receipt[s_1][e_1])'
               /\ genRepo'[receipt'[s_1][e_1]] = slotRepo'[s_1]
    <3>1. slotOwner[s_1] # None
      BY <2>1, ReceiptFacts DEF EnsureWorkspace
    <3>2. /\ slotOwner'[s_1] = slotOwner[s_1]
          /\ slotRepo'[s_1] = slotRepo[s_1]
          /\ slotEpoch'[s_1] = slotEpoch[s_1]
      BY <3>1 DEF EnsureWorkspace, slotVars, TypeOK
    <3> QED BY <2>1, <3>1, <3>2, ReceiptFacts DEF EnsureWorkspace, genVars
  <2>2. ASSUME NEW s_1 \in Slot, receipt'[s_1][slotEpoch'[s_1]] # 0
        PROVE  lifecycle'[receipt'[s_1][slotEpoch'[s_1]]] \in Readable
    <3>1. slotEpoch'[s_1] \in Epoch
      BY <1>1 DEF TypeOK
    <3>2. slotOwner[s_1] # None
      BY <2>2, <3>1, ReceiptFacts DEF EnsureWorkspace
    <3>3. slotEpoch'[s_1] = slotEpoch[s_1]
      BY <3>2 DEF EnsureWorkspace, slotVars, TypeOK
    <3> QED BY <2>2, <3>3, CurrentReceiptFacts DEF EnsureWorkspace, genVars
  <2> QED BY <2>1, <2>2 DEF ReceiptInv
<1>6. ViewInv'
  <2> SUFFICES ASSUME NEW v \in views', NEW s_1 \in Slot, v.gen[s_1] # 0
               PROVE  /\ slotOwner'[s_1] = v.workspace
                      /\ v.epoch[s_1] <= slotEpoch'[s_1]
                      /\ receipt'[s_1][v.epoch[s_1]] = v.gen[s_1]
    BY DEF ViewInv

  <2>1. /\ v \in views /\ v \in View
        /\ v.workspace \in Workspace /\ v.epoch[s_1] \in Epoch
        /\ slotOwner[s_1] = v.workspace
        /\ v.epoch[s_1] <= slotEpoch[s_1]
        /\ receipt[s_1][v.epoch[s_1]] = v.gen[s_1]
    BY ViewTyping DEF EnsureWorkspace, viewVars, ViewInv, TypeOK
  <2>2. slotOwner[s_1] # None
    BY <2>1
  <2>3. slotOwner'[s_1] = slotOwner[s_1] /\ slotEpoch'[s_1] = slotEpoch[s_1]
    BY <2>2 DEF EnsureWorkspace, slotVars, TypeOK
  <2> QED BY <2>1, <2>3 DEF EnsureWorkspace
<1>7. ActiveViewInv'
  <2> SUFFICES ASSUME NEW w_1 \in Workspace, activeView'[w_1] # None
               PROVE  /\ activeView'[w_1] \in views'
                      /\ activeView'[w_1].workspace = w_1
                      /\ SlotsOf(w_1)' # {}
                      /\ \A s_1 \in SlotsOf(w_1)' :
                            /\ activeView'[w_1].gen[s_1] # 0
                            /\ lifecycle'[activeView'[w_1].gen[s_1]] \in Readable
    BY DEF ActiveViewInv
  <2>1. activeView'[w_1] \in views' /\ activeView'[w_1].workspace = w_1
    BY DEF EnsureWorkspace, Idle, Published, genVars, slotVars, viewVars, TypeOK, ActiveViewInv, SlotInv, DefaultSlotAgrees
  <2>2. SlotsOf(w_1)' # {}
    BY DEF EnsureWorkspace, Idle, Published, genVars, slotVars, viewVars, TypeOK, ActiveViewInv, SlotsOf, SlotInv, DefaultSlotAgrees
  <2>3. ASSUME NEW s_1 \in SlotsOf(w_1)'
        PROVE  /\ activeView'[w_1].gen[s_1] # 0
               /\ lifecycle'[activeView'[w_1].gen[s_1]] \in Readable
    BY <2>3, ViewTyping DEF EnsureWorkspace, Idle, Published, genVars, slotVars, viewVars, TypeOK, ActiveViewInv, SlotsOf, SlotInv, DefaultSlotAgrees
  <2> QED BY <2>1, <2>2, <2>3
<1>8. StagingInv' /\ IdsFollowEpochs' /\ OneActiveGeneration' /\ ActiveInv' /\
     PointerMatchesDefaultView'
  BY DEF EnsureWorkspace, genVars, viewVars, StagingInv, IdsFollowEpochs,
       OneActiveGeneration, ActiveInv, PointerMatchesDefaultView
<1> QED BY <1>1, <1>2, <1>3, <1>4, <1>5, <1>6, <1>7, <1>8

(* Remapping touches only slots of a workspace that was never published.   *)
LEMMA ConnectWorkspaceStep ==
    ASSUME NEW w \in ConfiguredWorkspace, NEW d \in SUBSET ConfiguredSlot,
           NEW mapping \in [d -> Repo], IInv, ConnectWorkspace(w, mapping)
    PROVE  IInv'
<1> USE StoreAssumption DEF IInv, Slot, Workspace, Epoch, Gen, Exists, Incomplete, Readable,
            Lifecycle
<1>1. TypeOK'
  BY DEF ConnectWorkspace, Idle, Published, genVars, slotVars, viewVars, TypeOK,
       StagingInv, GenInv
<1>2. SlotInv'
  BY DEF ConnectWorkspace, SlotInv
<1>3. DefaultSlotAgrees'
  BY DEF ConnectWorkspace, TypeOK, DefaultSlotAgrees, SlotsOf
<1>4. ActiveInv'
  <2>1. \A r \in Repo : receipt'[r] = receipt[r]
    <3> SUFFICES ASSUME NEW r \in Repo
                 PROVE  receipt'[r] = receipt[r]
      OBVIOUS
    <3>1. slotOwner[r] # w
      BY DEF SlotInv
    <3> QED BY <3>1 DEF ConnectWorkspace, SlotsOf
  <2> QED BY <2>1 DEF ConnectWorkspace, genVars, ActiveInv
<1>5. ReceiptInv'
  <2>1. ASSUME NEW s \in Slot, NEW e \in Epoch, receipt'[s][e] # 0
        PROVE  /\ e <= slotEpoch'[s]
               /\ slotOwner'[s] # None
               /\ Exists(receipt[s][e])'
               /\ genRepo'[receipt'[s][e]] = slotRepo'[s]
    BY <2>1 DEF ConnectWorkspace, Idle, SlotsOf, genVars, slotVars, viewVars, TypeOK, ReceiptInv, StagingInv, GenInv, SlotInv, DefaultSlotAgrees
  <2>2. ASSUME NEW s \in Slot, receipt'[s][slotEpoch'[s]] # 0
        PROVE  lifecycle'[receipt'[s][slotEpoch'[s]]] \in Readable
    BY <2>2 DEF ConnectWorkspace, Idle, SlotsOf, genVars, slotVars, viewVars, TypeOK, ReceiptInv, StagingInv, GenInv, SlotInv, DefaultSlotAgrees
  <2> QED BY <2>1, <2>2 DEF ReceiptInv
<1>6. ViewInv'
  <2> SUFFICES ASSUME NEW v \in views', NEW s_1 \in Slot, v.gen[s_1] # 0
               PROVE  /\ slotOwner'[s_1] = v.workspace
                      /\ v.epoch[s_1] <= slotEpoch'[s_1]
                      /\ receipt'[s_1][v.epoch[s_1]] = v.gen[s_1]
    BY DEF ViewInv

  <2>1. /\ v \in views /\ v \in View
        /\ v.workspace \in Workspace /\ v.epoch[s_1] \in Epoch
        /\ slotOwner[s_1] = v.workspace
        /\ v.epoch[s_1] <= slotEpoch[s_1]
        /\ receipt[s_1][v.epoch[s_1]] = v.gen[s_1]
    BY ViewTyping DEF ConnectWorkspace, viewVars, ViewInv, TypeOK
  <2>2. slotOwner[s_1] \notin {None, w}
    BY <2>1 DEF ConnectWorkspace, Published
  <2>3. /\ slotOwner'[s_1] = slotOwner[s_1]
        /\ slotEpoch'[s_1] = slotEpoch[s_1]
        /\ receipt'[s_1] = receipt[s_1]
    BY <2>2 DEF ConnectWorkspace, SlotsOf, TypeOK
  <2> QED BY <2>1, <2>3
<1>7. ActiveViewInv'
  <2> SUFFICES ASSUME NEW w_1 \in Workspace, activeView'[w_1] # None
               PROVE  /\ activeView'[w_1] \in views'
                      /\ activeView'[w_1].workspace = w_1
                      /\ SlotsOf(w_1)' # {}
                      /\ \A s_1 \in SlotsOf(w_1)' :
                            /\ activeView'[w_1].gen[s_1] # 0
                            /\ lifecycle'[activeView'[w_1].gen[s_1]] \in Readable
    BY DEF ActiveViewInv
  <2>1. activeView'[w_1] \in views' /\ activeView'[w_1].workspace = w_1
    BY DEF ConnectWorkspace, Idle, Published, genVars, slotVars, viewVars, TypeOK, ActiveViewInv, SlotInv
  <2>2. SlotsOf(w_1)' # {}
    <3>1. w_1 # w /\ SlotsOf(w_1) # {}
      BY DEF ConnectWorkspace, Published, viewVars, ActiveViewInv
    <3>2. PICK s_1 \in Slot : slotOwner[s_1] = w_1
      BY <3>1 DEF SlotsOf
    <3>3. slotOwner'[s_1] = w_1
      BY <3>1, <3>2 DEF ConnectWorkspace, SlotsOf, TypeOK
    <3> QED BY <3>3 DEF SlotsOf
  <2>3. ASSUME NEW s_1 \in SlotsOf(w_1)'
        PROVE  /\ activeView'[w_1].gen[s_1] # 0
               /\ lifecycle'[activeView'[w_1].gen[s_1]] \in Readable
    BY <2>3, ViewTyping DEF ConnectWorkspace, Idle, Published, genVars, slotVars, viewVars, TypeOK, ActiveViewInv, SlotsOf, SlotInv
  <2> QED BY <2>1, <2>2, <2>3
<1>8. GenInv' /\ StagingInv' /\ IdsFollowEpochs' /\ OneActiveGeneration' /\
     PointerMatchesDefaultView'
  BY DEF ConnectWorkspace, genVars, viewVars, GenInv, StagingInv, IdsFollowEpochs,
       OneActiveGeneration, PointerMatchesDefaultView
<1> QED BY <1>1, <1>2, <1>3, <1>4, <1>5, <1>6, <1>7, <1>8

(* The successor epoch has no receipt yet.                                 *)
LEMMA AdvanceSourceEpochStep ==
    ASSUME NEW r \in Repo, IInv, AdvanceSourceEpoch(r)
    PROVE  IInv'
<1> USE StoreAssumption DEF IInv, Slot, Workspace, Epoch, Gen, Exists, Incomplete, Readable,
            Lifecycle
<1>1. TypeOK'
  BY DEF AdvanceSourceEpoch, genVars, viewVars, TypeOK, HasSuccessor
<1>2. DefaultSlotAgrees'
  BY DEF AdvanceSourceEpoch, TypeOK, DefaultSlotAgrees
<1>3. GenInv'
  BY DEF AdvanceSourceEpoch, genVars, TypeOK, GenInv
<1>4. ReceiptInv'
  <2>1. ASSUME NEW s_1 \in Slot, NEW e_1 \in Epoch, receipt'[s_1][e_1] # 0
        PROVE  /\ e_1 <= slotEpoch'[s_1]
               /\ slotOwner'[s_1] # None
               /\ Exists(receipt[s_1][e_1])'
               /\ genRepo'[receipt'[s_1][e_1]] = slotRepo'[s_1]
    <3>1. /\ lifecycle' = lifecycle /\ genRepo' = genRepo /\ receipt' = receipt
          /\ slotOwner' = slotOwner /\ slotRepo' = slotRepo
      BY DEF AdvanceSourceEpoch, genVars
    <3>2. slotEpoch[s_1] <= slotEpoch'[s_1] /\ slotEpoch[s_1] \in Nat /\ slotEpoch'[s_1] \in Nat
      BY DEF AdvanceSourceEpoch, TypeOK
    <3> QED BY <2>1, <3>1, <3>2, ReceiptFacts
  <2>2. ASSUME NEW s_1 \in Slot, receipt'[s_1][slotEpoch'[s_1]] # 0
        PROVE  lifecycle'[receipt'[s_1][slotEpoch'[s_1]]] \in Readable
    <3>1. CASE s_1 = r
      <4>1. slotEpoch'[s_1] = slotEpoch[s_1] + 1 /\ slotEpoch'[s_1] \in Epoch
        BY <3>1, <1>1 DEF AdvanceSourceEpoch, HasSuccessor, TypeOK
      <4>2. slotEpoch'[s_1] <= slotEpoch[s_1]
        BY <2>2, <4>1, ReceiptFacts DEF AdvanceSourceEpoch
      <4> QED BY <4>1, <4>2 DEF TypeOK
    <3>2. CASE s_1 # r
      <4>1. slotEpoch'[s_1] = slotEpoch[s_1]
        BY <3>2 DEF AdvanceSourceEpoch, TypeOK
      <4> QED BY <2>2, <4>1, CurrentReceiptFacts DEF AdvanceSourceEpoch, genVars
    <3> QED BY <3>1, <3>2
  <2> QED BY <2>1, <2>2 DEF ReceiptInv
<1>5. ViewInv'
  <2> SUFFICES ASSUME NEW v \in views', NEW s \in Slot, v.gen[s] # 0
               PROVE  /\ slotOwner'[s] = v.workspace
                      /\ v.epoch[s] <= slotEpoch'[s]
                      /\ receipt'[s][v.epoch[s]] = v.gen[s]
    BY DEF ViewInv
  <2>1. v \in views /\ v \in View /\ v.epoch[s] \in Epoch
    BY ViewTyping DEF AdvanceSourceEpoch, viewVars, TypeOK
  <2>2. slotEpoch[s] <= slotEpoch'[s] /\ slotEpoch[s] \in Nat /\ slotEpoch'[s] \in Nat
    BY DEF AdvanceSourceEpoch, TypeOK, DefaultSlotAgrees
  <2> QED BY <2>1, <2>2 DEF AdvanceSourceEpoch, ViewInv
<1>6. SlotInv' /\ StagingInv' /\ IdsFollowEpochs' /\ OneActiveGeneration' /\ ActiveInv'
     /\ ActiveViewInv' /\ PointerMatchesDefaultView'
  BY DEF AdvanceSourceEpoch, genVars, viewVars, SlotInv, StagingInv, IdsFollowEpochs,
       OneActiveGeneration, ActiveInv, ActiveViewInv, PointerMatchesDefaultView, SlotsOf
<1> QED BY <1>1, <1>2, <1>3, <1>4, <1>5, <1>6

(* The same for a reservation, of a default or a configured slot.          *)
LEMMA ReserveSourceSlotEpochStep ==
    ASSUME NEW s \in Slot, NEW e \in Epoch, IInv, ReserveSourceSlotEpoch(s, e)
    PROVE  IInv'
<1> USE StoreAssumption DEF IInv, Slot, Workspace, Epoch, Gen, Exists, Incomplete, Readable,
            Lifecycle
<1>1. TypeOK'
  BY DEF ReserveSourceSlotEpoch, Idle, HasSuccessor, ReservedRepoEpoch, genVars,
       slotVars, viewVars, TypeOK, StagingInv, GenInv
<1>2. DefaultSlotAgrees'
  BY DEF ReserveSourceSlotEpoch, TypeOK, DefaultSlotAgrees, ReservedRepoEpoch
<1>3. GenInv'
  BY DEF ReserveSourceSlotEpoch, genVars, TypeOK, GenInv, ReservedRepoEpoch
<1>4. ReceiptInv'
  <2>1. ASSUME NEW s_1 \in Slot, NEW e_1 \in Epoch, receipt'[s_1][e_1] # 0
        PROVE  /\ e_1 <= slotEpoch'[s_1]
               /\ slotOwner'[s_1] # None
               /\ Exists(receipt[s_1][e_1])'
               /\ genRepo'[receipt'[s_1][e_1]] = slotRepo'[s_1]
    BY <2>1, ReceiptFacts DEF ReserveSourceSlotEpoch, genVars, slotVars, viewVars, TypeOK
  <2>2. ASSUME NEW s_1 \in Slot, receipt'[s_1][slotEpoch'[s_1]] # 0
        PROVE  lifecycle'[receipt'[s_1][slotEpoch'[s_1]]] \in Readable
    <3>1. CASE s_1 = s
      <4>1. slotEpoch'[s_1] = slotEpoch[s_1] + 1 /\ slotEpoch'[s_1] \in Epoch
        BY <3>1, <1>1 DEF ReserveSourceSlotEpoch, HasSuccessor, TypeOK
      <4>2. slotEpoch'[s_1] <= slotEpoch[s_1]
        BY <2>2, <4>1, ReceiptFacts DEF ReserveSourceSlotEpoch
      <4> QED BY <4>1, <4>2 DEF TypeOK
    <3>2. CASE s_1 # s
      <4>1. slotEpoch'[s_1] = slotEpoch[s_1]
        BY <3>2 DEF ReserveSourceSlotEpoch, TypeOK
      <4> QED BY <2>2, <4>1, CurrentReceiptFacts DEF ReserveSourceSlotEpoch, genVars
    <3> QED BY <3>1, <3>2
  <2> QED BY <2>1, <2>2 DEF ReceiptInv
<1>5. ViewInv'
  <2> SUFFICES ASSUME NEW v \in views', NEW s_1 \in Slot, v.gen[s_1] # 0
               PROVE  /\ slotOwner'[s_1] = v.workspace
                      /\ v.epoch[s_1] <= slotEpoch'[s_1]
                      /\ receipt'[s_1][v.epoch[s_1]] = v.gen[s_1]
    BY DEF ViewInv

  <2>1. /\ v \in views /\ v \in View
        /\ v.epoch[s_1] \in Epoch
        /\ slotOwner[s_1] = v.workspace
        /\ v.epoch[s_1] <= slotEpoch[s_1]
        /\ receipt[s_1][v.epoch[s_1]] = v.gen[s_1]
    BY ViewTyping DEF ReserveSourceSlotEpoch, viewVars, ViewInv, TypeOK
  <2>2. slotEpoch[s_1] <= slotEpoch'[s_1]
    BY DEF ReserveSourceSlotEpoch, TypeOK
  <2>3. slotEpoch[s_1] \in Epoch /\ slotEpoch'[s_1] \in Epoch
    BY <1>1 DEF TypeOK
  <2> QED BY <2>1, <2>2, <2>3 DEF ReserveSourceSlotEpoch
<1>6. SlotInv' /\ StagingInv' /\ IdsFollowEpochs' /\ OneActiveGeneration' /\ ActiveInv'
     /\ ActiveViewInv' /\ PointerMatchesDefaultView'
  BY DEF ReserveSourceSlotEpoch, genVars, viewVars, SlotInv, StagingInv,
       IdsFollowEpochs, OneActiveGeneration, ActiveInv, ActiveViewInv,
       PointerMatchesDefaultView, SlotsOf
<1> QED BY <1>1, <1>2, <1>3, <1>4, <1>5, <1>6

(* A new generation gets an id above every id and an epoch no older than   *)
(* any epoch of its repository.                                            *)
LEMMA CreateGenerationStep ==
    ASSUME NEW r \in registered, NEW g \in Gen, Idle, IInv, CreateGeneration(r, g)
    PROVE  IInv'
<1> USE StoreAssumption DEF IInv, Slot, Workspace, Epoch, Gen, Exists, Incomplete, Readable,
            Lifecycle
<1>1. TypeOK'
  BY DEF CreateGeneration, slotVars, viewVars, TypeOK
<1>2. GenInv'
  BY DEF CreateGeneration, TypeOK, GenInv, DefaultSlotAgrees
<1>3. StagingInv'
  BY DEF CreateGeneration, TypeOK, StagingInv, Idle
<1>4. IdsFollowEpochs'
  BY DEF CreateGeneration, NextRowId, TypeOK, IdsFollowEpochs, GenInv, ReceiptInv,
       DefaultSlotAgrees
<1>5. OneActiveGeneration'
  <2>1. lifecycle[g] = "absent" /\ lifecycle'[g] = "discovered"
    BY DEF CreateGeneration, NextRowId, GenInv, TypeOK
  <2>2. activeGen' = activeGen
    BY DEF CreateGeneration
  <2>3. \A h \in Gen : h # g => lifecycle'[h] = lifecycle[h] /\ genRepo'[h] = genRepo[h]
    BY DEF CreateGeneration, TypeOK
  <2>4. ASSUME NEW q \in Repo, activeGen'[q] # 0
        PROVE  lifecycle'[activeGen'[q]] = "active" /\ genRepo'[activeGen'[q]] = q
    <3>1. activeGen[q] \in Gen /\ activeGen[q] # g
      BY <2>1, <2>2, <2>4 DEF OneActiveGeneration, TypeOK
    <3> QED BY <2>2, <2>3, <2>4, <3>1 DEF OneActiveGeneration
  <2>5. ASSUME NEW h \in Gen, lifecycle'[h] = "active"
        PROVE  genRepo'[h] # None /\ activeGen'[genRepo'[h]] = h
    <3>1. h # g
      BY <2>1, <2>5
    <3> QED BY <2>2, <2>3, <2>5, <3>1 DEF OneActiveGeneration
  <2> QED BY <2>4, <2>5 DEF OneActiveGeneration
<1>6. ActiveInv'
  <2>1. lifecycle[g] = "absent"
    BY DEF CreateGeneration, NextRowId, GenInv
  <2>2. ASSUME NEW q \in Repo, activeGen'[q] # 0
        PROVE  receipt'[q][genEpoch'[activeGen'[q]]] = activeGen'[q]
    <3>1. activeGen[q] \in Gen /\ activeGen[q] # g
      BY <2>1, <2>2 DEF CreateGeneration, TypeOK, OneActiveGeneration
    <3> QED BY <2>2, <3>1 DEF CreateGeneration, TypeOK, ActiveInv
  <2>3. ASSUME NEW h \in Gen, lifecycle'[h] = "retained"
        PROVE  h < activeGen'[genRepo'[h]]
    <3>1. h # g /\ lifecycle[h] = "retained"
      BY <2>3 DEF CreateGeneration, TypeOK
    <3> QED BY <3>1 DEF CreateGeneration, TypeOK, ActiveInv
  <2> QED BY <2>2, <2>3 DEF ActiveInv
<1>7. ReceiptInv'
  <2>1. lifecycle[g] = "absent" /\ g \in Gen
    BY DEF CreateGeneration, NextRowId, GenInv
  <2>2. ASSUME NEW s \in Slot, NEW e \in Epoch, receipt'[s][e] # 0
        PROVE  /\ e <= slotEpoch'[s]
               /\ slotOwner'[s] # None
               /\ lifecycle'[receipt'[s][e]] # "absent"
               /\ genRepo'[receipt'[s][e]] = slotRepo'[s]
    <3>1. receipt[s][e] \in Gen /\ receipt[s][e] # g
      BY <2>1, <2>2, ReceiptFacts DEF CreateGeneration
    <3>2. /\ receipt' = receipt /\ slotEpoch' = slotEpoch /\ slotOwner' = slotOwner
          /\ slotRepo' = slotRepo
      BY DEF CreateGeneration, slotVars
    <3>3. \A h \in Gen : h # g => lifecycle'[h] = lifecycle[h] /\ genRepo'[h] = genRepo[h]
      BY DEF CreateGeneration, TypeOK
    <3> QED BY <2>2, <3>1, <3>2, <3>3, ReceiptFacts
  <2>3. ASSUME NEW s \in Slot, receipt'[s][slotEpoch'[s]] # 0
        PROVE  lifecycle'[receipt'[s][slotEpoch'[s]]] \in Readable
    <3>1. receipt'[s][slotEpoch'[s]] = receipt[s][slotEpoch[s]]
      BY DEF CreateGeneration, slotVars
    <3>2. receipt[s][slotEpoch[s]] \in Gen /\ lifecycle[receipt[s][slotEpoch[s]]] \in Readable
      BY <2>3, <3>1, CurrentReceiptFacts
    <3> QED BY <2>1, <3>1, <3>2 DEF CreateGeneration, TypeOK
  <2> QED BY <2>2, <2>3 DEF ReceiptInv
<1>8. ActiveViewInv'
  <2>1. viewVars' = viewVars /\ slotVars' = slotVars
    BY DEF CreateGeneration, viewVars, slotVars
  <2>2. ASSUME NEW h \in Gen, lifecycle[h] \in Readable PROVE lifecycle'[h] \in Readable
    <3>1. h # g
      BY <2>2 DEF CreateGeneration, NextRowId, GenInv
    <3> QED BY <2>2, <3>1 DEF CreateGeneration, TypeOK
  <2> QED BY <2>1, <2>2, ActiveViewsKept
<1>9. SlotInv' /\ DefaultSlotAgrees' /\ ViewInv' /\ PointerMatchesDefaultView'
  BY DEF CreateGeneration, slotVars, viewVars, SlotInv, DefaultSlotAgrees, ViewInv,
       PointerMatchesDefaultView
<1> QED BY <1>1, <1>2, <1>3, <1>4, <1>5, <1>6, <1>7, <1>8, <1>9

(* Staging moves only a generation nobody can see.                         *)
LEMMA StageAdvanceStep ==
    ASSUME IInv, StageAdvance
    PROVE  IInv'
<1> USE StoreAssumption DEF IInv, Slot, Workspace, Epoch, Gen, Exists, Incomplete, Readable,
            Lifecycle
<1>1. TypeOK'
  <2>1. staging \in Gen /\ lifecycle[staging] \in Incomplete
    BY DEF StageAdvance, TypeOK, StagingInv
  <2>2. StagingSuccessor[lifecycle[staging]] \in Lifecycle
    BY <2>1 DEF StagingSuccessor
  <2>3. lifecycle' \in [Gen -> Lifecycle] /\ staging' \in Gen \cup {0}
    BY <2>1, <2>2 DEF StageAdvance, TypeOK
  <2> QED BY <2>3 DEF StageAdvance, slotVars, viewVars, TypeOK
<1>2. GenInv'
  BY DEF StageAdvance, StagingSuccessor, genVars, slotVars, viewVars, TypeOK, GenInv,
       SlotInv, ReceiptInv, OneActiveGeneration, StagingInv, DefaultSlotAgrees
<1>3. StagingInv'
  BY DEF StageAdvance, StagingSuccessor, StagingInv
<1>4. IdsFollowEpochs'
  BY DEF StageAdvance, TypeOK, IdsFollowEpochs, GenInv
<1>5. OneActiveGeneration'
  BY DEF StageAdvance, StagingSuccessor, OneActiveGeneration, ReceiptInv, StagingInv,
       DefaultSlotAgrees
<1>6. ActiveInv'
  BY DEF StageAdvance, StagingSuccessor, ActiveInv, StagingInv
<1>7. ReceiptInv'
  <2>1. ASSUME NEW s_1 \in Slot, NEW e_1 \in Epoch, receipt'[s_1][e_1] # 0
        PROVE  /\ e_1 <= slotEpoch'[s_1]
               /\ slotOwner'[s_1] # None
               /\ Exists(receipt[s_1][e_1])'
               /\ genRepo'[receipt'[s_1][e_1]] = slotRepo'[s_1]
    <3> DEFINE h == receipt[s_1][e_1]
    <3>1. /\ h \in Gen
          /\ e_1 <= slotEpoch[s_1]
          /\ slotOwner[s_1] # None
          /\ lifecycle[h] # "absent"
          /\ genRepo[h] = slotRepo[s_1]
      BY <2>1, ReceiptFacts DEF StageAdvance, genVars, slotVars, viewVars
    <3>2. lifecycle'[h] # "absent"
      BY <3>1 DEF StageAdvance, StagingSuccessor, TypeOK, StagingInv
    <3> QED BY <2>1, <3>1, <3>2 DEF StageAdvance, genVars, slotVars, viewVars
  <2>2. ASSUME NEW s_1 \in Slot, receipt'[s_1][slotEpoch'[s_1]] # 0
        PROVE  lifecycle'[receipt'[s_1][slotEpoch'[s_1]]] \in Readable
    <3> DEFINE h == receipt[s_1][slotEpoch[s_1]]
    <3>1. h \in Gen /\ lifecycle[h] \in Readable
      BY <2>2, CurrentReceiptFacts DEF StageAdvance, genVars, slotVars, viewVars
    <3>2. h # staging
      BY <3>1 DEF StageAdvance, StagingInv
    <3> QED BY <3>1, <3>2 DEF StageAdvance, StagingSuccessor, genVars, slotVars, viewVars, TypeOK
  <2> QED BY <2>1, <2>2 DEF ReceiptInv
<1>8. ActiveViewInv'
  <2>1. viewVars' = viewVars /\ slotVars' = slotVars
    BY DEF StageAdvance, viewVars, slotVars
  <2>2. ASSUME NEW h \in Gen, lifecycle[h] \in Readable PROVE lifecycle'[h] \in Readable
    <3>1. h # staging
      BY <2>2 DEF StageAdvance, StagingInv
    <3> QED BY <2>2, <3>1 DEF StageAdvance, TypeOK
  <2> QED BY <2>1, <2>2, ActiveViewsKept
<1>9. SlotInv' /\ DefaultSlotAgrees' /\ ViewInv' /\ PointerMatchesDefaultView'
  BY DEF StageAdvance, slotVars, viewVars, SlotInv, DefaultSlotAgrees, ViewInv,
       PointerMatchesDefaultView
<1> QED BY <1>1, <1>2, <1>3, <1>4, <1>5, <1>6, <1>7, <1>8, <1>9

(* So does abandoning it.                                                  *)
LEMMA StageAbortStep ==
    ASSUME NEW outcome \in Lifecycle, IInv, StageAbort(outcome)
    PROVE  IInv'
<1> USE StoreAssumption DEF IInv, Slot, Workspace, Epoch, Gen, Exists, Incomplete, Readable,
            Lifecycle
<1>1. TypeOK'
  BY DEF StageAbort, slotVars, viewVars, TypeOK
<1>2. GenInv'
  BY DEF StageAbort, GenInv, OneActiveGeneration, StagingInv, DefaultSlotAgrees
<1>3. StagingInv'
  BY DEF StageAbort, StagingInv
<1>4. IdsFollowEpochs'
  BY DEF StageAbort, TypeOK, IdsFollowEpochs, GenInv
<1>5. OneActiveGeneration'
  <2>1. lifecycle[staging] \in Incomplete /\ lifecycle'[staging] # "active"
    BY DEF StageAbort, TypeOK, StagingInv
  <2>2. genRepo' = genRepo /\ activeGen' = activeGen
    BY DEF StageAbort
  <2>3. \A h \in Gen : h # staging => lifecycle'[h] = lifecycle[h]
    BY DEF StageAbort, TypeOK
  <2> QED BY <2>1, <2>2, <2>3 DEF OneActiveGeneration, TypeOK
<1>6. ActiveInv'
  BY DEF StageAbort, ActiveInv
<1>7. ReceiptInv'
  <2>1. ASSUME NEW s_1 \in Slot, NEW e_1 \in Epoch, receipt'[s_1][e_1] # 0
        PROVE  /\ e_1 <= slotEpoch'[s_1]
               /\ slotOwner'[s_1] # None
               /\ Exists(receipt[s_1][e_1])'
               /\ genRepo'[receipt'[s_1][e_1]] = slotRepo'[s_1]
    <3> DEFINE h == receipt[s_1][e_1]
    <3>1. /\ h \in Gen
          /\ e_1 <= slotEpoch[s_1]
          /\ slotOwner[s_1] # None
          /\ lifecycle[h] # "absent"
          /\ genRepo[h] = slotRepo[s_1]
      BY <2>1, ReceiptFacts DEF StageAbort, genVars, slotVars, viewVars
    <3>2. lifecycle'[h] # "absent"
      BY <3>1 DEF StageAbort, TypeOK, StagingInv
    <3> QED BY <2>1, <3>1, <3>2 DEF StageAbort, genVars, slotVars, viewVars
  <2>2. ASSUME NEW s_1 \in Slot, receipt'[s_1][slotEpoch'[s_1]] # 0
        PROVE  lifecycle'[receipt'[s_1][slotEpoch'[s_1]]] \in Readable
    <3> DEFINE h == receipt[s_1][slotEpoch[s_1]]
    <3>1. h \in Gen /\ lifecycle[h] \in Readable
      BY <2>2, CurrentReceiptFacts DEF StageAbort, genVars, slotVars, viewVars
    <3>2. h # staging
      BY <3>1 DEF StageAbort, StagingInv
    <3> QED BY <3>1, <3>2 DEF StageAbort, genVars, slotVars, viewVars, TypeOK
  <2> QED BY <2>1, <2>2 DEF ReceiptInv
<1>8. ActiveViewInv'
  <2>1. viewVars' = viewVars /\ slotVars' = slotVars
    BY DEF StageAbort, viewVars, slotVars
  <2>2. ASSUME NEW h \in Gen, lifecycle[h] \in Readable PROVE lifecycle'[h] \in Readable
    <3>1. h # staging
      BY <2>2 DEF StageAbort, StagingInv
    <3> QED BY <2>2, <3>1 DEF StageAbort, TypeOK
  <2> QED BY <2>1, <2>2, ActiveViewsKept
<1>9. SlotInv' /\ DefaultSlotAgrees' /\ ViewInv' /\ PointerMatchesDefaultView'
  BY DEF StageAbort, slotVars, viewVars, SlotInv, DefaultSlotAgrees, ViewInv,
       PointerMatchesDefaultView
<1> QED BY <1>1, <1>2, <1>3, <1>4, <1>5, <1>6, <1>7, <1>8, <1>9

(* A generation whose artifacts fail has no receipt, so no view shows it.   *)
LEMMA StageArtifactsFailedStep ==
    ASSUME NEW g \in Gen, NEW outcome \in Lifecycle, IInv, StageArtifactsFailed(g, outcome)
    PROVE  IInv'
<1> USE StoreAssumption DEF IInv, Slot, Workspace, Epoch, Gen, Exists, Incomplete, Readable,
            Lifecycle
<1>1. TypeOK'
  BY DEF StageArtifactsFailed, TypeOK, slotVars, viewVars
<1>2. GenInv'
  BY DEF StageArtifactsFailed, TypeOK, GenInv
<1>3. StagingInv'
  BY DEF StageArtifactsFailed, TypeOK, StagingInv, Idle
<1>4. IdsFollowEpochs'
  BY DEF StageArtifactsFailed, TypeOK, IdsFollowEpochs
<1>5. OneActiveGeneration'
  BY DEF StageArtifactsFailed, TypeOK, OneActiveGeneration
<1>6. ActiveInv'
  BY DEF StageArtifactsFailed, TypeOK, ActiveInv
<1>7. ReceiptInv'
  BY DEF StageArtifactsFailed, TypeOK, ReceiptInv, slotVars
<1>8. ActiveViewInv'
  <2>1. ASSUME NEW w \in Workspace, NEW s \in Slot, activeView[w] # None
        PROVE  activeView[w].gen[s] # g
    <3>1. activeView[w] \in views /\ activeView[w] \in View
      BY <2>1 DEF ActiveViewInv, TypeOK
    <3>2. activeView[w].epoch[s] \in Epoch
      BY <3>1, ViewTyping
    <3>3. activeView[w].gen[s] # 0 => receipt[s][activeView[w].epoch[s]] = activeView[w].gen[s]
      BY <3>1 DEF ViewInv
    <3> QED BY <3>2, <3>3 DEF StageArtifactsFailed
  <2>2. \A h \in Gen : h # g => lifecycle'[h] = lifecycle[h]
    BY DEF StageArtifactsFailed, TypeOK
  <2>3. \A w \in Workspace, s \in Slot : activeView[w] # None => activeView[w].gen[s] \in Gen \cup {0}
    BY ViewTyping DEF TypeOK
  <2>4. UNCHANGED <<activeView, views, slotOwner>>
    BY DEF StageArtifactsFailed, slotVars, viewVars
  <2> QED BY <2>1, <2>2, <2>3, <2>4 DEF ActiveViewInv, SlotsOf
<1>9. SlotInv' /\ DefaultSlotAgrees' /\ ViewInv' /\ PointerMatchesDefaultView'
  BY DEF StageArtifactsFailed, slotVars, viewVars, SlotInv, DefaultSlotAgrees, ViewInv,
       PointerMatchesDefaultView
<1> QED BY <1>1, <1>2, <1>3, <1>4, <1>5, <1>6, <1>7, <1>8, <1>9

(* A receipt is added only where none was.                                 *)
LEMMA CompleteStep ==
    ASSUME NEW s \in Slot, NEW e \in Epoch, NEW g \in Gen, IInv, CompleteSourceSlotEpoch(s, e, g)
    PROVE  IInv'
<1> USE StoreAssumption DEF IInv, Slot, Workspace, Epoch, Gen, Exists, Incomplete, Readable,
            Lifecycle
<1>1. TypeOK'
  BY DEF CompleteSourceSlotEpoch, genVars, slotVars, viewVars, TypeOK
<1>2. ActiveInv'
  BY DEF CompleteSourceSlotEpoch, genVars, ActiveInv, ReceiptAccepts
<1>3. ReceiptInv'
  <2> DEFINE new(t, i) == t = s /\ i = e
  <2>1. ASSUME NEW t \in Slot, NEW i \in Epoch
        PROVE  receipt'[t][i] = IF new(t, i) THEN g ELSE receipt[t][i]
    BY DEF CompleteSourceSlotEpoch, TypeOK
  <2>2. /\ lifecycle' = lifecycle /\ genRepo' = genRepo /\ slotEpoch' = slotEpoch
        /\ slotOwner' = slotOwner /\ slotRepo' = slotRepo
        /\ slotOwner[s] # None /\ slotEpoch[s] = e
        /\ lifecycle[g] \in Readable /\ genRepo[g] = slotRepo[s]
    BY DEF CompleteSourceSlotEpoch, genVars, slotVars
  <2>3. ASSUME NEW t \in Slot, NEW i \in Epoch, receipt'[t][i] # 0
        PROVE  /\ i <= slotEpoch'[t]
               /\ slotOwner'[t] # None
               /\ lifecycle'[receipt'[t][i]] # "absent"
               /\ genRepo'[receipt'[t][i]] = slotRepo'[t]
    <3>1. CASE new(t, i)
      BY <2>1, <2>2, <3>1
    <3>2. CASE ~new(t, i)
      BY <2>1, <2>2, <2>3, <3>2, ReceiptFacts
    <3> QED BY <3>1, <3>2
  <2>4. ASSUME NEW t \in Slot, receipt'[t][slotEpoch'[t]] # 0
        PROVE  lifecycle'[receipt'[t][slotEpoch'[t]]] \in Readable
    <3>1. slotEpoch[t] \in Epoch
      BY DEF TypeOK
    <3>2. CASE new(t, slotEpoch[t])
      BY <2>1, <2>2, <3>1, <3>2
    <3>3. CASE ~new(t, slotEpoch[t])
      BY <2>1, <2>2, <2>4, <3>1, <3>3, CurrentReceiptFacts
    <3> QED BY <3>2, <3>3
  <2> QED BY <2>3, <2>4 DEF ReceiptInv
<1>4. ViewInv'
  <2> SUFFICES ASSUME NEW v \in views', NEW t \in Slot, v.gen[t] # 0
               PROVE  /\ slotOwner'[t] = v.workspace
                      /\ v.epoch[t] <= slotEpoch'[t]
                      /\ receipt'[t][v.epoch[t]] = v.gen[t]
    BY DEF ViewInv
  <2>1. v \in views /\ v \in View /\ v.epoch[t] \in Epoch
    BY ViewTyping DEF CompleteSourceSlotEpoch, viewVars, TypeOK
  <2>2. receipt[t][v.epoch[t]] = v.gen[t]
    BY <2>1 DEF ViewInv
  <2>3. receipt'[t][v.epoch[t]] = v.gen[t]
    BY <2>1, <2>2 DEF CompleteSourceSlotEpoch, ReceiptAccepts, TypeOK
  <2> QED BY <2>1, <2>3 DEF CompleteSourceSlotEpoch, slotVars, ViewInv
<1>5. SlotInv' /\ DefaultSlotAgrees' /\ GenInv' /\ StagingInv' /\ IdsFollowEpochs' /\
     OneActiveGeneration' /\ ActiveViewInv' /\ PointerMatchesDefaultView'
  BY DEF CompleteSourceSlotEpoch, genVars, slotVars, viewVars, SlotInv,
       DefaultSlotAgrees, GenInv, StagingInv, IdsFollowEpochs, OneActiveGeneration,
       ActiveViewInv, PointerMatchesDefaultView, SlotsOf
<1> QED BY <1>1, <1>2, <1>3, <1>4, <1>5

(* A published view takes every slot at its current, completed epoch.      *)
LEMMA PublishStep ==
    ASSUME NEW w \in ConfiguredWorkspace, IInv, PublishWorkspaceView(w)
    PROVE  IInv'
<1> USE StoreAssumption DEF IInv, Slot, Workspace, Epoch, Gen, Exists, Incomplete, Readable,
            Lifecycle
<1>1. TypeOK'
  <2>1. \A s \in Slot : receipt[s][slotEpoch[s]] \in Gen \cup {0}
    BY DEF TypeOK
  <2>2. CurrentView(w) \in View
    BY <2>1 DEF CurrentView, View, TypeOK
  <2> QED BY <2>2 DEF PublishWorkspaceView, TypeOK, genVars, slotVars
<1>2. ViewInv'
  BY DEF PublishWorkspaceView, CurrentView, slotVars, TypeOK, ViewInv
<1>3. ActiveViewInv'
  <2> SUFFICES ASSUME NEW w_1 \in Workspace, activeView'[w_1] # None
               PROVE  /\ activeView'[w_1] \in views'
                      /\ activeView'[w_1].workspace = w_1
                      /\ SlotsOf(w_1)' # {}
                      /\ \A s_1 \in SlotsOf(w_1)' :
                            /\ activeView'[w_1].gen[s_1] # 0
                            /\ lifecycle'[activeView'[w_1].gen[s_1]] \in Readable
    BY DEF ActiveViewInv
  <2>1. activeView'[w_1] \in views' /\ activeView'[w_1].workspace = w_1
    BY DEF PublishWorkspaceView, Idle, EligibleMember, CurrentView, genVars, slotVars, viewVars, TypeOK, ActiveViewInv
  <2>2. SlotsOf(w_1)' # {}
    BY DEF PublishWorkspaceView, Idle, EligibleMember, CurrentView, genVars, slotVars, viewVars, TypeOK, ActiveViewInv, SlotsOf
  <2>3. ASSUME NEW s_1 \in SlotsOf(w_1)'
        PROVE  /\ activeView'[w_1].gen[s_1] # 0
               /\ lifecycle'[activeView'[w_1].gen[s_1]] \in Readable
    BY <2>3, ViewTyping DEF PublishWorkspaceView, Idle, EligibleMember, CurrentView, genVars, slotVars, viewVars, TypeOK, ActiveViewInv, SlotsOf
  <2> QED BY <2>1, <2>2, <2>3
<1>4. PointerMatchesDefaultView'
  BY DEF PublishWorkspaceView, PointerMatchesDefaultView
<1>5. SlotInv' /\ DefaultSlotAgrees' /\ GenInv' /\ StagingInv' /\ IdsFollowEpochs' /\
     OneActiveGeneration' /\ ActiveInv' /\ ReceiptInv'
  BY DEF PublishWorkspaceView, genVars, slotVars, SlotInv, DefaultSlotAgrees, GenInv,
       StagingInv, IdsFollowEpochs, OneActiveGeneration, ActiveInv, ReceiptInv
<1> QED BY <1>1, <1>2, <1>3, <1>4, <1>5

(* The activated generation is strictly newer than the one it replaces:    *)
(* the latter holds the receipt of its own epoch.                          *)
LEMMA ActivateStep ==
    ASSUME NEW g \in Gen, NEW e \in Epoch, IInv, Activate(g, e)
    PROVE  IInv'
<1> USE StoreAssumption DEF IInv, Slot, Workspace, Epoch, Gen, Exists, Incomplete, Readable,
            Lifecycle
<1>1. TypeOK'
  <2>1. genRepo[g] \in Repo
    BY DEF Activate, GenInv, TypeOK
  <2>2. DefaultView(genRepo[g], g) \in View
    BY <2>1, DefaultViewTyping
  <2>3. lifecycle' \in [Gen -> Lifecycle] /\ activeGen' \in [Repo -> Gen \cup {0}]
    BY DEF Activate, ActivatedLifecycle, TypeOK
  <2>4. receipt' \in [Slot -> [Epoch -> Gen \cup {0}]]
    BY <2>1 DEF Activate, TypeOK
  <2>5. views' \in SUBSET View /\ activeView' \in [Workspace -> View \cup {None}]
    BY <2>1, <2>2 DEF Activate, TypeOK
  <2> QED BY <2>3, <2>4, <2>5 DEF Activate, TypeOK, slotVars
<1>2. GenInv'
  BY DEF Activate, TypeOK, GenInv, ActivatedLifecycle
<1>3. StagingInv'
  BY DEF Activate, StagingInv, Idle
<1>4. IdsFollowEpochs'
  BY DEF Activate, IdsFollowEpochs, ActivatedLifecycle
<1>5. OneActiveGeneration'
  <2> DEFINE q == genRepo[g]
  <2>1. q \in Repo
    BY DEF Activate, GenInv, TypeOK
  <2>2. \A p \in Repo : activeGen'[p] = IF p = q THEN g ELSE activeGen[p]
    BY <2>1 DEF Activate, TypeOK
  <2>3. genRepo' = genRepo /\ lifecycle' = ActivatedLifecycle(g)
    BY DEF Activate
  <2>4. ASSUME NEW p \in Repo, activeGen'[p] # 0
        PROVE  lifecycle'[activeGen'[p]] = "active" /\ genRepo'[activeGen'[p]] = p
    <3>1. CASE p = q
      BY <2>2, <2>3, <3>1 DEF ActivatedLifecycle
    <3>2. CASE p # q
      <4>1. activeGen'[p] = activeGen[p] /\ activeGen[p] \in Gen
        BY <2>2, <2>4, <3>2 DEF TypeOK
      <4>2. lifecycle[activeGen[p]] = "active" /\ genRepo[activeGen[p]] = p
        BY <2>4, <4>1 DEF OneActiveGeneration
      <4> QED BY <2>3, <3>2, <4>1, <4>2 DEF ActivatedLifecycle
    <3> QED BY <3>1, <3>2
  <2>5. ASSUME NEW h \in Gen, lifecycle'[h] = "active"
        PROVE  genRepo'[h] # None /\ activeGen'[genRepo'[h]] = h
    <3>1. CASE h = g
      BY <2>1, <2>2, <2>3, <3>1
    <3>2. CASE h # g
      <4>1. lifecycle[h] = "active" /\ genRepo[h] # q
        BY <2>3, <2>5, <3>2 DEF ActivatedLifecycle
      <4>2. genRepo[h] \in Repo /\ activeGen[genRepo[h]] = h
        BY <4>1 DEF OneActiveGeneration, TypeOK
      <4> QED BY <2>2, <2>3, <4>1, <4>2
    <3> QED BY <3>1, <3>2
  <2> QED BY <2>4, <2>5 DEF OneActiveGeneration
<1>6. ActiveInv'
  <2> DEFINE r == genRepo[g]
  <2>1. r \in Repo /\ r \in registered /\ e = genEpoch[g] /\ e = repoEpoch[r]
    BY DEF Activate, ActivationFence, GenInv, TypeOK
  <2>2. ASSUME NEW h \in Gen, lifecycle[h] = "active", genRepo[h] = r
        PROVE  h < g
    <3>1. h = activeGen[r] /\ receipt[r][genEpoch[h]] = h
      BY <2>1, <2>2 DEF OneActiveGeneration, ActiveInv
    <3>2. h # g
      BY <2>2 DEF Activate
    <3>3. genEpoch[h] # e
      BY <3>1, <3>2 DEF Activate, ReceiptAccepts
    <3>4. genEpoch[h] < genEpoch[g]
      BY <2>1, <2>2, <3>3 DEF GenInv, TypeOK
    <3>5. g < h => genEpoch[g] <= genEpoch[h]
      BY <2>2 DEF IdsFollowEpochs, Activate
    <3>6. genEpoch[g] \in Nat /\ genEpoch[h] \in Nat
      BY DEF TypeOK
    <3> QED BY <3>2, <3>4, <3>5, <3>6
  <2>3. ASSUME NEW q \in Repo, activeGen'[q] # 0
        PROVE  receipt'[q][genEpoch'[activeGen'[q]]] = activeGen'[q]
    <3>1. CASE q = r
      BY <2>1, <3>1 DEF Activate, TypeOK
    <3>2. CASE q # r
      BY <2>1, <2>3, <3>2 DEF Activate, ActiveInv, TypeOK
    <3> QED BY <3>1, <3>2
  <2>4. ASSUME NEW h \in Gen, lifecycle'[h] = "retained"
        PROVE  h < activeGen'[genRepo'[h]]
    <3>1. h # g /\ genRepo'[h] = genRepo[h]
      BY <2>4 DEF Activate, ActivatedLifecycle
    <3>2. CASE lifecycle[h] = "active" /\ genRepo[h] = r
      BY <2>1, <2>2, <3>1, <3>2 DEF Activate, TypeOK
    <3>3. CASE lifecycle[h] = "retained"
      <4>1. genRepo[h] \in Repo /\ h < activeGen[genRepo[h]]
        BY <3>3 DEF ActiveInv, GenInv, TypeOK
      <4>2. CASE genRepo[h] # r
        BY <3>1, <4>1, <4>2 DEF Activate, TypeOK
      <4>3. CASE genRepo[h] = r
        <5>1. activeGen[r] \in Gen
          BY <2>1, <4>1, <4>3 DEF TypeOK
        <5>2. activeGen[r] < g
          BY <2>1, <2>2, <5>1 DEF OneActiveGeneration
        <5>3. activeGen'[genRepo'[h]] = g
          BY <2>1, <3>1, <4>3 DEF Activate, TypeOK
        <5> QED BY <4>1, <4>3, <5>1, <5>2, <5>3
      <4> QED BY <4>2, <4>3
    <3> QED BY <2>4, <3>1, <3>2, <3>3 DEF Activate, ActivatedLifecycle
  <2> QED BY <2>3, <2>4 DEF ActiveInv
<1>7. ReceiptInv'
  <2>1. ASSUME NEW s_1 \in Slot, NEW e_1 \in Epoch, receipt'[s_1][e_1] # 0
        PROVE  /\ e_1 <= slotEpoch'[s_1]
               /\ slotOwner'[s_1] # None
               /\ Exists(receipt[s_1][e_1])'
               /\ genRepo'[receipt'[s_1][e_1]] = slotRepo'[s_1]
    <3>1. genRepo[g] \in Repo /\ genRepo[g] \in registered
      BY DEF Activate, GenInv, TypeOK
    <3>2. CASE s_1 = genRepo[g] /\ e_1 = e
      BY <3>1, <3>2 DEF Activate, ActivationFence, ActivatedLifecycle, slotVars, TypeOK,
                        DefaultSlotAgrees
    <3>3. CASE ~(s_1 = genRepo[g] /\ e_1 = e)
      <4>1. receipt'[s_1][e_1] = receipt[s_1][e_1]
        BY <3>1, <3>3 DEF Activate, TypeOK
      <4> QED BY <2>1, <4>1, ReceiptFacts DEF Activate, ActivatedLifecycle, slotVars
    <3> QED BY <3>2, <3>3
  <2>2. ASSUME NEW s_1 \in Slot, receipt'[s_1][slotEpoch'[s_1]] # 0
        PROVE  lifecycle'[receipt'[s_1][slotEpoch'[s_1]]] \in Readable
    <3>1. slotEpoch'[s_1] = slotEpoch[s_1]
      BY DEF Activate, slotVars
    <3>2. CASE receipt'[s_1][slotEpoch[s_1]] = g
      BY <3>1, <3>2 DEF Activate, ActivatedLifecycle
    <3>3. CASE receipt'[s_1][slotEpoch[s_1]] # g
      <4>1. receipt'[s_1][slotEpoch[s_1]] = receipt[s_1][slotEpoch[s_1]]
        BY <3>3 DEF Activate, TypeOK, GenInv
      <4>2. /\ receipt[s_1][slotEpoch[s_1]] \in Gen
            /\ lifecycle[receipt[s_1][slotEpoch[s_1]]] \in Readable
        BY <2>2, <3>1, <4>1, CurrentReceiptFacts
      <4> QED BY <3>1, <4>1, <4>2 DEF Activate, ActivatedLifecycle
    <3> QED BY <3>2, <3>3
  <2> QED BY <2>1, <2>2 DEF ReceiptInv
<1>8. ViewInv'
  BY DEF Activate, Idle, ActivationFence, ActivatedLifecycle, ReceiptAccepts,
       DefaultView, genVars, slotVars, viewVars, TypeOK, ViewInv, SlotsOf, View,
       ReceiptInv, SlotInv, ActiveViewInv
<1>9. ActiveViewInv'
  <2>0. PICK r \in registered : r = genRepo[g]
    BY DEF Activate, GenInv
  <2>1. r \in registered /\ r \in Repo /\ r \in Workspace
    BY DEF TypeOK
  <2>2. \A h \in Gen : lifecycle[h] \in Readable => lifecycle'[h] \in Readable
    BY DEF Activate, ActivatedLifecycle
  <2>3. /\ views' = views \cup {DefaultView(r, g)}
        /\ activeView' = [activeView EXCEPT ![r] = DefaultView(r, g)]
        /\ lifecycle'[g] = "active"
        /\ \A w \in Workspace : SlotsOf(w)' = SlotsOf(w)
    BY <2>0 DEF Activate, ActivatedLifecycle, slotVars, SlotsOf
  <2>4. SlotsOf(r) = {r}
    BY <2>1 DEF SlotsOf, SlotInv, DefaultSlotAgrees, TypeOK
  <2>5. ASSUME NEW w \in Workspace, activeView'[w] # None, w # r
        PROVE  /\ activeView'[w] \in views'
               /\ activeView'[w].workspace = w
               /\ SlotsOf(w)' # {}
               /\ \A s \in SlotsOf(w)' :
                     /\ activeView'[w].gen[s] # 0
                     /\ lifecycle'[activeView'[w].gen[s]] \in Readable
    <3>1. activeView'[w] = activeView[w]
      BY <2>3, <2>5 DEF TypeOK
    <3> QED BY <2>2, <2>3, <2>5, <3>1, ActiveViewFacts
  <2>6. /\ activeView'[r] = DefaultView(r, g)
        /\ DefaultView(r, g).workspace = r
        /\ DefaultView(r, g).gen[r] = g
    BY <2>1, <2>3 DEF TypeOK, DefaultView
  <2>7. /\ activeView'[r] \in views'
        /\ activeView'[r].workspace = r
        /\ SlotsOf(r)' # {}
        /\ \A s \in SlotsOf(r)' :
              /\ activeView'[r].gen[s] # 0
              /\ lifecycle'[activeView'[r].gen[s]] \in Readable
    <3>0. SlotsOf(r)' = SlotsOf(r)
      BY DEF Activate, slotVars, SlotsOf
    <3>1. SlotsOf(r)' = {r} /\ DefaultView(r, g) \in views'
      BY <2>3, <2>4, <3>0
    <3>2. g # 0
      OBVIOUS
    <3> QED BY <2>3, <2>6, <3>1, <3>2
  <2>8. ASSUME NEW w \in Workspace, activeView'[w] # None
        PROVE  /\ activeView'[w] \in views'
               /\ activeView'[w].workspace = w
               /\ SlotsOf(w)' # {}
               /\ \A s \in SlotsOf(w)' :
                     /\ activeView'[w].gen[s] # 0
                     /\ lifecycle'[activeView'[w].gen[s]] \in Readable
    <3>1. CASE w = r
      BY <2>7, <3>1
    <3>2. CASE w # r
      BY <2>5, <2>8, <3>2
    <3> QED BY <3>1, <3>2
  <2> QED BY <2>8 DEF ActiveViewInv
<1>10. PointerMatchesDefaultView'
  <2>1. genRepo[g] \in Repo /\ DefaultView(genRepo[g], g).gen[genRepo[g]] = g
    BY DEF Activate, GenInv, TypeOK, DefaultView
  <2>2. DefaultView(genRepo[g], g) # None
    BY <2>1, DefaultViewTyping
  <2> QED BY <2>1, <2>2 DEF Activate, PointerMatchesDefaultView, TypeOK
<1>11. SlotInv' /\ DefaultSlotAgrees'
  BY DEF Activate, slotVars, SlotInv, DefaultSlotAgrees
<1> QED BY <1>1, <1>2, <1>3, <1>4, <1>5, <1>6, <1>7, <1>8, <1>9, <1>10, <1>11

(* Retention never deletes the newest id: a retained generation has a      *)
(* newer active one.                                                       *)
LEMMA ApplyRetentionStep ==
    ASSUME NEW garbage \in SUBSET Gen, IInv, ApplyRetention(garbage)
    PROVE  IInv'
<1> USE StoreAssumption DEF IInv, Slot, Workspace, Epoch, Gen, Exists, Incomplete, Readable,
            Lifecycle
<1>1. TypeOK'
  BY DEF ApplyRetention, slotVars, TypeOK
<1>2. GenInv'
  <2>1. ASSUME NEW g \in Gen, g \in garbage
        PROVE  g # lastIssued
    <3> DEFINE a == activeGen[genRepo[g]]
    <3>1. lifecycle[g] = "retained"
      BY <2>1 DEF ApplyRetention, Eligible
    <3>2. genRepo[g] \in Repo
      BY <3>1 DEF GenInv, TypeOK
    <3>3. a \in Gen \cup {0} /\ g < a
      BY <3>1, <3>2 DEF ActiveInv, TypeOK
    <3>4. a \in Gen /\ lifecycle[a] = "active"
      BY <3>2, <3>3 DEF OneActiveGeneration
    <3>5. a <= lastIssued
      BY <3>4 DEF GenInv
    <3> QED BY <3>3, <3>4, <3>5 DEF TypeOK
  <2> QED BY <2>1 DEF ApplyRetention, TypeOK, GenInv
<1>3. StagingInv'
  BY DEF ApplyRetention, StagingInv, Idle
<1>4. IdsFollowEpochs'
  BY DEF ApplyRetention, IdsFollowEpochs
<1>5. OneActiveGeneration'
  BY DEF ApplyRetention, TypeOK, OneActiveGeneration, Eligible
<1>6. ActiveInv'
  BY DEF ApplyRetention, Eligible, TypeOK, ActiveInv, GenInv, DefaultSlotAgrees
<1>7. ReceiptInv'
  <2>1. /\ \A h \in Gen : h \notin garbage =>
              lifecycle'[h] = lifecycle[h] /\ genRepo'[h] = genRepo[h]
        /\ \A t \in Slot, i \in Epoch :
              receipt'[t][i] = IF receipt[t][i] \in garbage THEN 0 ELSE receipt[t][i]
        /\ slotEpoch' = slotEpoch /\ slotOwner' = slotOwner /\ slotRepo' = slotRepo
    BY DEF ApplyRetention, slotVars
  <2>2. ASSUME NEW t \in Slot, NEW i \in Epoch, receipt'[t][i] # 0
        PROVE  /\ i <= slotEpoch'[t]
               /\ slotOwner'[t] # None
               /\ lifecycle'[receipt'[t][i]] # "absent"
               /\ genRepo'[receipt'[t][i]] = slotRepo'[t]
    <3>1. receipt'[t][i] = receipt[t][i] /\ receipt[t][i] \notin garbage /\ receipt[t][i] # 0
      BY <2>1, <2>2
    <3> QED BY <2>1, <3>1, ReceiptFacts
  <2>3. ASSUME NEW t \in Slot, receipt'[t][slotEpoch'[t]] # 0
        PROVE  lifecycle'[receipt'[t][slotEpoch'[t]]] \in Readable
    <3>0. slotEpoch[t] \in Epoch
      BY DEF TypeOK
    <3>1. /\ receipt'[t][slotEpoch'[t]] = receipt[t][slotEpoch[t]]
          /\ receipt[t][slotEpoch[t]] \notin garbage
          /\ receipt[t][slotEpoch[t]] # 0
      BY <2>1, <2>3, <3>0
    <3> QED BY <2>1, <3>1, CurrentReceiptFacts
  <2> QED BY <2>2, <2>3 DEF ReceiptInv
<1>8. ViewInv'
  <2> SUFFICES ASSUME NEW v \in views', NEW s_1 \in Slot, v.gen[s_1] # 0
               PROVE  /\ slotOwner'[s_1] = v.workspace
                      /\ v.epoch[s_1] <= slotEpoch'[s_1]
                      /\ receipt'[s_1][v.epoch[s_1]] = v.gen[s_1]
    BY DEF ViewInv

  <2>1. /\ v \in views /\ v \in View
        /\ v.workspace \in Workspace /\ v.epoch[s_1] \in Epoch /\ v.gen[s_1] \in Gen
        /\ slotOwner[s_1] = v.workspace
        /\ v.epoch[s_1] <= slotEpoch[s_1]
        /\ receipt[s_1][v.epoch[s_1]] = v.gen[s_1]
    BY ViewTyping DEF ApplyRetention, ViewInv, TypeOK
  <2>2. v.gen[s_1] \notin garbage
    <3>1. CASE v = activeView[v.workspace]
      <4>1. InActiveView(v.gen[s_1])
        BY <2>1, <3>1 DEF InActiveView
      <4> QED BY <4>1 DEF ApplyRetention, Eligible
    <3>2. CASE v # activeView[v.workspace]
      BY <2>1, <3>2 DEF ApplyRetention, GarbageViews
    <3> QED BY <3>1, <3>2
  <2> QED BY <2>1, <2>2 DEF ApplyRetention, slotVars
<1>9. ActiveViewInv'
  <2> SUFFICES ASSUME NEW w \in Workspace, activeView'[w] # None
               PROVE  /\ activeView'[w] \in views'
                      /\ activeView'[w].workspace = w
                      /\ SlotsOf(w)' # {}
                      /\ \A s \in SlotsOf(w)' :
                            /\ activeView'[w].gen[s] # 0
                            /\ lifecycle'[activeView'[w].gen[s]] \in Readable
    BY DEF ActiveViewInv
  <2>1. activeView' = activeView /\ SlotsOf(w)' = SlotsOf(w)
    BY DEF ApplyRetention, slotVars, SlotsOf
  <2>2. activeView[w] \in views'
    BY <2>1, ActiveViewFacts DEF ApplyRetention, GarbageViews
  <2>3. ASSUME NEW s \in SlotsOf(w)
        PROVE  /\ activeView[w].gen[s] # 0
               /\ lifecycle'[activeView[w].gen[s]] \in Readable
    <3> DEFINE h == activeView[w].gen[s]
    <3>1. h \in Gen /\ lifecycle[h] \in Readable /\ s \in Slot
      BY <2>1, <2>3, ActiveViewFacts
    <3>2. InActiveView(h)
      BY <2>1, <3>1 DEF InActiveView
    <3>3. h \notin garbage
      BY <3>2 DEF ApplyRetention, Eligible
    <3> QED BY <3>1, <3>3 DEF ApplyRetention
  <2> QED BY <2>1, <2>2, <2>3, ActiveViewFacts
<1>10. SlotInv' /\ DefaultSlotAgrees' /\ PointerMatchesDefaultView'
  BY DEF ApplyRetention, slotVars, SlotInv, DefaultSlotAgrees, PointerMatchesDefaultView
<1> QED BY <1>1, <1>2, <1>3, <1>4, <1>5, <1>6, <1>7, <1>8, <1>9, <1>10

-----------------------------------------------------------------------------
(* The initial states satisfy the invariant.                               *)
LEMMA InitInv == ASSUME Init PROVE IInv
<1> USE StoreAssumption DEF Init, Slot, Workspace, Epoch, Gen, Lifecycle, Incomplete, Readable
<1>1. TypeOK
  <2>1. receipt \in [Slot -> [Epoch -> Gen \cup {0}]]
    OBVIOUS
  <2>2. activeView \in [Workspace -> View \cup {None}] /\ views \in SUBSET View
    OBVIOUS
  <2>3. /\ repoEpoch \in [Repo -> Epoch]
        /\ slotEpoch \in [Slot -> Epoch]
        /\ genEpoch \in [Gen -> Epoch]
    OBVIOUS
  <2>4. lifecycle \in [Gen -> Lifecycle]
    OBVIOUS
  <2> QED BY <2>1, <2>2, <2>3, <2>4 DEF TypeOK
<1>2. SlotInv /\ DefaultSlotAgrees /\ StagingInv
  BY DEF SlotInv, DefaultSlotAgrees, StagingInv
<1>3. GenInv /\ IdsFollowEpochs /\ OneActiveGeneration /\ ActiveInv
  BY DEF GenInv, IdsFollowEpochs, OneActiveGeneration, ActiveInv, Exists
<1>4. ReceiptInv /\ ViewInv /\ ActiveViewInv /\ PointerMatchesDefaultView
  BY DEF ReceiptInv, ViewInv, ActiveViewInv, PointerMatchesDefaultView
<1> QED BY <1>1, <1>2, <1>3, <1>4 DEF IInv

(* Every command of the store preserves the invariant.                     *)
LEMMA NextInv == ASSUME IInv, [Next]_vars PROVE IInv'
<1>1. CASE Recover
  BY <1>1, RecoverStep
<1>2. CASE Stop
  BY <1>2, StopStep
<1>3. CASE \E r \in Repo, e \in Epoch : EnsureWorkspace(r, e)
  BY <1>3, EnsureWorkspaceStep
<1>4. CASE \E w \in ConfiguredWorkspace, d \in SUBSET ConfiguredSlot :
              \E mapping \in [d -> Repo] : ConnectWorkspace(w, mapping)
  BY <1>4, ConnectWorkspaceStep
<1>5. CASE \E r \in Repo : AdvanceSourceEpoch(r)
  BY <1>5, AdvanceSourceEpochStep
<1>6. CASE \E s \in Slot, e \in Epoch : ReserveSourceSlotEpoch(s, e)
  BY <1>6, ReserveSourceSlotEpochStep
<1>7. CASE \E r \in Repo, e \in Epoch, g \in Gen : Stage(r, e, g)
  BY <1>7, CreateGenerationStep DEF Stage
<1>8. CASE \E s \in Slot, e \in Epoch, g \in Gen : StageSourceSlot(s, e, g)
  <2>1. \A s \in Slot : slotOwner[s] # None => slotRepo[s] \in registered
    BY DEF IInv, SlotInv
  <2> QED BY <1>8, <2>1, CreateGenerationStep DEF StageSourceSlot
<1>9. CASE StageAdvance
  BY <1>9, StageAdvanceStep
<1>10. CASE \E outcome \in Lifecycle : StageAbort(outcome)
  BY <1>10, StageAbortStep
<1>11. CASE \E s \in Slot, e \in Epoch, g \in Gen : CompleteSourceSlotEpoch(s, e, g)
  BY <1>11, CompleteStep
<1>12. CASE \E w \in ConfiguredWorkspace : PublishWorkspaceView(w)
  BY <1>12, PublishStep
<1>13. CASE \E g \in Gen, e \in Epoch : Activate(g, e)
  BY <1>13, ActivateStep
<1>14. CASE \E garbage \in SUBSET Gen : ApplyRetention(garbage)
  BY <1>14, ApplyRetentionStep
<1>15. CASE \E g \in Gen, outcome \in Lifecycle : StageArtifactsFailed(g, outcome)
  BY <1>15, StageArtifactsFailedStep
<1>16. CASE UNCHANGED vars
  BY <1>16 DEF vars, genVars, slotVars, viewVars, IInv, TypeOK, SlotInv, DefaultSlotAgrees, GenInv,
     StagingInv, IdsFollowEpochs, OneActiveGeneration, ActiveInv, ReceiptInv, ViewInv,
     ActiveViewInv, PointerMatchesDefaultView, Exists, SlotsOf
<1> QED
  BY <1>1, <1>2, <1>3, <1>4, <1>5, <1>6, <1>7, <1>8, <1>9, <1>10, <1>11, <1>12, <1>13, <1>14,
     <1>15, <1>16 DEF Next

(* Every reachable state of the store satisfies the invariant.             *)
THEOREM Invariance == Spec => []IInv
<1>1. Init => IInv
  BY InitInv
<1>2. IInv /\ [Next]_vars => IInv'
  BY NextInv
<1> QED BY <1>1, <1>2, PTL DEF Spec

-----------------------------------------------------------------------------
(* State properties.                                                       *)

(* Every table keeps its shape: types, widths and the epoch ceiling.       *)
THEOREM TypeCorrectness == Spec => []TypeOK
<1>1. IInv => TypeOK
  BY DEF IInv
<1> QED BY <1>1, Invariance, PTL

(* The two stored copies of a repository's epoch never disagree.           *)
THEOREM EpochCopiesAgree == Spec => []DefaultSlotAgrees
<1>1. IInv => DefaultSlotAgrees
  BY DEF IInv
<1> QED BY <1>1, Invariance, PTL

(* Exactly the generation the workspaces row points to is active, and the  *)
(* default view shows that generation.                                     *)
THEOREM ActivePointer == Spec => [](OneActiveGeneration /\ PointerMatchesDefaultView)
<1>1. IInv => OneActiveGeneration /\ PointerMatchesDefaultView
  BY DEF IInv
<1> QED BY <1>1, Invariance, PTL

(* Whatever readers see of a workspace is complete and readable, through   *)
(* crashes, recovery, abandoned staging and retention.                     *)
THEOREM VisibleViews == Spec => []VisibleViewComplete
<1>1. ASSUME IInv
      PROVE  VisibleViewComplete
  <2> SUFFICES ASSUME NEW w \in Workspace, activeView[w] # None
               PROVE  /\ SlotsOf(w) # {}
                      /\ \A s \in Slot : Member(w, s) <=> slotOwner[s] = w
                      /\ \A s \in SlotsOf(w) :
                            /\ lifecycle[activeView[w].gen[s]] \in Readable
                            /\ genRepo[activeView[w].gen[s]] = slotRepo[s]
    BY DEF VisibleViewComplete
  <2>1. /\ activeView[w] \in views
        /\ activeView[w].workspace = w
        /\ SlotsOf(w) # {}
        /\ \A s \in SlotsOf(w) : /\ activeView[w].gen[s] # 0
                                 /\ lifecycle[activeView[w].gen[s]] \in Readable
    BY <1>1 DEF IInv, ActiveViewInv
  <2>2. activeView[w] \in View
    BY <1>1, <2>1 DEF IInv, TypeOK
  <2>3. ASSUME NEW s \in Slot, activeView[w].gen[s] # 0
        PROVE  slotOwner[s] = w /\ genRepo[activeView[w].gen[s]] = slotRepo[s]
    <3>1. /\ slotOwner[s] = w
          /\ receipt[s][activeView[w].epoch[s]] = activeView[w].gen[s]
      BY <1>1, <2>1, <2>3 DEF IInv, ViewInv
    <3>2. activeView[w].epoch[s] \in Epoch
      BY <2>2, ViewTyping
    <3> QED BY <1>1, <2>3, <3>1, <3>2, ReceiptFacts DEF IInv
  <2> QED BY <2>1, <2>3 DEF Member, SlotsOf
<1> QED BY <1>1, Invariance, PTL

(* Every published view keeps its receipts and its generations.            *)
THEOREM BackedViews == Spec => []ViewsBacked
<1>1. ASSUME IInv
      PROVE  ViewsBacked
  <2> SUFFICES ASSUME NEW v \in views, NEW s \in Slot, v.gen[s] # 0
               PROVE  receipt[s][v.epoch[s]] = v.gen[s] /\ Exists(v.gen[s])
    BY DEF ViewsBacked
  <2>1. receipt[s][v.epoch[s]] = v.gen[s]
    BY <1>1 DEF IInv, ViewInv
  <2>2. v.epoch[s] \in Epoch
    BY <1>1, ViewTyping DEF IInv, TypeOK
  <2> QED BY <1>1, <2>1, <2>2, ReceiptFacts DEF IInv, Exists
<1> QED BY <1>1, Invariance, PTL

(* A completed epoch survives crashes and retention until it is            *)
(* superseded, and what was built at the current epoch can still be        *)
(* activated or already is active.                                         *)
THEOREM CompletedEpochs == Spec => []CompletedEpochSurvives
<1>1. ASSUME IInv
      PROVE  CompletedEpochSurvives
  <2> SUFFICES ASSUME NEW s \in Slot, slotOwner[s] # None, receipt[s][slotEpoch[s]] # 0
               PROVE  /\ lifecycle[receipt[s][slotEpoch[s]]] \in Readable
                      /\ genRepo[receipt[s][slotEpoch[s]]] = slotRepo[s]
                      /\ s \in Repo /\ genEpoch[receipt[s][slotEpoch[s]]] = repoEpoch[s] =>
                            lifecycle[receipt[s][slotEpoch[s]]] # "retained"
    BY DEF CompletedEpochSurvives
  <2> DEFINE g == receipt[s][slotEpoch[s]]
  <2>1. slotEpoch[s] \in Epoch
    BY <1>1 DEF IInv, TypeOK
  <2>2. g \in Gen /\ lifecycle[g] \in Readable /\ genRepo[g] = slotRepo[s]
    BY <1>1, <2>1, ReceiptFacts, CurrentReceiptFacts DEF IInv
  <2>3. ASSUME s \in Repo, genEpoch[g] = repoEpoch[s], lifecycle[g] = "retained"
        PROVE  FALSE
    <3> DEFINE a == activeGen[s]
    <3>1. s \in registered /\ slotRepo[s] = s /\ slotEpoch[s] = repoEpoch[s]
      BY <1>1, <2>3 DEF IInv, SlotInv, DefaultSlotAgrees
    <3>2. a \in Gen /\ g < a
      BY <1>1, <2>2, <2>3, <3>1 DEF IInv, ActiveInv, TypeOK, Gen
    <3>3. lifecycle[a] = "active" /\ genRepo[a] = s /\ receipt[s][genEpoch[a]] = a
      BY <1>1, <2>3, <3>2 DEF IInv, OneActiveGeneration, ActiveInv, Gen
    <3>4. genEpoch[a] <= repoEpoch[s]
      BY <1>1, <3>2, <3>3 DEF IInv, GenInv, Exists
    <3>5. genEpoch[g] <= genEpoch[a]
      BY <1>1, <2>2, <2>3, <3>1, <3>2, <3>3 DEF IInv, IdsFollowEpochs, Exists
    <3>6. genEpoch[a] \in Nat /\ repoEpoch[s] \in Nat
      BY <1>1, <2>3, <3>2, StoreAssumption DEF IInv, TypeOK, Epoch
    <3>7. genEpoch[a] = slotEpoch[s]
      BY <2>3, <3>1, <3>4, <3>5, <3>6
    <3> QED BY <2>2, <3>2, <3>3, <3>7 DEF Gen
  <2> QED BY <2>2, <2>3
<1> QED BY <1>1, Invariance, PTL

-----------------------------------------------------------------------------
(* Action properties.                                                      *)

(* Only the creation of a generation brings a row into existence, with the *)
(* id after the last one issued.                                           *)
LEMMA CreationIssuesNewId ==
    ASSUME IInv, NEW r, NEW g \in Gen, CreateGeneration(r, g),
           NEW h \in Gen, ~Exists(h), Exists(h)'
    PROVE  h > lastIssued
<1>1. h = g
  BY DEF CreateGeneration, Exists, IInv, TypeOK
<1>2. lastIssued # 0 => lastIssued \in Gen /\ lastIssued < g
  BY DEF CreateGeneration, NextRowId, IInv, GenInv, TypeOK, Gen
<1> QED BY <1>1, <1>2, StoreAssumption DEF Gen

(* No generation id is issued twice.                                       *)
THEOREM NoReissue == Spec => IdsNeverReissued
<1>1. ASSUME IInv, [Next]_vars
      PROVE  [\A g \in Gen : ~Exists(g) /\ Exists(g)' => g > lastIssued]_vars
  <2> SUFFICES ASSUME Next, NEW h \in Gen, ~Exists(h), Exists(h)'
               PROVE  h > lastIssued
    BY <1>1
  <2>1. CASE \E r \in Repo, e \in Epoch, g \in Gen : Stage(r, e, g)
    BY <1>1, <2>1, CreationIssuesNewId DEF Stage
  <2>2. CASE \E s \in Slot, e \in Epoch, g \in Gen : StageSourceSlot(s, e, g)
    BY <1>1, <2>2, CreationIssuesNewId DEF StageSourceSlot
  <2>3. CASE Recover
    BY <2>3 DEF Recover, Recoverable, Exists, Incomplete
  <2>4. CASE StageAdvance \/ \E outcome \in Lifecycle : StageAbort(outcome)
    BY <1>1, <2>4 DEF StageAdvance, StageAbort, Exists, IInv, TypeOK, StagingInv, Incomplete
  <2>5. CASE \E g \in Gen, e \in Epoch : Activate(g, e)
    BY <2>5 DEF Activate, ActivatedLifecycle, Exists
  <2>6. CASE \E garbage \in SUBSET Gen : ApplyRetention(garbage)
    BY <2>6 DEF ApplyRetention, Exists
  <2>7. CASE \E g \in Gen, outcome \in Lifecycle : StageArtifactsFailed(g, outcome)
    BY <1>1, <2>7 DEF StageArtifactsFailed, Exists, IInv, TypeOK
  <2> QED
    BY <2>1, <2>2, <2>3, <2>4, <2>5, <2>6, <2>7
    DEF Next, Stop, EnsureWorkspace, ConnectWorkspace, AdvanceSourceEpoch, ReserveSourceSlotEpoch,
        CompleteSourceSlotEpoch, PublishWorkspaceView, genVars, Exists
<1> QED BY <1>1, Invariance, PTL DEF Spec, IdsNeverReissued

(* Readers of a repository never go back to an older generation.           *)
THEOREM ForwardActivation == Spec => ActivationMovesForward
<1> DEFINE Forward == \A r \in Repo : (activeGen[r] # 0 /\ activeGen'[r] # activeGen[r]) =>
                         /\ activeGen'[r] > activeGen[r]
                         /\ genEpoch'[activeGen'[r]] > genEpoch[activeGen[r]]
<1>1. ASSUME IInv, Next
      PROVE  Forward
  <2>1. CASE \E g \in Gen, e \in Epoch : Activate(g, e)
    <3>1. PICK g \in Gen, e \in Epoch : Activate(g, e)
      BY <2>1
    <3> SUFFICES ASSUME NEW r \in Repo, activeGen[r] # 0, activeGen'[r] # activeGen[r]
                 PROVE  /\ activeGen'[r] > activeGen[r]
                        /\ genEpoch'[activeGen'[r]] > genEpoch[activeGen[r]]
      OBVIOUS
    <3> DEFINE h == activeGen[r]
    <3>2. r = genRepo[g] /\ activeGen'[r] = g /\ genEpoch' = genEpoch
      BY <1>1, <3>1 DEF Activate, IInv, TypeOK
    <3>3. h \in Gen /\ lifecycle[h] = "active" /\ genRepo[h] = r /\ receipt[r][genEpoch[h]] = h
      BY <1>1 DEF IInv, TypeOK, OneActiveGeneration, ActiveInv
    <3>4. genEpoch[h] # genEpoch[g]
      BY <3>1, <3>2, <3>3 DEF Activate, ActivationFence, ReceiptAccepts, Gen
    <3>5. genEpoch[h] <= genEpoch[g]
      BY <1>1, <3>1, <3>2, <3>3 DEF Activate, ActivationFence, IInv, GenInv, Exists
    <3>6. g < h => genEpoch[g] <= genEpoch[h]
      BY <1>1, <3>1, <3>2, <3>3 DEF Activate, IInv, IdsFollowEpochs, Exists
    <3>7. genEpoch[g] \in Nat /\ genEpoch[h] \in Nat
      BY <1>1, <3>3, StoreAssumption DEF IInv, TypeOK, Epoch
    <3> QED BY <3>2, <3>3, <3>4, <3>5, <3>6, <3>7 DEF Gen
  <2>2. CASE UNCHANGED activeGen
    BY <2>2
  <2> QED
    BY <1>1, <2>1, <2>2
    DEF Next, Recover, Stop, EnsureWorkspace, ConnectWorkspace, AdvanceSourceEpoch,
        ReserveSourceSlotEpoch, Stage, StageSourceSlot, CreateGeneration, StageAdvance, StageAbort,
        StageArtifactsFailed, CompleteSourceSlotEpoch, PublishWorkspaceView, ApplyRetention
<1>2. IInv /\ [Next]_vars => [Forward]_vars
  BY <1>1
<1> QED BY <1>2, Invariance, PTL DEF Spec, ActivationMovesForward

-----------------------------------------------------------------------------
(* The store implements the reader contract.                               *)

ReadableSet == {g \in Gen : lifecycle[g] \in Readable}

(* A new view of w, each slot at its current epoch and receipt, is later   *)
(* than the active one: an equal epoch has the same receipt.               *)
LEMMA LaterView ==
    ASSUME IInv, NEW w \in Workspace, NEW view \in View, activeView[w] # None,
           \A s \in Slot : slotOwner[s] # w => view.gen[s] = 0,
           \A s \in Slot : slotOwner[s] = w =>
               /\ view.gen[s] # 0
               /\ view.epoch[s] = slotEpoch[s]
               /\ receipt[s][slotEpoch[s]] \in {0, view.gen[s]}
    PROVE  Contract!Later(activeView[w], view)
<1> DEFINE old == activeView[w]
<1>1. old \in View /\ old \in views /\ old.workspace = w
  BY DEF IInv, TypeOK, ActiveViewInv
<1> SUFFICES ASSUME NEW s \in Slot
             PROVE  /\ (view.gen[s] = 0) <=> (old.gen[s] = 0)
                    /\ old.gen[s] # 0 =>
                          \/ view.epoch[s] > old.epoch[s]
                          \/ view.epoch[s] = old.epoch[s] /\ view.gen[s] = old.gen[s]
  BY DEF Contract!Later
<1>2. (view.gen[s] = 0) <=> (old.gen[s] = 0)
  BY <1>1 DEF IInv, ViewInv, ActiveViewInv, SlotsOf
<1>3. ASSUME old.gen[s] # 0
      PROVE  \/ view.epoch[s] > old.epoch[s]
             \/ view.epoch[s] = old.epoch[s] /\ view.gen[s] = old.gen[s]
  <2>1. /\ slotOwner[s] = w
        /\ old.epoch[s] <= slotEpoch[s]
        /\ receipt[s][old.epoch[s]] = old.gen[s]
    BY <1>1, <1>3 DEF IInv, ViewInv
  <2>2. old.epoch[s] \in Nat /\ slotEpoch[s] \in Nat /\ view.epoch[s] = slotEpoch[s]
    BY <1>1, <2>1, ViewTyping, StoreAssumption DEF IInv, TypeOK, Epoch
  <2> QED BY <1>3, <2>1, <2>2
<1> QED BY <1>2, <1>3

(* Initial states map to initial states.                                   *)
LEMMA ContractInit == ASSUME Init PROVE Contract!Init
BY DEF Init, Contract!Init, Readable

(* Every step of the store is a step of the contract or changes nothing    *)
(* that readers see.                                                       *)
LEMMA ContractStep == ASSUME IInv, [Next]_vars PROVE [Contract!Next]_(Contract!vars)
<1> USE DEF ReadableSet
<1>1. CASE Recover
  <2> PICK lost \in SUBSET ReadableSet : lost = {g \in ReadableSet : Recoverable(g)}
    OBVIOUS
  <2>1. ReadableSet' = ReadableSet \ lost /\ UNCHANGED activeView
    BY <1>1 DEF Recover, Recoverable, Readable, Incomplete, viewVars
  <2>2. \A w \in Workspace, s \in Slot : activeView[w] # None => activeView[w].gen[s] \notin lost
    BY DEF Recoverable, InActiveView, Readable, Incomplete
  <2>3. Contract!Collect(lost)
    BY <2>1, <2>2 DEF Contract!Collect
  <2> QED BY <2>3 DEF Contract!Next
<1>2. CASE StageAdvance
  <2>1. PICK g \in Gen : g = staging /\ lifecycle[g] \in Incomplete
    BY <1>2 DEF StageAdvance, IInv, TypeOK, StagingInv
  <2>2. g \notin ReadableSet /\ UNCHANGED activeView
    BY <1>2, <2>1 DEF StageAdvance, Readable, Incomplete, viewVars
  <2>3. CASE lifecycle[g] = "validating"
    <3>1. ReadableSet' = ReadableSet \cup {g}
      BY <1>2, <2>1, <2>3 DEF StageAdvance, StagingSuccessor, Readable, IInv, TypeOK
    <3>2. Contract!Build(g)
      BY <2>2, <3>1 DEF Contract!Build
    <3> QED BY <3>2 DEF Contract!Next
  <2>4. CASE lifecycle[g] # "validating"
    <3>1. ReadableSet' = ReadableSet
      BY <1>2, <2>1, <2>4 DEF StageAdvance, StagingSuccessor, Readable, Incomplete, IInv, TypeOK
    <3> QED BY <2>2, <3>1 DEF Contract!vars
  <2> QED BY <2>3, <2>4
<1>3. CASE \E w \in ConfiguredWorkspace : PublishWorkspaceView(w)
  <2>1. PICK w \in ConfiguredWorkspace : PublishWorkspaceView(w)
    BY <1>3
  <2> DEFINE view == CurrentView(w)
  <2>2. w \in Workspace /\ activeView'[w] = view /\ UNCHANGED ReadableSet
    BY <2>1 DEF PublishWorkspaceView, genVars, Workspace, IInv, TypeOK
  <2>3. view \in View /\ view # None
    <3>1. view \in View
      BY <2>2, StoreAssumption DEF CurrentView, View, IInv, TypeOK, Epoch
    <3> QED BY <3>1, StoreAssumption
  <2>4. \A s \in Slot : slotOwner[s] # w => view.gen[s] = 0
    BY DEF CurrentView
  <2>5. ASSUME NEW s \in Slot, slotOwner[s] = w
        PROVE  /\ view.gen[s] = receipt[s][slotEpoch[s]]
               /\ view.gen[s] # 0
               /\ view.gen[s] \in ReadableSet
               /\ view.epoch[s] = slotEpoch[s]
    <3>1. EligibleMember(s)
      BY <2>1, <2>5 DEF PublishWorkspaceView, SlotsOf
    <3>2. receipt[s][slotEpoch[s]] \in Gen
      BY <3>1, CurrentReceiptFacts DEF EligibleMember, IInv
    <3> QED BY <2>5, <3>1, <3>2 DEF EligibleMember, CurrentView
  <2>6. \E s \in Slot : slotOwner[s] = w
    BY <2>1 DEF PublishWorkspaceView, SlotsOf
  <2>7. activeView[w] # None => Contract!Later(activeView[w], view)
    BY <2>2, <2>3, <2>4, <2>5, LaterView
  <2> HIDE DEF view
  <2>8. Contract!Publish(w, view)
    BY <2>1, <2>2, <2>3, <2>4, <2>5, <2>6, <2>7 DEF Contract!Publish, PublishWorkspaceView, view
  <2> QED BY <2>2, <2>8 DEF Contract!Next
<1>4. CASE \E g \in Gen, e \in Epoch : Activate(g, e)
  <2>1. PICK g \in Gen, e \in Epoch : Activate(g, e)
    BY <1>4
  <2> DEFINE r == genRepo[g]
             view == DefaultView(r, g)
  <2>2. r \in Repo /\ r \in registered
    BY <2>1 DEF Activate, IInv, GenInv, TypeOK, Exists
  <2>3. view \in View /\ view # None
    BY <2>2, DefaultViewTyping DEF IInv
  <2>4. r \in Workspace /\ r \in Slot /\ activeView'[r] = view
    BY <2>1, <2>2 DEF Activate, Workspace, Slot, IInv, TypeOK
  <2>5. UNCHANGED ReadableSet
    BY <2>1 DEF Activate, ActivatedLifecycle, Readable
  <2>6. \A s \in Slot : slotOwner[s] = r <=> s = r
    BY <2>1, <2>2, StoreAssumption
    DEF Activate, ActivationFence, IInv, SlotInv, Slot
  <2>7. \A s \in Slot : view.gen[s] = IF s = r THEN g ELSE 0
    BY DEF DefaultView
  <2>8. /\ view.epoch[r] = slotEpoch[r]
        /\ receipt[r][slotEpoch[r]] \in {0, g}
        /\ g \in ReadableSet
        /\ g # 0
    BY <2>1, <2>4, StoreAssumption
    DEF Activate, ActivationFence, ReceiptAccepts, DefaultView, Readable, Gen
  <2> HIDE DEF view
  <2>9. activeView[r] # None => Contract!Later(activeView[r], view)
    BY <2>3, <2>4, <2>6, <2>7, <2>8, LaterView
  <2>10. Contract!Publish(r, view)
    BY <2>1, <2>3, <2>4, <2>5, <2>7, <2>8, <2>9 DEF Contract!Publish, Activate, view
  <2> QED BY <2>4, <2>10 DEF Contract!Next
<1>5. CASE \E garbage \in SUBSET Gen : ApplyRetention(garbage)
  <2>1. PICK garbage \in SUBSET Gen : ApplyRetention(garbage)
    BY <1>5
  <2>2. garbage \in SUBSET ReadableSet
    BY <2>1 DEF ApplyRetention, Eligible, Readable
  <2>3. ReadableSet' = ReadableSet \ garbage
    BY <2>1 DEF ApplyRetention, Readable
  <2>4. \A w \in Workspace, s \in Slot : activeView[w] # None => activeView[w].gen[s] \notin garbage
    BY <2>1 DEF ApplyRetention, Eligible, InActiveView
  <2>5. Contract!Collect(garbage)
    BY <2>1, <2>3, <2>4 DEF Contract!Collect, ApplyRetention
  <2> QED BY <2>2, <2>5 DEF Contract!Next
<1>6. ASSUME NEW r, NEW g \in Gen, CreateGeneration(r, g)
      PROVE  UNCHANGED <<activeView, ReadableSet>>
  <2>1. lifecycle[g] = "absent"
    BY <1>6 DEF CreateGeneration, NextRowId, Exists, Gen
  <2>2. \A h \in Gen : lifecycle'[h] \in Readable <=> lifecycle[h] \in Readable
    BY <1>6, <2>1 DEF CreateGeneration, Readable, IInv, TypeOK
  <2> QED BY <1>6, <2>2 DEF CreateGeneration, viewVars
<1>7. CASE \E r \in Repo, e \in Epoch, g \in Gen : Stage(r, e, g)
  BY <1>6, <1>7 DEF Stage, Contract!vars
<1>8. CASE \E s \in Slot, e \in Epoch, g \in Gen : StageSourceSlot(s, e, g)
  BY <1>6, <1>8 DEF StageSourceSlot, Contract!vars
<1>9. CASE \E outcome \in Lifecycle : StageAbort(outcome)
  <2>1. UNCHANGED ReadableSet
    BY <1>9 DEF StageAbort, IInv, TypeOK, StagingInv, Readable, Incomplete
  <2> QED BY <1>9, <2>1 DEF StageAbort, viewVars, Contract!vars
<1>10. CASE UNCHANGED <<activeView, lifecycle>>
  BY <1>10 DEF Contract!vars
<1>11. CASE \E g \in Gen, outcome \in Lifecycle : StageArtifactsFailed(g, outcome)
  <2>1. PICK g \in Gen, outcome \in Lifecycle : StageArtifactsFailed(g, outcome)
    BY <1>11
  <2>2. {g} \in SUBSET ReadableSet
    BY <2>1 DEF StageArtifactsFailed, Readable
  <2>3. ReadableSet' = ReadableSet \ {g}
    BY <2>1 DEF StageArtifactsFailed, Readable, IInv, TypeOK
  <2>4. ASSUME NEW w \in Workspace, NEW s \in Slot, activeView[w] # None
        PROVE  activeView[w].gen[s] # g
    <3>1. activeView[w] \in views /\ activeView[w] \in View
      BY <2>4 DEF IInv, ActiveViewInv, TypeOK
    <3>2. activeView[w].epoch[s] \in Epoch
      BY <3>1, ViewTyping
    <3>3. activeView[w].gen[s] # 0 => receipt[s][activeView[w].epoch[s]] = activeView[w].gen[s]
      BY <3>1 DEF IInv, ViewInv
    <3> QED BY <2>1, <3>2, <3>3 DEF StageArtifactsFailed, Gen
  <2>5. Contract!Collect({g})
    BY <2>1, <2>3, <2>4 DEF Contract!Collect, StageArtifactsFailed, viewVars
  <2> QED BY <2>2, <2>5 DEF Contract!Next
<1> QED
  BY <1>1, <1>2, <1>3, <1>4, <1>5, <1>7, <1>8, <1>9, <1>10, <1>11
  DEF Next, vars, Stop, EnsureWorkspace, ConnectWorkspace, AdvanceSourceEpoch,
      ReserveSourceSlotEpoch, CompleteSourceSlotEpoch, genVars, viewVars

(* The detailed store implements what PublishedViews promises readers.     *)
THEOREM Refinement == Spec => ImplementsContract
<1>1. Init => Contract!Init
  BY ContractInit
<1>2. IInv /\ [Next]_vars => [Contract!Next]_(Contract!vars)
  BY ContractStep
<1> QED BY <1>1, <1>2, Invariance, PTL DEF Spec, ImplementsContract, Contract!Spec
=============================================================================
