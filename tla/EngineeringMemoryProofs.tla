----------------------- MODULE EngineeringMemoryProofs -----------------------
(***************************************************************************)
(* Engineering memory, for any processes, versions, histories, commits and *)
(* bounds: what recall serves is grounded, merges by team synchronisation  *)
(* never compete, and an update replaces the version it was made from.     *)
(***************************************************************************)
EXTENDS EngineeringMemory, FiniteSetTheorems, TLAPS

Journal == [versions : SUBSET Revision, approved : SUBSET Revision]

Source == [epoch : 1 .. MaxEpoch, head : Head]

StoreKind == {"approve", "sync", "history", "revalidate", "index"}

WritePhase == {"queued", "current", "staged", "linked", "replacing"}

StorePhase == {"waiting", "open", "loaded", "captured", "prepared", "confirmed", "reserved"}

Operation ==
    [kind : {"none", "write"} \cup StoreKind, at : {"idle"} \cup WritePhase \cup StorePhase,
     revs : SUBSET Revision, saw : Revision \cup {None}, raced : BOOLEAN,
     loaded : Journal, source : Source \cup {None},
     before : Head \cup {None}, target : Head \cup {None}, moves : 0 .. 2]

MemoryTypes ==
    /\ authored \in Histories
    /\ file \in {NoFile} \cup [rev : Revision, links : 1 .. 2]
    /\ fileLease \in Process \cup {None}
    /\ op \in [Process -> Operation]
    /\ head \in Head
    /\ changes \in Nat
    /\ journal \in Journal
    /\ index \in [epoch : 0 .. MaxEpoch, active : Source \cup {None}]
    /\ lease \in Process \cup {None}
    /\ operations \in Nat
    /\ merged \subseteq Revision
    /\ consented \subseteq Revision

(* The phase of an operation fits its kind, and an operation on the record *)
(* file is about one version.                                              *)
Formed(o) ==
    /\ o.kind = "none" <=> o.at = "idle"
    /\ o.kind = "write" <=> o.at \in WritePhase
    /\ o.kind \in {"write", "approve", "sync"} => \E r \in Revision : o.revs = {r}

(* What an operation approves, or has loaded as approved, was asked for.   *)
Consents(o) ==
    /\ o.kind = "approve" => o.revs \subseteq consented
    /\ o.loaded.approved \subseteq consented

(* What revalidation and index runs carry from their earlier steps.        *)
Carries(o) ==
    /\ o.at \in {"loaded", "captured", "prepared", "confirmed"} => o.source \in Source
    /\ o.at = "reserved" => o.before \in Head /\ 1 <= index.epoch

(* HEAD has to move twice for a commit to be asked about that neither      *)
(* capture shows.                                                          *)
Tracks(o) ==
    /\ o.at \in {"captured", "prepared"} /\ o.moves = 0 => head = o.before
    /\ o.at \in {"prepared", "confirmed"} /\ o.target # None => o.before = o.source.head
    /\ o.at = "prepared" /\ o.moves = 0 => o.target \in {None, o.before}
    /\ o.at = "prepared" /\ o.moves = 1 => o.target \in {None, o.before, head}
    /\ o.at = "confirmed" => o.target \in {None, o.before} \/ o.moves = 2

(* A writer that has read the current version writes a successor of it,    *)
(* and from the second look on that is what the file has, unless an edit   *)
(* from outside raced with it.                                             *)
Writes(o) ==
    /\ o.at \in {"staged", "replacing"} => \A r \in o.revs : ValidateUpdate(r, o.saw)
    /\ o.at = "replacing" => o.saw # None /\ (o.raced \/ file.rev = o.saw)

OperationOK(o) == Formed(o) /\ Consents(o) /\ Carries(o) /\ Tracks(o) /\ Writes(o)

HoldsFile(o) == o.kind = "write" /\ o.at # "queued"

HoldsStore(o) == o.kind \notin {"none", "write"} /\ o.at # "waiting"

LocksInv ==
    \A p \in Process :
        /\ fileLease = p <=> HoldsFile(op[p])
        /\ lease = p <=> HoldsStore(op[p])

(* What is approved was observed, and asked for; merges that were counted  *)
(* are in the journal.                                                     *)
JournalInv ==
    /\ journal.approved \subseteq journal.versions
    /\ journal.approved \subseteq consented
    /\ merged \subseteq journal.versions

IndexInv == index.active # None => index.active.epoch <= index.epoch

(* What recall would have to serve, were the projection's source active.   *)
ProjectionInv ==
    projection # None =>
        /\ projection.source \in Source
        /\ projection.of \in Journal
        /\ SupersedesApproved(projection)
        /\ projection.of.approved \subseteq consented
        /\ EvaluatedAtIndexedHead(projection)

MemoryInv ==
    /\ MemoryTypes
    /\ \A p \in Process : OperationOK(op[p])
    /\ LocksInv
    /\ JournalInv
    /\ TeamMergesNeverCompete
    /\ IndexInv
    /\ ProjectionInv

-----------------------------------------------------------------------------
(* An operation about one version has it as its version.                   *)
LEMMA OneVersion ==
    ASSUME NEW p \in Process, NEW r, op[p].revs = {r}
    PROVE  Rev(p) = r
BY DEF Rev

(* The essential fact about SelectMemoryHead: a selected version is the    *)
(* only head, and what it does not supersede would contain another head,   *)
(* since parents have no cycle.                                            *)
LEMMA SelectedSupersedes ==
    ASSUME authored \in Histories, NEW j \in Journal,
           SelectMemoryHead(j).state = "selected"
    PROVE  j.approved \subseteq Ancestors(SelectMemoryHead(j).rev)
<1> DEFINE one == IF Cardinality(Heads(j)) = 1 THEN CHOOSE r \in Heads(j) : TRUE ELSE None
<1>1. /\ j.approved # {}
      /\ one # None
      /\ SelectMemoryHead(j).rev = one
  BY DEF SelectMemoryHead
<1>2. Cardinality(Heads(j)) = 1
  BY <1>1
<1>3. Heads(j) \subseteq Revision /\ j.approved \subseteq Revision
  BY DEF Heads, Journal
<1>4. IsFiniteSet(Heads(j))
  BY <1>3, FS_Subset, FilesAssumption
<1>5. PICK h : Heads(j) = {h}
  BY <1>2, <1>4, FS_Singleton
<1>6. one = h /\ h \in Revision
  BY <1>2, <1>3, <1>5
<1> HIDE DEF one
<1>7. SUFFICES ASSUME NEW x \in j.approved, NEW S \in SUBSET Revision, h \in S, Closed(S)
               PROVE  x \in S
  BY <1>1, <1>3, <1>6 DEF Ancestors
<1>8. SUFFICES ASSUME x \notin S PROVE FALSE
  OBVIOUS
<1> DEFINE T == j.approved \ S
<1>9. PICK t \in T : \A c \in T : t \notin Parents(c)
  <2>1. Acyclic(authored.parents) /\ T \in SUBSET Revision /\ T # {}
    BY <1>3, <1>8, FilesAssumption
  <2> HIDE DEF T
  <2> QED  BY <2>1 DEF Acyclic, Parents
<1>10. \A c \in j.approved : t \notin Parents(c)
  BY <1>7, <1>9 DEF Closed
<1>11. t \in Heads(j)
  BY <1>9, <1>10 DEF Heads
<1> QED  BY <1>5, <1>7, <1>9, <1>11

(* A step of one operation leaves what is known of the others, since only  *)
(* the holder of the write lock writes the file.                           *)
LEMMA OthersKept ==
    ASSUME MemoryInv, NEW p \in Process,
           \A q \in Process \ {p} : op'[q] = op[q],
           OperationOK(op[p])',
           authored' = authored, head' = head, consented \subseteq consented',
           1 <= index.epoch => 1 <= index'.epoch,
           file' = file \/ fileLease = p
    PROVE  \A q \in Process : OperationOK(op[q])'
<1> SUFFICES ASSUME NEW q \in Process, q # p PROVE OperationOK(op[q])'
  OBVIOUS
<1>1. OperationOK(op[q]) /\ op'[q] = op[q]
  BY DEF MemoryInv
<1>2. op[q].at = "replacing" => file' = file
  <2>1. op[q].at = "replacing" => fileLease = q
    BY <1>1 DEF OperationOK, Formed, MemoryInv, LocksInv, HoldsFile, WritePhase
  <2> QED  BY <2>1
<1>3. Formed(op[q])'
  BY <1>1 DEF OperationOK, Formed
<1>4. Consents(op[q])'
  BY <1>1 DEF OperationOK, Consents
<1>5. Carries(op[q])'
  BY <1>1 DEF OperationOK, Carries
<1>6. Tracks(op[q])'
  BY <1>1 DEF OperationOK, Tracks
<1>7. Writes(op[q])'
  BY <1>1, <1>2 DEF OperationOK, Writes, ValidateUpdate, Parents, Display
<1> QED  BY <1>3, <1>4, <1>5, <1>6, <1>7 DEF OperationOK

(* An operation that takes a free lock, keeps or releases its own, leaves  *)
(* the locks with those that need them.                                    *)
LEMMA LocksKept ==
    ASSUME MemoryInv, NEW p \in Process,
           \A q \in Process \ {p} : op'[q] = op[q],
           fileLease' = IF HoldsFile(op'[p]) THEN p ELSE Release(fileLease, p),
           HoldsFile(op'[p]) => fileLease \in {None, p},
           lease' = IF HoldsStore(op'[p]) THEN p ELSE Release(lease, p),
           HoldsStore(op'[p]) => lease \in {None, p}
    PROVE  /\ LocksInv'
           /\ fileLease' \in Process \cup {None}
           /\ lease' \in Process \cup {None}
<1>1. None \notin Process
  BY FilesAssumption
<1>2. /\ fileLease \in Process \cup {None} /\ lease \in Process \cup {None}
      /\ \A q \in Process : /\ fileLease = q <=> HoldsFile(op[q])
                            /\ lease = q <=> HoldsStore(op[q])
  BY DEF MemoryInv, MemoryTypes, LocksInv
<1>3. /\ fileLease' \in Process \cup {None} /\ lease' \in Process \cup {None}
      /\ \A q \in Process : /\ fileLease' = q <=> HoldsFile(op'[q])
                            /\ lease' = q <=> HoldsStore(op'[q])
  BY <1>1, <1>2 DEF Release
<1> QED  BY <1>3 DEF LocksInv

(* Steps that leave journal, index and projection alone.                   *)
LEMMA StoreKept ==
    ASSUME MemoryInv, authored' = authored, journal' = journal, index' = index,
           projection' = projection, merged' = merged, consented \subseteq consented'
    PROVE  JournalInv' /\ TeamMergesNeverCompete' /\ IndexInv' /\ ProjectionInv'
<1>1. JournalInv' /\ IndexInv'
  BY DEF MemoryInv, JournalInv, IndexInv
<1>2. TeamMergesNeverCompete'
  BY DEF MemoryInv, TeamMergesNeverCompete, Parents
<1>3. ProjectionInv'
  BY DEF MemoryInv, ProjectionInv, SupersedesApproved, EvaluatedAtIndexedHead, Ancestors,
         Closed, Parents
<1> QED  BY <1>1, <1>2, <1>3

(* An operation that is over satisfies all that is said of operations.     *)
LEMMA IdleOK ==
    /\ Idle \in Operation /\ ~HoldsFile(Idle) /\ ~HoldsStore(Idle)
    /\ \A p \in Process : op'[p] = Idle => OperationOK(op[p])'
<1>1. Idle \in Operation /\ ~HoldsFile(Idle) /\ ~HoldsStore(Idle)
  BY DEF Idle, Operation, Journal, HoldsFile, HoldsStore
<1>2. ASSUME NEW p \in Process, op'[p] = Idle PROVE OperationOK(op[p])'
  <2>1. /\ op'[p].kind = "none" /\ op'[p].at = "idle" /\ op'[p].loaded.approved = {}
    BY <1>2 DEF Idle
  <2> QED
    BY <2>1 DEF OperationOK, Formed, Consents, Carries, Tracks, Writes, WritePhase
<1> QED  BY <1>1, <1>2

(* A step of one operation that leaves journal, index and projection alone *)
(* needs only to be looked at from that operation.                         *)
LEMMA QuietStep ==
    ASSUME MemoryInv, NEW p \in Process,
           \A q \in Process \ {p} : op'[q] = op[q],
           op' \in [Process -> Operation],
           OperationOK(op[p])',
           UNCHANGED <<authored, head, journal, index, projection, merged>>,
           changes' \in Nat, operations' \in Nat,
           file' \in {NoFile} \cup [rev : Revision, links : 1 .. 2],
           file' = file \/ fileLease = p,
           consented \subseteq consented', consented' \subseteq Revision,
           fileLease' = IF HoldsFile(op'[p]) THEN p ELSE Release(fileLease, p),
           HoldsFile(op'[p]) => fileLease \in {None, p},
           lease' = IF HoldsStore(op'[p]) THEN p ELSE Release(lease, p),
           HoldsStore(op'[p]) => lease \in {None, p}
    PROVE  MemoryInv'
<1>1. \A q \in Process : OperationOK(op[q])'
  BY OthersKept
<1>2. LocksInv' /\ fileLease' \in Process \cup {None} /\ lease' \in Process \cup {None}
  BY LocksKept
<1>3. JournalInv' /\ TeamMergesNeverCompete' /\ IndexInv' /\ ProjectionInv'
  BY StoreKept
<1>4. MemoryTypes'
  BY <1>2 DEF MemoryInv, MemoryTypes, NoFile
<1> QED  BY <1>1, <1>2, <1>3, <1>4 DEF MemoryInv

(* What the invariant says of the operation that takes a step.             *)
LEMMA Stepping ==
    ASSUME MemoryInv, NEW p \in Process
    PROVE  /\ op[p] \in Operation
           /\ OperationOK(op[p])
           /\ fileLease = p <=> HoldsFile(op[p])
           /\ lease = p <=> HoldsStore(op[p])
           /\ ~HoldsFile(op[p]) => Release(fileLease, p) = fileLease
           /\ ~HoldsStore(op[p]) => Release(lease, p) = lease
           /\ \A o \in Operation : op' = [op EXCEPT ![p] = o] =>
                /\ op' \in [Process -> Operation]
                /\ op'[p] = o
                /\ \A q \in Process \ {p} : op'[q] = op[q]
<1>1. op \in [Process -> Operation] /\ OperationOK(op[p])
  BY DEF MemoryInv, MemoryTypes
<1>2. /\ fileLease = p <=> HoldsFile(op[p])
      /\ lease = p <=> HoldsStore(op[p])
  BY DEF MemoryInv, LocksInv
<1> QED  BY <1>1, <1>2 DEF Release

(* Ending an operation without a change to the store.                      *)
LEMMA EndStep ==
    ASSUME MemoryInv, NEW p \in Process,
           op' = [op EXCEPT ![p] = Idle],
           UNCHANGED <<authored, head, journal, index, projection, merged, consented>>,
           changes' \in Nat, operations' \in Nat,
           file' \in {NoFile} \cup [rev : Revision, links : 1 .. 2],
           file' = file \/ fileLease = p,
           fileLease' = Release(fileLease, p), lease' = Release(lease, p)
    PROVE  MemoryInv'
<1>1. /\ op' \in [Process -> Operation] /\ op'[p] = Idle
      /\ \A q \in Process \ {p} : op'[q] = op[q]
  BY IdleOK, Stepping
<1>2. OperationOK(op[p])' /\ ~HoldsFile(op'[p]) /\ ~HoldsStore(op'[p])
  BY <1>1, IdleOK
<1>3. consented \subseteq Revision
  BY DEF MemoryInv, MemoryTypes
<1> QED  BY <1>1, <1>2, <1>3, QuietStep

-----------------------------------------------------------------------------
(* Everything but the record file, its lock and the operations.            *)
BesidesFile == UNCHANGED <<authored, head, changes, journal, index, projection, lease, merged,
                           consented>>

(* Starting a write.                                                       *)
LEMMA StartWriteStep ==
    ASSUME MemoryInv, NEW p \in Process, NEW r \in Revision, StartWrite(p, r), BesidesFile,
           operations' \in Nat
    PROVE  MemoryInv'
<1> DEFINE o == [Idle EXCEPT !.kind = "write", !.at = "queued", !.revs = {r}]
<1>1. /\ op[p] = Idle /\ op' = [op EXCEPT ![p] = o]
      /\ UNCHANGED <<file, fileLease, authored, head, changes, journal, index, projection, lease,
                     merged, consented>>
  BY DEF StartWrite, Set, BesidesFile
<1>2. /\ o \in Operation /\ ~HoldsFile(o) /\ ~HoldsStore(o)
      /\ o.kind = "write" /\ o.at = "queued" /\ o.revs = {r} /\ o.loaded.approved = {}
  <2>1. o \in Operation
    BY IdleOK DEF Operation, WritePhase
  <2>2. o.kind = "write" /\ o.at = "queued" /\ o.revs = {r} /\ o.loaded.approved = {}
    BY DEF Idle
  <2> QED  BY <2>1, <2>2 DEF HoldsFile, HoldsStore
<1> HIDE DEF o
<1>3. /\ op' \in [Process -> Operation] /\ op'[p] = o
      /\ \A q \in Process \ {p} : op'[q] = op[q]
      /\ fileLease' = Release(fileLease, p) /\ lease' = Release(lease, p)
  BY <1>1, <1>2, Stepping, IdleOK
<1>4. OperationOK(op[p])'
  BY <1>2, <1>3 DEF OperationOK, Formed, Consents, Carries, Tracks, Writes, WritePhase
<1>5. MemoryTypes
  BY DEF MemoryInv
<1> QED  BY <1>1, <1>2, <1>3, <1>4, <1>5, QuietStep DEF MemoryTypes

(* Taking the write lock.                                                  *)
LEMMA AcquireWriteLeaseStep ==
    ASSUME MemoryInv, NEW p \in Process, AcquireWriteLease(p), BesidesFile, operations' \in Nat
    PROVE  MemoryInv'
<1> DEFINE o == [op[p] EXCEPT !.at = "current"]
<1>1. /\ op[p].kind = "write" /\ op[p].at = "queued" /\ fileLease = None /\ fileLease' = p
      /\ op' = [op EXCEPT ![p] = o]
      /\ UNCHANGED <<file, authored, head, changes, journal, index, projection, lease,
                     merged, consented>>
  BY DEF AcquireWriteLease, At, GoTo, Set, BesidesFile
<1>2. /\ o \in Operation /\ o.kind = "write" /\ o.at = "current"
      /\ o.revs = op[p].revs /\ o.loaded = op[p].loaded
  BY <1>1, Stepping DEF Operation, WritePhase
<1> HIDE DEF o
<1>3. /\ op' \in [Process -> Operation] /\ op'[p] = o
      /\ \A q \in Process \ {p} : op'[q] = op[q]
      /\ lease' = Release(lease, p)
  BY <1>1, <1>2, Stepping DEF HoldsStore
<1>4. OperationOK(op[p])'
  <2>1. Formed(op[p])'
    BY <1>1, <1>2, <1>3, Stepping DEF OperationOK, Formed, WritePhase
  <2>2. Consents(op[p])'
    BY <1>1, <1>2, <1>3, Stepping DEF OperationOK, Consents
  <2>3. Carries(op[p])' /\ Tracks(op[p])' /\ Writes(op[p])'
    BY <1>2, <1>3 DEF Carries, Tracks, Writes
  <2> QED  BY <2>1, <2>2, <2>3 DEF OperationOK
<1>5. MemoryTypes /\ HoldsFile(o) /\ ~HoldsStore(o)
  BY <1>2 DEF MemoryInv, HoldsFile, HoldsStore
<1> QED  BY <1>1, <1>2, <1>3, <1>4, <1>5, QuietStep DEF MemoryTypes

(* Reading the current version: what was written fits it.                  *)
LEMMA CurrentRecordStep ==
    ASSUME MemoryInv, NEW p \in Process, CurrentRecord(p), BesidesFile, operations' \in Nat
    PROVE  MemoryInv'
<1> DEFINE o == [op[p] EXCEPT !.saw = file.rev, !.at = "staged"]
<1>1. /\ op[p].kind = "write" /\ op[p].at = "current"
      /\ op' = [op EXCEPT ![p] = o]
      /\ UNCHANGED <<file, fileLease, authored, head, changes, journal, index, projection, lease,
                     merged, consented>>
  BY DEF CurrentRecord, At, Set, BesidesFile
<1>2. MemoryTypes /\ file.rev \in Revision \cup {None}
  BY DEF MemoryInv, MemoryTypes, NoFile
<1>3. /\ o \in Operation /\ o.kind = "write" /\ o.at = "staged" /\ o.saw = file.rev
      /\ o.revs = op[p].revs /\ o.loaded = op[p].loaded
  BY <1>1, <1>2, Stepping DEF Operation, WritePhase
<1> HIDE DEF o
<1>4. /\ op' \in [Process -> Operation] /\ op'[p] = o
      /\ \A q \in Process \ {p} : op'[q] = op[q]
      /\ fileLease = p /\ lease' = Release(lease, p)
  BY <1>1, <1>3, Stepping DEF HoldsStore, HoldsFile
<1>5. PICK r \in Revision : op[p].revs = {r}
  BY <1>1, Stepping DEF OperationOK, Formed
<1>6. Rev(p) = r
  BY <1>5, OneVersion
<1>7. Writes(op[p])'
  <2>1. ValidateUpdate(r, file.rev)
    BY <1>6 DEF CurrentRecord
  <2> QED  BY <2>1, <1>1, <1>3, <1>4, <1>5 DEF Writes, ValidateUpdate, Parents, Display
<1>8. OperationOK(op[p])'
  <2>1. Formed(op[p])'
    BY <1>1, <1>3, <1>4, Stepping DEF OperationOK, Formed, WritePhase
  <2>2. Consents(op[p])'
    BY <1>1, <1>3, <1>4, Stepping DEF OperationOK, Consents
  <2>3. Carries(op[p])' /\ Tracks(op[p])'
    BY <1>3, <1>4 DEF Carries, Tracks
  <2> QED  BY <2>1, <2>2, <2>3, <1>7 DEF OperationOK
<1>9. HoldsFile(o) /\ ~HoldsStore(o)
  BY <1>3 DEF HoldsFile, HoldsStore
<1> QED  BY <1>1, <1>2, <1>3, <1>4, <1>8, <1>9, QuietStep DEF MemoryTypes

(* Linking a new record.                                                   *)
LEMMA LinkTargetStep ==
    ASSUME MemoryInv, NEW p \in Process, LinkTarget(p), BesidesFile, operations' \in Nat
    PROVE  MemoryInv'
<1> DEFINE o == [op[p] EXCEPT !.at = "linked"]
<1>1. /\ op[p].kind = "write" /\ op[p].at = "staged"
      /\ op' = [op EXCEPT ![p] = o] /\ file' = [rev |-> Rev(p), links |-> 2]
      /\ UNCHANGED <<fileLease, authored, head, changes, journal, index, projection, lease,
                     merged, consented>>
  BY DEF LinkTarget, At, GoTo, Set, BesidesFile
<1>2. /\ o \in Operation /\ o.kind = "write" /\ o.at = "linked"
      /\ o.revs = op[p].revs /\ o.loaded = op[p].loaded
  BY <1>1, Stepping DEF Operation, WritePhase
<1> HIDE DEF o
<1>3. /\ op' \in [Process -> Operation] /\ op'[p] = o
      /\ \A q \in Process \ {p} : op'[q] = op[q]
      /\ fileLease = p /\ lease' = Release(lease, p)
  BY <1>1, <1>2, Stepping DEF HoldsStore, HoldsFile
<1>4. PICK r \in Revision : op[p].revs = {r}
  BY <1>1, Stepping DEF OperationOK, Formed
<1>5. file' \in {NoFile} \cup [rev : Revision, links : 1 .. 2]
  BY <1>1, <1>4, OneVersion
<1>6. OperationOK(op[p])'
  <2>1. Formed(op[p])'
    BY <1>1, <1>2, <1>3, Stepping DEF OperationOK, Formed, WritePhase
  <2>2. Consents(op[p])'
    BY <1>1, <1>2, <1>3, Stepping DEF OperationOK, Consents
  <2>3. Carries(op[p])' /\ Tracks(op[p])' /\ Writes(op[p])'
    BY <1>2, <1>3 DEF Carries, Tracks, Writes
  <2> QED  BY <2>1, <2>2, <2>3 DEF OperationOK
<1>7. MemoryTypes /\ HoldsFile(o) /\ ~HoldsStore(o)
  BY <1>2 DEF MemoryInv, HoldsFile, HoldsStore
<1> QED  BY <1>1, <1>2, <1>3, <1>5, <1>6, <1>7, QuietStep DEF MemoryTypes

(* The second look finds the version that was read first.                  *)
LEMMA RevalidateCurrentStep ==
    ASSUME MemoryInv, NEW p \in Process, RevalidateCurrent(p), BesidesFile, operations' \in Nat
    PROVE  MemoryInv'
<1> DEFINE o == [op[p] EXCEPT !.at = "replacing", !.raced = FALSE]
<1>1. /\ op[p].kind = "write" /\ op[p].at = "staged"
      /\ op[p].saw # None /\ file.rev = op[p].saw
      /\ op' = [op EXCEPT ![p] = o]
      /\ UNCHANGED <<file, fileLease, authored, head, changes, journal, index, projection, lease,
                     merged, consented>>
  BY DEF RevalidateCurrent, At, Set, BesidesFile
<1>2. /\ o \in Operation /\ o.kind = "write" /\ o.at = "replacing" /\ o.saw = op[p].saw
      /\ o.revs = op[p].revs /\ o.loaded = op[p].loaded
  BY <1>1, Stepping DEF Operation, WritePhase
<1> HIDE DEF o
<1>3. /\ op' \in [Process -> Operation] /\ op'[p] = o
      /\ \A q \in Process \ {p} : op'[q] = op[q]
      /\ fileLease = p /\ lease' = Release(lease, p)
  BY <1>1, <1>2, Stepping DEF HoldsStore, HoldsFile
<1>4. OperationOK(op[p])'
  <2>1. Formed(op[p])'
    BY <1>1, <1>2, <1>3, Stepping DEF OperationOK, Formed, WritePhase
  <2>2. Consents(op[p])'
    BY <1>1, <1>2, <1>3, Stepping DEF OperationOK, Consents
  <2>3. Carries(op[p])' /\ Tracks(op[p])'
    BY <1>2, <1>3 DEF Carries, Tracks
  <2>4. Writes(op[p])'
    <3>1. \A r \in op[p].revs : ValidateUpdate(r, op[p].saw)
      BY <1>1, Stepping DEF OperationOK, Writes
    <3>2. (\A r \in op[p].revs : ValidateUpdate(r, op[p].saw))'
      BY <3>1, <1>1, <1>2, <1>3 DEF ValidateUpdate, Parents, Display
    <3>3. op'[p].saw # None /\ file'.rev = op'[p].saw
      BY <1>1, <1>2, <1>3
    <3> QED  BY <3>2, <3>3 DEF Writes
  <2> QED  BY <2>1, <2>2, <2>3, <2>4 DEF OperationOK
<1>5. MemoryTypes /\ HoldsFile(o) /\ ~HoldsStore(o)
  BY <1>2 DEF MemoryInv, HoldsFile, HoldsStore
<1> QED  BY <1>1, <1>2, <1>3, <1>4, <1>5, QuietStep DEF MemoryTypes

(* The end of a write, by the rename, after the link or before either.     *)
LEMMA EndWriteStep ==
    ASSUME MemoryInv, NEW p \in Process,
           RenameTarget(p) \/ FinishCreate(p) \/ AbandonWrite(p), BesidesFile,
           operations' \in Nat
    PROVE  MemoryInv'
<1>1. /\ op[p].kind = "write" /\ op' = [op EXCEPT ![p] = Idle]
      /\ fileLease' = Release(fileLease, p)
      /\ UNCHANGED <<authored, head, changes, journal, index, projection, lease, merged, consented>>
  BY DEF RenameTarget, FinishCreate, AbandonWrite, EndWrite, At, Set, BesidesFile
<1>2. lease' = Release(lease, p)
  BY <1>1, Stepping DEF HoldsStore
<1>3. MemoryTypes
  BY DEF MemoryInv
<1>4. /\ file' \in {NoFile} \cup [rev : Revision, links : 1 .. 2]
      /\ file' = file \/ fileLease = p
  <2>1. CASE RenameTarget(p)
    <3>1. fileLease = p /\ file' = [rev |-> Rev(p), links |-> 1]
      BY <1>1, <2>1, Stepping DEF RenameTarget, At, HoldsFile
    <3>2. PICK r \in Revision : op[p].revs = {r}
      BY <1>1, Stepping DEF OperationOK, Formed
    <3> QED  BY <3>1, <3>2, OneVersion
  <2>2. CASE FinishCreate(p)
    <3>1. fileLease = p
      BY <1>1, <2>2, Stepping DEF FinishCreate, At, HoldsFile
    <3>2. file' = file \/ (file.links = 2 /\ file' = [file EXCEPT !.links = 1])
      BY <2>2 DEF FinishCreate
    <3> QED  BY <3>1, <3>2, <1>3 DEF MemoryTypes, NoFile
  <2>3. CASE AbandonWrite(p)
    BY <2>3, <1>3 DEF AbandonWrite, MemoryTypes
  <2> QED  BY <2>1, <2>2, <2>3
<1> QED  BY <1>1, <1>2, <1>3, <1>4, EndStep DEF MemoryTypes

-----------------------------------------------------------------------------
(* Everything but the operations, their number and the lease.              *)
BesidesOperations == UNCHANGED <<authored, file, fileLease, head, changes, journal, index,
                                 projection, merged>>

(* Reading the record file for approval or synchronisation.                *)
LEMMA LoadRecordStep ==
    ASSUME MemoryInv, NEW p \in Process, NEW kind \in {"approve", "sync"}, LoadRecord(p, kind),
           BesidesOperations, lease' = lease, operations' \in Nat
    PROVE  MemoryInv'
<1> DEFINE o == [Idle EXCEPT !.kind = kind, !.at = "waiting", !.revs = {file.rev}]
<1>1. /\ op[p] = Idle /\ op' = [op EXCEPT ![p] = o]
      /\ consented' = IF kind = "approve" THEN consented \cup {file.rev} ELSE consented
      /\ UNCHANGED <<authored, file, fileLease, head, changes, journal, index, projection, merged>>
  BY DEF LoadRecord, Set, BesidesOperations
<1>2. MemoryTypes /\ file.rev \in Revision
  BY DEF LoadRecord, Loadable, NoFile, MemoryInv, MemoryTypes
<1>3. /\ o \in Operation /\ ~HoldsFile(o) /\ ~HoldsStore(o)
      /\ o.kind = kind /\ o.at = "waiting" /\ o.revs = {file.rev} /\ o.loaded.approved = {}
  <2>1. o \in Operation
    BY <1>2, IdleOK DEF Operation, StorePhase, StoreKind
  <2>2. o.kind = kind /\ o.at = "waiting" /\ o.revs = {file.rev} /\ o.loaded.approved = {}
    BY DEF Idle
  <2> QED  BY <2>1, <2>2 DEF HoldsFile, HoldsStore
<1> HIDE DEF o
<1>4. /\ op' \in [Process -> Operation] /\ op'[p] = o
      /\ \A q \in Process \ {p} : op'[q] = op[q]
      /\ fileLease' = Release(fileLease, p) /\ lease' = Release(lease, p)
  BY <1>1, <1>3, Stepping, IdleOK
<1>5. OperationOK(op[p])'
  BY <1>1, <1>2, <1>3, <1>4 DEF OperationOK, Formed, Consents, Carries, Tracks, Writes, WritePhase
<1>6. consented \subseteq consented' /\ consented' \subseteq Revision
  BY <1>1, <1>2 DEF MemoryTypes
<1> QED  BY <1>1, <1>2, <1>3, <1>4, <1>5, <1>6, QuietStep DEF MemoryTypes

(* The other operations of the store start with what HEAD holds, or with   *)
(* nothing.                                                                *)
LEMMA RequestStep ==
    ASSUME MemoryInv, NEW p \in Process,
           PrepareHistory(p) \/ \E kind \in {"revalidate", "index"} : Request(p, kind),
           BesidesOperations, lease' = lease, operations' \in Nat
    PROVE  MemoryInv'
<1>1. op[p] = Idle /\ lease' = Release(lease, p) /\ fileLease' = Release(fileLease, p)
  BY Stepping, IdleOK DEF PrepareHistory, Request, BesidesOperations
<1>2. UNCHANGED <<authored, file, fileLease, head, changes, journal, index, projection, merged,
                  consented>>
  BY DEF PrepareHistory, Request, BesidesOperations
<1>3. /\ op' \in [Process -> Operation]
      /\ \A q \in Process \ {p} : op'[q] = op[q]
      /\ op'[p].kind \in {"history", "revalidate", "index"}
      /\ op'[p].at = "waiting" /\ op'[p].loaded.approved = {}
  <2>1. CASE PrepareHistory(p)
    <3> DEFINE o == [Idle EXCEPT !.kind = "history", !.at = "waiting", !.revs = Committed[head]]
    <3>1. Committed[head] \in SUBSET Revision
      BY MemoryAssumption DEF MemoryInv, MemoryTypes
    <3>2. o \in Operation
      BY <3>1, IdleOK DEF Operation, StorePhase, StoreKind
    <3>3. o.kind = "history" /\ o.at = "waiting" /\ o.loaded.approved = {}
      BY DEF Idle
    <3>4. op' = [op EXCEPT ![p] = o]
      BY <2>1 DEF PrepareHistory, Set
    <3> HIDE DEF o
    <3> QED  BY <3>2, <3>3, <3>4, Stepping
  <2>2. CASE \E kind \in {"revalidate", "index"} : Request(p, kind)
    <3>1. PICK kind \in {"revalidate", "index"} : Request(p, kind)
      BY <2>2
    <3> DEFINE o == [Idle EXCEPT !.kind = kind, !.at = "waiting"]
    <3>2. o \in Operation
      BY IdleOK DEF Operation, StorePhase, StoreKind
    <3>3. o.kind = kind /\ o.at = "waiting" /\ o.loaded.approved = {}
      BY DEF Idle
    <3>4. op' = [op EXCEPT ![p] = o]
      BY <3>1 DEF Request, Set
    <3> HIDE DEF o
    <3> QED  BY <3>2, <3>3, <3>4, Stepping
  <2> QED  BY <2>1, <2>2
<1>4. ~HoldsFile(op'[p]) /\ ~HoldsStore(op'[p])
  BY <1>3 DEF HoldsFile, HoldsStore
<1>5. OperationOK(op[p])'
  BY <1>3 DEF OperationOK, Formed, Consents, Carries, Tracks, Writes, WritePhase
<1>6. MemoryTypes
  BY DEF MemoryInv
<1> QED  BY <1>1, <1>2, <1>3, <1>4, <1>5, <1>6, QuietStep DEF MemoryTypes

(* Taking the mutation lease.                                              *)
LEMMA AcquireLeaseStep ==
    ASSUME MemoryInv, NEW p \in Process, AcquireLease(p), BesidesOperations, operations' \in Nat
    PROVE  MemoryInv'
<1> DEFINE o == [op[p] EXCEPT !.at = "open"]
<1>1. /\ op[p].at = "waiting" /\ lease = None /\ lease' = p /\ op' = [op EXCEPT ![p] = o]
      /\ UNCHANGED <<authored, file, fileLease, head, changes, journal, index, projection, merged,
                     consented>>
  BY DEF AcquireLease, GoTo, Set, BesidesOperations
<1>2. /\ o \in Operation /\ o.at = "open" /\ o.kind = op[p].kind
      /\ o.revs = op[p].revs /\ o.loaded = op[p].loaded
  BY <1>1, Stepping DEF Operation, StorePhase
<1>3. op[p].kind \notin {"none", "write"}
  BY <1>1, Stepping DEF OperationOK, Formed, WritePhase
<1> HIDE DEF o
<1>4. /\ op' \in [Process -> Operation] /\ op'[p] = o
      /\ \A q \in Process \ {p} : op'[q] = op[q]
      /\ fileLease' = Release(fileLease, p)
  BY <1>1, <1>2, <1>3, Stepping DEF HoldsFile
<1>5. OperationOK(op[p])'
  <2>1. Formed(op[p])'
    BY <1>2, <1>3, <1>4, Stepping DEF OperationOK, Formed, WritePhase
  <2>2. Consents(op[p])'
    BY <1>1, <1>2, <1>4, Stepping DEF OperationOK, Consents
  <2>3. Carries(op[p])' /\ Tracks(op[p])' /\ Writes(op[p])'
    BY <1>2, <1>4 DEF Carries, Tracks, Writes
  <2> QED  BY <2>1, <2>2, <2>3 DEF OperationOK
<1>6. MemoryTypes /\ ~HoldsFile(o) /\ HoldsStore(o)
  BY <1>2, <1>3 DEF MemoryInv, HoldsFile, HoldsStore
<1> QED  BY <1>1, <1>2, <1>4, <1>5, <1>6, QuietStep DEF MemoryTypes

(* The steps of a revalidation up to its publication have the lease before *)
(* and after, and change nothing but the operation.                        *)
LEMMA RevalidationStep ==
    ASSUME MemoryInv, NEW p \in Process, op[p].kind = "revalidate",
           op[p].at \in StorePhase \ {"waiting"},
           op' \in [Process -> Operation], \A q \in Process \ {p} : op'[q] = op[q],
           op'[p].kind = "revalidate", op'[p].at \in StorePhase \ {"waiting"},
           OperationOK(op[p])', BesidesOperations, UNCHANGED <<lease, consented>>,
           operations' \in Nat
    PROVE  MemoryInv'
<1>1. /\ lease = p /\ lease' = p /\ fileLease' = Release(fileLease, p)
      /\ ~HoldsFile(op'[p]) /\ HoldsStore(op'[p])
  BY Stepping DEF HoldsFile, HoldsStore, BesidesOperations
<1>2. MemoryTypes
  BY DEF MemoryInv
<1> QED  BY <1>1, <1>2, QuietStep DEF MemoryTypes, BesidesOperations

(* Loading the journal and the active source.                              *)
LEMMA LoadJournalStep ==
    ASSUME MemoryInv, NEW p \in Process, LoadJournal(p), BesidesOperations, operations' \in Nat
    PROVE  MemoryInv'
<1> DEFINE o == [op[p] EXCEPT !.at = "loaded", !.loaded = journal, !.source = index.active]
<1>1. /\ op[p].kind = "revalidate" /\ op[p].at = "open" /\ index.active # None
      /\ op' = [op EXCEPT ![p] = o] /\ UNCHANGED <<lease, consented>>
  BY DEF LoadJournal, At, Set
<1>2. /\ index.active \in Source /\ journal \in Journal
      /\ journal.approved \subseteq consented
  BY <1>1 DEF MemoryInv, MemoryTypes, JournalInv
<1>3. /\ o \in Operation /\ o.kind = "revalidate" /\ o.at = "loaded"
      /\ o.loaded = journal /\ o.source = index.active
  BY <1>1, <1>2, Stepping DEF Operation, StorePhase
<1> HIDE DEF o
<1>4. /\ op' \in [Process -> Operation] /\ op'[p] = o
      /\ \A q \in Process \ {p} : op'[q] = op[q]
  BY <1>1, <1>3, Stepping
<1>5. OperationOK(op[p])'
  <2>1. Formed(op[p])' /\ Tracks(op[p])' /\ Writes(op[p])'
    BY <1>3, <1>4 DEF Formed, Tracks, Writes, WritePhase
  <2>2. Consents(op[p])' /\ Carries(op[p])'
    BY <1>1, <1>2, <1>3, <1>4 DEF Consents, Carries
  <2> QED  BY <2>1, <2>2 DEF OperationOK
<1> QED  BY <1>1, <1>3, <1>4, <1>5, RevalidationStep DEF StorePhase

(* The first capture of the Git state.                                     *)
LEMMA CaptureBeforeStep ==
    ASSUME MemoryInv, NEW p \in Process, CaptureBefore(p), BesidesOperations, operations' \in Nat
    PROVE  MemoryInv'
<1> DEFINE o == [op[p] EXCEPT !.at = "captured", !.before = head, !.moves = 0]
<1>1. /\ op[p].kind = "revalidate" /\ op[p].at = "loaded"
      /\ op' = [op EXCEPT ![p] = o] /\ UNCHANGED <<lease, consented>>
  BY DEF CaptureBefore, At, Set
<1>2. /\ o \in Operation /\ o.kind = "revalidate" /\ o.at = "captured" /\ o.before = head
      /\ o.loaded = op[p].loaded /\ o.source = op[p].source
  <2>1. head \in Head
    BY DEF MemoryInv, MemoryTypes
  <2>2. o \in Operation
    <3>1. op[p] \in Operation /\ head \in Head \cup {None} /\ 0 \in 0 .. 2
      BY <2>1, Stepping
    <3>2. "captured" \in {"idle"} \cup WritePhase \cup StorePhase
      BY DEF StorePhase
    <3> QED  BY <3>1, <3>2 DEF Operation
  <2> QED  BY <2>2, <1>1, Stepping DEF Operation
<1> HIDE DEF o
<1>3. /\ op' \in [Process -> Operation] /\ op'[p] = o
      /\ \A q \in Process \ {p} : op'[q] = op[q]
  BY <1>1, <1>2, Stepping
<1>4. OperationOK(op[p])'
  <2>1. Formed(op[p])' /\ Tracks(op[p])' /\ Writes(op[p])'
    BY <1>2, <1>3 DEF Formed, Tracks, Writes, WritePhase, BesidesOperations
  <2>2. Consents(op[p])' /\ Carries(op[p])'
    BY <1>1, <1>2, <1>3, Stepping DEF OperationOK, Consents, Carries
  <2> QED  BY <2>1, <2>2 DEF OperationOK
<1> QED  BY <1>1, <1>2, <1>3, <1>4, RevalidationStep DEF StorePhase

(* The evaluation, at HEAD if the first capture shows the indexed commit.  *)
LEMMA PrepareRecordsStep ==
    ASSUME MemoryInv, NEW p \in Process, PrepareRecords(p), BesidesOperations, operations' \in Nat
    PROVE  MemoryInv'
<1> DEFINE target == IF op[p].before = op[p].source.head THEN head ELSE None
           o == [op[p] EXCEPT !.at = "prepared", !.target = target]
<1>1. /\ op[p].kind = "revalidate" /\ op[p].at = "captured"
      /\ op' = [op EXCEPT ![p] = o] /\ UNCHANGED <<lease, consented>>
  BY DEF PrepareRecords, At, Set
<1>2. target \in Head \cup {None}
  BY DEF MemoryInv, MemoryTypes
<1>3. target \in {None, head} /\ (target # None => op[p].before = op[p].source.head)
  OBVIOUS
<1> HIDE DEF target
<1>4. /\ o \in Operation /\ o.kind = "revalidate" /\ o.at = "prepared" /\ o.target = target
      /\ o.loaded = op[p].loaded /\ o.source = op[p].source /\ o.before = op[p].before
      /\ o.moves = op[p].moves
  <2>1. o \in Operation
    <3>1. op[p] \in Operation
      BY Stepping
    <3>2. "prepared" \in {"idle"} \cup WritePhase \cup StorePhase
      BY DEF StorePhase
    <3> QED  BY <3>1, <3>2, <1>2 DEF Operation
  <2> QED  BY <2>1, <1>1, Stepping DEF Operation
<1> HIDE DEF o
<1>5. /\ op' \in [Process -> Operation] /\ op'[p] = o
      /\ \A q \in Process \ {p} : op'[q] = op[q]
  BY <1>1, <1>4, Stepping
<1>6. OperationOK(op[p])'
  <2>1. Formed(op[p])' /\ Writes(op[p])'
    BY <1>4, <1>5 DEF Formed, Writes, WritePhase
  <2>2. Consents(op[p])' /\ Carries(op[p])'
    BY <1>1, <1>4, <1>5, Stepping DEF OperationOK, Consents, Carries
  <2>3. Tracks(op[p])'
    BY <1>1, <1>3, <1>4, <1>5, Stepping DEF OperationOK, Tracks, BesidesOperations
  <2> QED  BY <2>1, <2>2, <2>3 DEF OperationOK
<1> QED  BY <1>1, <1>4, <1>5, <1>6, RevalidationStep DEF StorePhase

(* The second capture agrees with the first.                               *)
LEMMA CaptureAfterStep ==
    ASSUME MemoryInv, NEW p \in Process, CaptureAfter(p), BesidesOperations, operations' \in Nat
    PROVE  MemoryInv'
<1> DEFINE o == [op[p] EXCEPT !.at = "confirmed"]
<1>1. /\ op[p].kind = "revalidate" /\ op[p].at = "prepared" /\ head = op[p].before
      /\ op' = [op EXCEPT ![p] = o] /\ UNCHANGED <<lease, consented>>
  BY DEF CaptureAfter, At, GoTo, Set
<1>2. /\ o \in Operation /\ o.kind = "revalidate" /\ o.at = "confirmed"
      /\ o.target = op[p].target /\ o.loaded = op[p].loaded /\ o.source = op[p].source
      /\ o.before = op[p].before /\ o.moves = op[p].moves
  BY <1>1, Stepping DEF Operation, StorePhase
<1>3. op[p].moves \in {0, 1, 2}
  BY Stepping DEF Operation
<1> HIDE DEF o
<1>4. /\ op' \in [Process -> Operation] /\ op'[p] = o
      /\ \A q \in Process \ {p} : op'[q] = op[q]
  BY <1>1, <1>2, Stepping
<1>5. OperationOK(op[p])'
  <2>1. Formed(op[p])' /\ Writes(op[p])'
    BY <1>2, <1>4 DEF Formed, Writes, WritePhase
  <2>2. Consents(op[p])' /\ Carries(op[p])'
    BY <1>1, <1>2, <1>4, Stepping DEF OperationOK, Consents, Carries
  <2>3. Tracks(op[p])'
    BY <1>1, <1>2, <1>3, <1>4, Stepping DEF OperationOK, Tracks
  <2> QED  BY <2>1, <2>2, <2>3 DEF OperationOK
<1> QED  BY <1>1, <1>2, <1>4, <1>5, RevalidationStep DEF StorePhase

(* An operation of the store that fails.                                   *)
LEMMA AbandonOperationStep ==
    ASSUME MemoryInv, NEW p \in Process, AbandonOperation(p), BesidesOperations, operations' \in Nat
    PROVE  MemoryInv'
<1>1. /\ op[p].kind # "write" /\ op' = [op EXCEPT ![p] = Idle] /\ lease' = Release(lease, p)
      /\ UNCHANGED <<authored, file, fileLease, head, changes, journal, index, projection, merged,
                     consented>>
  BY DEF AbandonOperation, End, Set, BesidesOperations
<1>2. fileLease' = Release(fileLease, p)
  BY <1>1, Stepping DEF HoldsFile
<1>3. MemoryTypes
  BY DEF MemoryInv
<1> QED  BY <1>1, <1>2, <1>3, EndStep DEF MemoryTypes

(* A crash of any operation.                                               *)
LEMMA CrashStep ==
    ASSUME MemoryInv, NEW p \in Process, Crash(p),
           UNCHANGED <<authored, file, head, operations, journal, index, projection, merged,
                       consented>>
    PROVE  MemoryInv'
<1>1. /\ op' = [op EXCEPT ![p] = Idle] /\ lease' = Release(lease, p)
      /\ fileLease' = Release(fileLease, p) /\ changes' = changes + 1
  BY DEF Crash, Change, Set
<1>2. MemoryTypes
  BY DEF MemoryInv
<1>3. changes' \in Nat
  BY <1>1, <1>2 DEF MemoryTypes
<1> QED  BY <1>1, <1>2, <1>3, EndStep DEF MemoryTypes

-----------------------------------------------------------------------------
(* An operation of the store that ends with a change to the store: locks   *)
(* and operations.                                                         *)
LEMMA EndedOperation ==
    ASSUME MemoryInv, NEW p \in Process, op[p].kind # "write", End(p),
           UNCHANGED <<authored, file, fileLease, head, consented>>,
           index'.epoch = index.epoch
    PROVE  /\ op' \in [Process -> Operation]
           /\ \A q \in Process : OperationOK(op[q])'
           /\ LocksInv' /\ lease' \in Process \cup {None}
<1>1. op' = [op EXCEPT ![p] = Idle] /\ lease' = Release(lease, p)
  BY DEF End, Set
<1>2. /\ op' \in [Process -> Operation] /\ op'[p] = Idle
      /\ \A q \in Process \ {p} : op'[q] = op[q]
      /\ fileLease' = Release(fileLease, p)
  BY <1>1, IdleOK, Stepping DEF HoldsFile
<1>3. OperationOK(op[p])' /\ ~HoldsFile(op'[p]) /\ ~HoldsStore(op'[p])
  BY <1>2, IdleOK
<1>4. LocksInv' /\ lease' \in Process \cup {None}
  BY <1>1, <1>2, <1>3, LocksKept
<1> QED  BY <1>2, <1>3, <1>4, OthersKept

(* The imports: versions are added, and approved only if asked for; what   *)
(* team synchronisation adds to the merges does not compete with them.     *)
LEMMA ImportStep ==
    ASSUME MemoryInv, NEW p \in Process,
           ApproveLoaded(p) \/ SyncTeamMemory(p) \/ PersistHistory(p),
           FilesUnchanged, operations' \in Nat
    PROVE  MemoryInv'
<1>1. /\ op[p].kind # "write" /\ End(p)
      /\ UNCHANGED <<authored, file, fileLease, head, changes, index, projection, consented>>
  BY DEF ApproveLoaded, SyncTeamMemory, PersistHistory, At, FilesUnchanged
<1>2. /\ op' \in [Process -> Operation]
      /\ \A q \in Process : OperationOK(op[q])'
      /\ LocksInv' /\ lease' \in Process \cup {None}
  BY <1>1, EndedOperation
<1>3. PICK approved \in SUBSET op[p].revs :
        /\ journal' = [versions |-> journal.versions \cup op[p].revs,
                       approved |-> journal.approved \cup approved]
        /\ approved \subseteq consented
  <2>1. CASE ApproveLoaded(p)
    BY <2>1, Stepping DEF ApproveLoaded, At, Import, OperationOK, Consents
  <2>2. CASE SyncTeamMemory(p) \/ PersistHistory(p)
    <3>1. /\ {} \in SUBSET op[p].revs /\ {} \subseteq consented
          /\ journal' = [versions |-> journal.versions \cup op[p].revs,
                         approved |-> journal.approved \cup {}]
      BY <2>2 DEF SyncTeamMemory, PersistHistory, Import
    <3> QED  BY <3>1
  <2> QED  BY <2>1, <2>2
<1>4. op[p].revs \subseteq Revision /\ MemoryTypes /\ JournalInv
  BY Stepping DEF Operation, MemoryInv
<1>5. /\ journal' \in Journal /\ journal'.versions = journal.versions \cup op[p].revs
      /\ journal'.approved = journal.approved \cup approved
  BY <1>3, <1>4 DEF MemoryTypes, Journal
<1>6. \/ merged' = merged
      \/ /\ SyncTeamMemory(p)
         /\ merged' = merged \cup {r \in op[p].revs \ journal.versions : IsMerge(r)}
  BY DEF ApproveLoaded, SyncTeamMemory, PersistHistory
<1>7. merged' \subseteq Revision /\ merged' \subseteq journal'.versions
  BY <1>4, <1>5, <1>6 DEF MemoryTypes, JournalInv
<1>8. JournalInv'
  BY <1>1, <1>3, <1>4, <1>5, <1>7 DEF JournalInv
<1>9. TeamMergesNeverCompete'
  <2>1. \A m \in merged : /\ m \in journal.versions /\ Parents(m) \subseteq journal.versions
                          /\ \A n \in merged \ {m} : Parents(m) \cap Parents(n) = {}
    BY <1>4 DEF MemoryInv, JournalInv, TeamMergesNeverCompete
  <2>2. \A r : Parents(r)' = Parents(r)
    BY <1>1 DEF Parents
  <2>3. CASE merged' = merged
    BY <2>1, <2>2, <2>3, <1>5 DEF TeamMergesNeverCompete
  <2>4. CASE /\ SyncTeamMemory(p)
             /\ merged' = merged \cup {r \in op[p].revs \ journal.versions : IsMerge(r)}
    <3>1. PICK r \in Revision : op[p].revs = {r}
      BY <2>4, Stepping DEF SyncTeamMemory, At, OperationOK, Formed
    <3>2. VerifyTeamMergeHeads(r)
      BY <2>4, <3>1, OneVersion DEF SyncTeamMemory
    <3>3. CASE r \in journal.versions \/ ~IsMerge(r)
      <4>1. merged' = merged
        BY <2>4, <3>1, <3>3
      <4> QED  BY <4>1, <2>3
    <3>4. CASE r \notin journal.versions /\ IsMerge(r)
      <4>1. merged' = merged \cup {r}
        BY <2>4, <3>1, <3>4
      <4>2. \A q \in Parents(r) : /\ q \in journal.versions
                                  /\ \A c \in journal.versions : q \notin Parents(c)
        BY <3>2, <3>4 DEF VerifyTeamMergeHeads
      <4>3. \A m \in merged' : /\ Parents(m) \subseteq journal'.versions
                               /\ \A n \in merged' \ {m} : Parents(m) \cap Parents(n) = {}
        BY <4>1, <4>2, <2>1, <1>5
      <4> QED  BY <4>3, <2>2 DEF TeamMergesNeverCompete
    <3> QED  BY <3>3, <3>4
  <2> QED  BY <2>3, <2>4, <1>6
<1>10. IndexInv' /\ ProjectionInv'
  BY <1>1 DEF MemoryInv, IndexInv, ProjectionInv, SupersedesApproved, EvaluatedAtIndexedHead,
              Ancestors, Closed, Parents
<1>11. MemoryTypes'
  BY <1>1, <1>2, <1>4, <1>5, <1>7 DEF MemoryTypes, NoFile
<1> QED  BY <1>2, <1>8, <1>9, <1>10, <1>11 DEF MemoryInv

(* The publication of a projection: its selection supersedes what was      *)
(* approved when the journal was loaded.                                   *)
LEMMA PublishProjectionStep ==
    ASSUME MemoryInv, NEW p \in Process, PublishProjection(p), FilesUnchanged, operations' \in Nat
    PROVE  MemoryInv'
<1>1. /\ op[p].kind = "revalidate" /\ op[p].at = "confirmed" /\ End(p)
      /\ UNCHANGED <<authored, file, fileLease, head, changes, journal, index, merged, consented>>
  BY DEF PublishProjection, At, FilesUnchanged
<1>2. /\ projection'.source = op[p].source /\ projection'.head = op[p].target
      /\ projection'.selection = SelectMemoryHead(op[p].loaded)
      /\ projection'.of = op[p].loaded /\ projection'.moves = op[p].moves
  BY DEF PublishProjection
<1>3. /\ op' \in [Process -> Operation]
      /\ \A q \in Process : OperationOK(op[q])'
      /\ LocksInv' /\ lease' \in Process \cup {None}
  BY <1>1, EndedOperation
<1>4. /\ MemoryTypes /\ op[p].loaded \in Journal /\ op[p].loaded.approved \subseteq consented
      /\ op[p].source \in Source
  BY <1>1, Stepping DEF MemoryInv, Operation, OperationOK, Consents, Carries
<1>5. ProjectionInv'
  <2>1. SupersedesApproved(projection)'
    <3>1. SelectMemoryHead(op[p].loaded).state = "selected"
            => op[p].loaded.approved \subseteq Ancestors(SelectMemoryHead(op[p].loaded).rev)
      BY <1>4, SelectedSupersedes DEF MemoryTypes
    <3>2. \A r : Ancestors(r)' = Ancestors(r)
      BY <1>1 DEF Ancestors, Closed, Parents
    <3> QED  BY <3>1, <3>2, <1>2 DEF SupersedesApproved
  <2>2. EvaluatedAtIndexedHead(projection)'
    BY <1>1, <1>2, Stepping DEF EvaluatedAtIndexedHead, OperationOK, Tracks
  <2> QED  BY <2>1, <2>2, <1>1, <1>2, <1>4 DEF ProjectionInv
<1>6. JournalInv' /\ IndexInv'
  BY <1>1 DEF MemoryInv, JournalInv, IndexInv
<1>7. TeamMergesNeverCompete'
  BY <1>1 DEF MemoryInv, TeamMergesNeverCompete, Parents
<1>8. MemoryTypes'
  BY <1>1, <1>3, <1>4 DEF MemoryTypes, NoFile
<1> QED  BY <1>3, <1>5, <1>6, <1>7, <1>8 DEF MemoryInv

(* An index run reserves an epoch.                                         *)
LEMMA ReserveEpochStep ==
    ASSUME MemoryInv, NEW p \in Process, ReserveEpoch(p), FilesUnchanged, operations' \in Nat
    PROVE  MemoryInv'
<1> DEFINE o == [op[p] EXCEPT !.at = "reserved", !.before = head]
<1>1. /\ op[p].kind = "index" /\ op[p].at = "open" /\ op' = [op EXCEPT ![p] = o]
      /\ index.epoch < MaxEpoch /\ index' = [index EXCEPT !.epoch = @ + 1]
      /\ UNCHANGED <<authored, file, fileLease, head, changes, journal, projection, lease, merged,
                     consented>>
  BY DEF ReserveEpoch, At, Set, FilesUnchanged
<1>2. MemoryTypes /\ head \in Head
  BY DEF MemoryInv, MemoryTypes
<1>3. /\ index' \in [epoch : 0 .. MaxEpoch, active : Source \cup {None}]
      /\ index'.epoch = index.epoch + 1 /\ index'.active = index.active /\ 1 <= index'.epoch
      /\ index.epoch \in Nat
  BY <1>1, <1>2, MemoryAssumption DEF MemoryTypes
<1>4. o \in Operation
  <2>1. op[p] \in Operation /\ head \in Head \cup {None}
    BY <1>2, Stepping
  <2>2. "reserved" \in {"idle"} \cup WritePhase \cup StorePhase
    BY DEF StorePhase
  <2> QED  BY <2>1, <2>2 DEF Operation
<1>5. /\ o.kind = "index" /\ o.at = "reserved" /\ o.before = head /\ o.loaded = op[p].loaded
  BY <1>1, <1>4, Stepping DEF Operation
<1> HIDE DEF o
<1>6. /\ op' \in [Process -> Operation] /\ op'[p] = o
      /\ \A q \in Process \ {p} : op'[q] = op[q]
      /\ lease = p /\ ~HoldsFile(o) /\ HoldsStore(o) /\ fileLease' = Release(fileLease, p)
  BY <1>1, <1>4, <1>5, Stepping DEF HoldsFile, HoldsStore
<1>7. OperationOK(op[p])'
  <2>1. Formed(op[p])' /\ Tracks(op[p])' /\ Writes(op[p])'
    BY <1>5, <1>6 DEF Formed, Tracks, Writes, WritePhase
  <2>2. Consents(op[p])' /\ Carries(op[p])'
    BY <1>1, <1>2, <1>3, <1>5, <1>6, Stepping DEF OperationOK, Consents, Carries
  <2> QED  BY <2>1, <2>2 DEF OperationOK
<1>8. \A q \in Process : OperationOK(op[q])'
  BY <1>1, <1>3, <1>6, <1>7, OthersKept
<1>9. LocksInv'
  BY <1>1, <1>6, LocksKept
<1>10. IndexInv'
  <2>1. index.active # None => index.active \in Source
    BY <1>2 DEF MemoryTypes
  <2> QED  BY <1>3, <2>1 DEF MemoryInv, IndexInv, Source
<1>11. JournalInv' /\ TeamMergesNeverCompete'
  BY <1>1 DEF MemoryInv, JournalInv, TeamMergesNeverCompete, Parents
<1>12. ProjectionInv'
  BY <1>1 DEF MemoryInv, ProjectionInv, SupersedesApproved, EvaluatedAtIndexedHead, Ancestors,
              Closed, Parents
<1>13. MemoryTypes'
  BY <1>1, <1>2, <1>3, <1>6 DEF MemoryTypes, NoFile
<1> QED  BY <1>8, <1>9, <1>10, <1>11, <1>12, <1>13 DEF MemoryInv

(* An index run publishes the generation of its epoch.                     *)
LEMMA ActivateGenerationStep ==
    ASSUME MemoryInv, NEW p \in Process, ActivateGeneration(p), FilesUnchanged, operations' \in Nat
    PROVE  MemoryInv'
<1>1. /\ op[p].kind = "index" /\ op[p].at = "reserved" /\ End(p)
      /\ index' = [index EXCEPT !.active = [epoch |-> index.epoch, head |-> op[p].before]]
      /\ UNCHANGED <<authored, file, fileLease, head, changes, journal, projection, merged,
                     consented>>
  BY DEF ActivateGeneration, At, FilesUnchanged
<1>2. MemoryTypes /\ op[p].before \in Head /\ 1 <= index.epoch
  BY <1>1, Stepping DEF MemoryInv, OperationOK, Carries
<1>3. /\ index.epoch \in 1 .. MaxEpoch /\ index'.epoch = index.epoch
      /\ index'.active = [epoch |-> index.epoch, head |-> op[p].before]
  BY <1>1, <1>2, MemoryAssumption DEF MemoryTypes
<1>4. /\ index' \in [epoch : 0 .. MaxEpoch, active : Source \cup {None}]
      /\ index'.active.epoch <= index'.epoch
  BY <1>1, <1>2, <1>3 DEF MemoryTypes, Source
<1>5. /\ op' \in [Process -> Operation]
      /\ \A q \in Process : OperationOK(op[q])'
      /\ LocksInv' /\ lease' \in Process \cup {None}
  BY <1>1, <1>3, EndedOperation
<1>6. IndexInv'
  BY <1>4 DEF IndexInv
<1>7. JournalInv' /\ TeamMergesNeverCompete'
  BY <1>1 DEF MemoryInv, JournalInv, TeamMergesNeverCompete, Parents
<1>8. ProjectionInv'
  BY <1>1 DEF MemoryInv, ProjectionInv, SupersedesApproved, EvaluatedAtIndexedHead, Ancestors,
              Closed, Parents
<1>9. MemoryTypes'
  BY <1>1, <1>2, <1>4, <1>5 DEF MemoryTypes, NoFile
<1> QED  BY <1>5, <1>6, <1>7, <1>8, <1>9 DEF MemoryInv

-----------------------------------------------------------------------------
(* An edit from outside: a writer past its second look has been raced.     *)
LEMMA EditFileStep ==
    ASSUME MemoryInv, NEW f \in {NoFile} \cup [rev : Revision, links : 1 .. 2], EditFile(f),
           UNCHANGED <<authored, lease, operations, journal, index, projection, merged, consented>>
    PROVE  MemoryInv'
<1>1. /\ file' = f /\ changes' = changes + 1 /\ UNCHANGED <<fileLease, head>>
      /\ op' = [p \in Process |-> [op[p] EXCEPT !.raced = @ \/ op[p].at = "replacing"]]
  BY DEF EditFile, Change
<1>2. MemoryTypes
  BY DEF MemoryInv
<1>3. ASSUME NEW p \in Process
      PROVE  /\ op'[p] \in Operation
             /\ op'[p].kind = op[p].kind /\ op'[p].at = op[p].at /\ op'[p].revs = op[p].revs
             /\ op'[p].saw = op[p].saw /\ op'[p].loaded = op[p].loaded
             /\ op'[p].source = op[p].source /\ op'[p].before = op[p].before
             /\ op'[p].target = op[p].target /\ op'[p].moves = op[p].moves
             /\ op[p].at = "replacing" => op'[p].raced
  <2>1. op[p] \in Operation
    BY Stepping
  <2>2. PICK b \in BOOLEAN : op'[p] = [op[p] EXCEPT !.raced = b] /\ (op[p].at = "replacing" => b)
    BY <1>1
  <2> QED  BY <2>1, <2>2 DEF Operation
<1>4. ASSUME NEW p \in Process PROVE OperationOK(op[p])'
  <2>1. OperationOK(op[p])
    BY Stepping
  <2>2. Formed(op[p])'
    BY <1>3, <2>1 DEF OperationOK, Formed
  <2>3. Consents(op[p])' /\ Carries(op[p])'
    BY <1>3, <2>1 DEF OperationOK, Consents, Carries
  <2>4. Tracks(op[p])'
    BY <1>1, <1>3, <2>1 DEF OperationOK, Tracks
  <2>5. Writes(op[p])'
    <3>1. op[p].at \in {"staged", "replacing"} => \A r \in op[p].revs : ValidateUpdate(r, op[p].saw)
      BY <2>1 DEF OperationOK, Writes
    <3>2. (op[p].at \in {"staged", "replacing"}
             => \A r \in op[p].revs : ValidateUpdate(r, op[p].saw))'
      BY <3>1, <1>3 DEF ValidateUpdate, Parents, Display
    <3>3. op'[p].at = "replacing" => op'[p].saw # None /\ op'[p].raced
      BY <2>1, <1>3 DEF OperationOK, Writes
    <3> QED  BY <3>2, <3>3 DEF Writes
  <2> QED  BY <2>2, <2>3, <2>4, <2>5 DEF OperationOK
<1>5. LocksInv'
  BY <1>1, <1>3 DEF MemoryInv, LocksInv, HoldsFile, HoldsStore
<1>6. JournalInv' /\ TeamMergesNeverCompete' /\ IndexInv' /\ ProjectionInv'
  BY StoreKept
<1>7. MemoryTypes'
  <2>1. op' \in [Process -> Operation]
    BY <1>1, <1>3
  <2> QED  BY <2>1, <1>1, <1>2 DEF MemoryTypes, NoFile
<1> QED  BY <1>4, <1>5, <1>6, <1>7 DEF MemoryInv

(* HEAD moves: a revalidation between its captures counts it.              *)
LEMMA MoveHeadStep ==
    ASSUME MemoryInv, NEW h \in Head, MoveHead(h),
           UNCHANGED <<authored, lease, operations, journal, index, projection, merged, consented>>
    PROVE  MemoryInv'
<1>1. /\ head' = h /\ changes' = changes + 1 /\ UNCHANGED <<file, fileLease>>
      /\ op' = [p \in Process |-> IF op[p].at \in {"captured", "prepared"} /\ op[p].moves < 2
                                  THEN [op[p] EXCEPT !.moves = @ + 1]
                                  ELSE op[p]]
  BY DEF MoveHead, Change
<1>2. MemoryTypes
  BY DEF MemoryInv
<1>3. ASSUME NEW p \in Process
      PROVE  /\ op'[p] \in Operation
             /\ op'[p].kind = op[p].kind /\ op'[p].at = op[p].at /\ op'[p].revs = op[p].revs
             /\ op'[p].saw = op[p].saw /\ op'[p].loaded = op[p].loaded
             /\ op'[p].source = op[p].source /\ op'[p].before = op[p].before
             /\ op'[p].target = op[p].target /\ op'[p].raced = op[p].raced
             /\ op[p].moves \in 0 .. 2
             /\ op'[p].moves = IF op[p].at \in {"captured", "prepared"} /\ op[p].moves < 2
                               THEN op[p].moves + 1 ELSE op[p].moves
  <2>1. op[p] \in Operation /\ op[p].moves \in 0 .. 2
    BY Stepping DEF Operation
  <2>2. CASE op[p].at \in {"captured", "prepared"} /\ op[p].moves < 2
    <3>1. op'[p] = [op[p] EXCEPT !.moves = op[p].moves + 1] /\ op[p].moves + 1 \in 0 .. 2
      BY <1>1, <2>1, <2>2
    <3> QED  BY <3>1, <2>1, <2>2 DEF Operation
  <2>3. CASE ~(op[p].at \in {"captured", "prepared"} /\ op[p].moves < 2)
    BY <1>1, <2>1, <2>3
  <2> QED  BY <2>2, <2>3
<1>4. ASSUME NEW p \in Process PROVE OperationOK(op[p])'
  <2>1. OperationOK(op[p])
    BY Stepping
  <2>2. Formed(op[p])'
    BY <1>3, <2>1 DEF OperationOK, Formed
  <2>3. Consents(op[p])' /\ Carries(op[p])'
    BY <1>3, <2>1 DEF OperationOK, Consents, Carries
  <2>4. Tracks(op[p])'
    BY <1>3, <2>1 DEF OperationOK, Tracks
  <2>5. Writes(op[p])'
    BY <1>1, <1>3, <2>1 DEF OperationOK, Writes, ValidateUpdate, Parents, Display
  <2> QED  BY <2>2, <2>3, <2>4, <2>5 DEF OperationOK
<1>5. LocksInv'
  BY <1>1, <1>3 DEF MemoryInv, LocksInv, HoldsFile, HoldsStore
<1>6. JournalInv' /\ TeamMergesNeverCompete' /\ IndexInv' /\ ProjectionInv'
  BY StoreKept
<1>7. MemoryTypes'
  <2>1. op' \in [Process -> Operation]
    BY <1>1, <1>3
  <2> QED  BY <2>1, <1>1, <1>2 DEF MemoryTypes, NoFile
<1> QED  BY <1>4, <1>5, <1>6, <1>7 DEF MemoryInv

-----------------------------------------------------------------------------
(* The invariant holds at first, in a new store and in an indexed one.     *)
LEMMA MemoryInitInv == MemoryInit => MemoryInv
<1> SUFFICES ASSUME MemoryInit PROVE MemoryInv
  OBVIOUS
<1>1. /\ authored \in Histories /\ file = NoFile /\ fileLease = None
      /\ op = [p \in Process |-> Idle] /\ head \in Head /\ changes = 0
      /\ projection = None /\ lease = None /\ operations = 0 /\ merged = {} /\ consented = {}
  BY DEF MemoryInit, FilesInit
<1>2. /\ index \in [epoch : 0 .. MaxEpoch, active : Source \cup {None}]
      /\ journal \in Journal /\ journal.approved = {} /\ IndexInv
  <2>1. CASE /\ index = [epoch |-> 0, active |-> None]
             /\ journal = [versions |-> {}, approved |-> {}]
    BY <2>1, MemoryAssumption DEF Journal, IndexInv
  <2>2. CASE /\ index = [epoch |-> 1, active |-> [epoch |-> 1, head |-> head]]
             /\ journal = [versions |-> Committed[head], approved |-> {}]
    BY <2>2, <1>1, MemoryAssumption DEF Journal, IndexInv, Source
  <2> QED  BY <2>1, <2>2 DEF MemoryInit
<1>3. \A p \in Process : op[p] = Idle
  BY <1>1
<1>4. MemoryTypes
  BY <1>1, <1>2, IdleOK DEF MemoryTypes
<1>5. \A p \in Process : OperationOK(op[p])
  <2> TAKE p \in Process
  <2>1. op[p].kind = "none" /\ op[p].at = "idle" /\ op[p].loaded.approved = {}
    BY <1>3 DEF Idle
  <2> QED
    BY <2>1 DEF OperationOK, Formed, Consents, Carries, Tracks, Writes, WritePhase
<1>6. LocksInv
  BY <1>1, <1>3, IdleOK, FilesAssumption DEF LocksInv
<1>7. JournalInv /\ TeamMergesNeverCompete /\ ProjectionInv
  BY <1>1, <1>2 DEF JournalInv, TeamMergesNeverCompete, ProjectionInv
<1> QED  BY <1>2, <1>4, <1>5, <1>6, <1>7 DEF MemoryInv

(* Every step keeps the invariant.                                         *)
LEMMA MemoryNextInv == MemoryInv /\ [MemoryNext]_memoryVars => MemoryInv'
<1> SUFFICES ASSUME MemoryInv, [MemoryNext]_memoryVars PROVE MemoryInv'
  OBVIOUS
<1>1. operations \in Nat
  BY DEF MemoryInv, MemoryTypes
<1>2. ASSUME NEW p \in Process, StartStoreOperation(p), FilesUnchanged,
             UNCHANGED <<storeVars, lease, merged>>
      PROVE  MemoryInv'
  <2>1. BesidesOperations /\ operations' \in Nat
    BY <1>1, <1>2 DEF BesidesOperations, FilesUnchanged, storeVars, StartStoreOperation, Begin
  <2>2. \/ \E kind \in {"approve", "sync"} : LoadRecord(p, kind)
        \/ PrepareHistory(p) \/ \E kind \in {"revalidate", "index"} : Request(p, kind)
    BY <1>2 DEF StartStoreOperation
  <2> QED  BY <1>2, <2>1, <2>2, LoadRecordStep, RequestStep
<1>3. ASSUME NEW p \in Process, StoreStep(p), FilesUnchanged, UNCHANGED operations
      PROVE  MemoryInv'
  <2>1. operations' \in Nat
    BY <1>1, <1>3
  <2>2. ASSUME AcquireLease(p) \/ LoadJournal(p) \/ CaptureBefore(p) \/ PrepareRecords(p)
                 \/ CaptureAfter(p) \/ AbandonOperation(p)
        PROVE  BesidesOperations
    BY <1>3, <2>2 DEF BesidesOperations, FilesUnchanged, storeVars, AcquireLease, LoadJournal,
                      CaptureBefore, PrepareRecords, CaptureAfter, AbandonOperation
  <2>3. CASE AcquireLease(p)  BY <2>1, <2>2, <2>3, AcquireLeaseStep
  <2>4. CASE ApproveLoaded(p) \/ SyncTeamMemory(p) \/ PersistHistory(p)
    BY <1>3, <2>1, <2>4, ImportStep
  <2>5. CASE LoadJournal(p)  BY <2>1, <2>2, <2>5, LoadJournalStep
  <2>6. CASE CaptureBefore(p)  BY <2>1, <2>2, <2>6, CaptureBeforeStep
  <2>7. CASE PrepareRecords(p)  BY <2>1, <2>2, <2>7, PrepareRecordsStep
  <2>8. CASE CaptureAfter(p)  BY <2>1, <2>2, <2>8, CaptureAfterStep
  <2>9. CASE PublishProjection(p)  BY <1>3, <2>1, <2>9, PublishProjectionStep
  <2>10. CASE ReserveEpoch(p)  BY <1>3, <2>1, <2>10, ReserveEpochStep
  <2>11. CASE ActivateGeneration(p)  BY <1>3, <2>1, <2>11, ActivateGenerationStep
  <2>12. CASE AbandonOperation(p)  BY <2>1, <2>2, <2>12, AbandonOperationStep
  <2> QED
    BY <1>3, <2>3, <2>4, <2>5, <2>6, <2>7, <2>8, <2>9, <2>10, <2>11, <2>12 DEF StoreStep
<1>4. ASSUME NEW p \in Process, Begin, NEW r \in Revision, StartWrite(p, r), StoreUnchanged,
             UNCHANGED <<authored, head, changes, lease>>
      PROVE  MemoryInv'
  <2>1. BesidesFile /\ operations' \in Nat
    BY <1>1, <1>4 DEF BesidesFile, StoreUnchanged, storeVars, Begin
  <2> QED  BY <1>4, <2>1, StartWriteStep
<1>5. ASSUME NEW p \in Process, WriteStep(p), StoreUnchanged,
             UNCHANGED <<authored, head, changes, lease, operations>>
      PROVE  MemoryInv'
  <2>1. BesidesFile /\ operations' \in Nat
    BY <1>1, <1>5 DEF BesidesFile, StoreUnchanged, storeVars
  <2> QED
    BY <1>5, <2>1, AcquireWriteLeaseStep, CurrentRecordStep, LinkTargetStep,
       RevalidateCurrentStep, EndWriteStep DEF WriteStep
<1>6. ASSUME NEW p \in Process, Crash(p), StoreUnchanged,
             UNCHANGED <<authored, file, head, operations>>
      PROVE  MemoryInv'
  BY <1>6, CrashStep DEF StoreUnchanged, storeVars
<1>7. ASSUME \/ \E r \in Revision : EditFile([rev |-> r, links |-> 1])
             \/ \E r \in Revision : file.links = 2 /\ EditFile([file EXCEPT !.rev = r])
             \/ EditFile(NoFile),
             StoreUnchanged, UNCHANGED <<authored, lease, operations>>
      PROVE  MemoryInv'
  <2>1. \E f \in {NoFile} \cup [rev : Revision, links : 1 .. 2] : EditFile(f)
    <3>1. CASE \E r \in Revision : EditFile([rev |-> r, links |-> 1])
      <4>1. PICK r \in Revision : EditFile([rev |-> r, links |-> 1])
        BY <3>1
      <4>2. [rev |-> r, links |-> 1] \in [rev : Revision, links : 1 .. 2]
        OBVIOUS
      <4> QED  BY <4>1, <4>2
    <3>2. CASE \E r \in Revision : file.links = 2 /\ EditFile([file EXCEPT !.rev = r])
      <4>1. PICK r \in Revision : file.links = 2 /\ EditFile([file EXCEPT !.rev = r])
        BY <3>2
      <4>2. [file EXCEPT !.rev = r] \in [rev : Revision, links : 1 .. 2]
        BY <4>1 DEF MemoryInv, MemoryTypes, NoFile
      <4> QED  BY <4>1, <4>2
    <3>3. CASE EditFile(NoFile)
      BY <3>3
    <3> QED  BY <1>7, <3>1, <3>2, <3>3
  <2> QED  BY <1>7, <2>1, EditFileStep DEF StoreUnchanged, storeVars
<1>8. ASSUME NEW h \in Head, MoveHead(h), StoreUnchanged,
             UNCHANGED <<authored, lease, operations>>
      PROVE  MemoryInv'
  BY <1>8, MoveHeadStep DEF StoreUnchanged, storeVars
<1>9. CASE UNCHANGED memoryVars
  <2>1. /\ UNCHANGED <<authored, file, fileLease, op, head, changes>>
        /\ UNCHANGED <<journal, index, projection, lease, operations, merged, consented>>
    BY <1>9 DEF memoryVars, fileVars, storeVars
  <2>2. MemoryTypes'
    BY <2>1 DEF MemoryInv, MemoryTypes, NoFile
  <2>3. (\A p \in Process : OperationOK(op[p]))' /\ LocksInv'
    BY <2>1 DEF MemoryInv, OperationOK, Formed, Consents, Carries, Tracks, Writes, ValidateUpdate,
                Parents, Display, LocksInv
  <2>4. JournalInv' /\ TeamMergesNeverCompete' /\ IndexInv' /\ ProjectionInv'
    BY <2>1, StoreKept
  <2> QED  BY <2>2, <2>3, <2>4 DEF MemoryInv
<1> QED
  BY <1>2, <1>3, <1>4, <1>5, <1>6, <1>7, <1>8, <1>9 DEF MemoryNext

(* The inductive invariant holds in every reachable state.                 *)
THEOREM MemoryInvariance == MemorySpec => []MemoryInv
<1> QED  BY MemoryInitInv, MemoryNextInv, PTL DEF MemorySpec

(* Types; a lock is held exactly during the operations that need it,       *)
(* whoever fails or crashes.                                               *)
THEOREM MemoryTypeCorrect == MemorySpec => []MemoryTypeOK
<1>1. MemoryInv => MemoryTypeOK
  <2> SUFFICES ASSUME MemoryInv PROVE MemoryTypeOK
    OBVIOUS
  <2>1. /\ authored \in Histories
        /\ file \in {NoFile} \cup [rev : Revision, links : 1 .. 2]
        /\ head \in Head
        /\ journal \in [versions : SUBSET Revision, approved : SUBSET Revision]
        /\ journal.approved \subseteq journal.versions
        /\ index \in [epoch : 0 .. MaxEpoch,
                      active : [epoch : 1 .. MaxEpoch, head : Head] \cup {None}]
        /\ index.active # None => index.active.epoch <= index.epoch
    BY DEF MemoryInv, MemoryTypes, JournalInv, IndexInv, Journal, Source
  <2>2. projection # None => /\ projection.source \in [epoch : 1 .. MaxEpoch, head : Head]
                             /\ projection.of \in [versions : SUBSET Revision,
                                                   approved : SUBSET Revision]
    BY DEF MemoryInv, ProjectionInv, Journal, Source
  <2>3. ASSUME NEW p \in Process
        PROVE  /\ op[p].revs \subseteq Revision
               /\ op[p].loaded \in [versions : SUBSET Revision, approved : SUBSET Revision]
               /\ fileLease = p <=> op[p].kind = "write" /\ op[p].at # "queued"
               /\ lease = p <=> op[p].kind \notin {"none", "write"} /\ op[p].at # "waiting"
    BY Stepping DEF Operation, Journal, HoldsFile, HoldsStore
  <2> QED  BY <2>1, <2>2, <2>3 DEF MemoryTypeOK
<1> QED  BY <1>1, MemoryInvariance, PTL

(* What recall serves supersedes every version approved when the journal   *)
(* was loaded, was asked for, and was evaluated at the indexed commit.     *)
THEOREM RecallGrounded == MemorySpec => []RecallIsGrounded
<1>1. MemoryInv => RecallIsGrounded
  BY DEF MemoryInv, ProjectionInv, RecallIsGrounded, Recalled
<1> QED  BY <1>1, MemoryInvariance, PTL

(* Two merges that team synchronisation inserts never join one version.    *)
THEOREM MergesNeverCompete == MemorySpec => []TeamMergesNeverCompete
<1>1. MemoryInv => TeamMergesNeverCompete
  BY DEF MemoryInv
<1> QED  BY <1>1, MemoryInvariance, PTL

(* A published update replaces the version it was made from, and a new     *)
(* record replaces nothing, unless an edit from outside raced with it.     *)
THEOREM UpdatesReplace == MemorySpec => UpdatesReplaceTheirParent
<1>1. ASSUME MemoryInv, [MemoryNext]_memoryVars, file'.rev # file.rev, changes' = changes
      PROVE  \/ file = NoFile /\ Parents(file'.rev) = {}
             \/ Parents(file'.rev) = {file.rev}
             \/ \E p \in Process : op[p].raced
  <2>1. changes \in Nat /\ file' # file
    BY <1>1 DEF MemoryInv, MemoryTypes
  <2>2. changes' # changes + 1
    BY <1>1, <2>1
  <2>3. PICK p \in Process : LinkTarget(p) \/ RenameTarget(p)
    <3>1. PICK p \in Process : WriteStep(p)
      BY <1>1, <2>1, <2>2
         DEF MemoryNext, memoryVars, fileVars, FilesUnchanged, StartWrite, Crash, Change, EditFile,
             MoveHead
    <3>2. ~FinishCreate(p)
      <4>1. file \in {NoFile} \cup [rev : Revision, links : 1 .. 2]
        BY <1>1 DEF MemoryInv, MemoryTypes
      <4> QED  BY <1>1, <2>1, <4>1 DEF FinishCreate, NoFile
    <3> QED
      BY <2>1, <3>1, <3>2 DEF WriteStep, AcquireWriteLease, CurrentRecord, RevalidateCurrent,
                              AbandonWrite
  <2>4. /\ op[p].kind = "write" /\ op[p].at \in {"staged", "replacing"} /\ file'.rev = Rev(p)
    BY <2>3 DEF LinkTarget, RenameTarget, At
  <2>5. PICK r \in Revision : op[p].revs = {r}
    BY <1>1, <2>4, Stepping DEF OperationOK, Formed
  <2>6. file'.rev = r /\ ValidateUpdate(r, op[p].saw)
    BY <1>1, <2>4, <2>5, OneVersion, Stepping DEF OperationOK, Writes
  <2>7. CASE LinkTarget(p)
    <3>1. file = NoFile /\ op[p].saw = None
      BY <2>7 DEF LinkTarget
    <3> QED  BY <3>1, <2>6 DEF ValidateUpdate
  <2>8. CASE RenameTarget(p)
    <3>1. op[p].saw # None /\ (op[p].raced \/ file.rev = op[p].saw)
      BY <1>1, <2>8, Stepping DEF RenameTarget, At, OperationOK, Writes
    <3> QED  BY <3>1, <2>6 DEF ValidateUpdate
  <2> QED  BY <2>3, <2>7, <2>8
<1> QED  BY <1>1, MemoryInvariance, PTL DEF MemorySpec, UpdatesReplaceTheirParent
=============================================================================
