-------------------------- MODULE EngineeringMemory --------------------------
(***************************************************************************)
(* Engineering memory: the record file people edit, the journal of the     *)
(* versions the store has observed and of those approved here, and the     *)
(* projection that recall serves.  Approval and team synchronisation read  *)
(* the record file and then import its version; history import observes    *)
(* the versions that Git commits hold; revalidation selects the approved   *)
(* head, evaluates it against the indexed source and publishes the result. *)
(* These operations and index runs exclude each other with the mutation    *)
(* lease, but read the file before they hold it, and nothing keeps HEAD    *)
(* and the file from moving at any time.                                   *)
(*                                                                         *)
(* One record stands for all.  The generation an index run publishes is    *)
(* named by its epoch; HEAD is what a capture of the Git state compares.   *)
(***************************************************************************)
EXTENDS MemoryFiles

CONSTANTS
    Committed,      \* the versions that the history of each commit holds
    MaxOperations,  \* bound on operations started
    MaxEpoch        \* bound on the source epoch

ASSUME MemoryAssumption ==
    /\ Committed \in [Head -> SUBSET Revision]
    /\ MaxOperations \in Nat
    /\ MaxEpoch \in Nat \ {0}

VARIABLES
    journal,     \* the versions observed and the versions approved
    index,       \* the source epoch and the active generation
    projection,  \* the projection the active pointer names
    lease,       \* the holder of the mutation lease
    operations,  \* number of operations started so far
    merged,      \* history: merges that team synchronisation inserted
    consented    \* history: versions read by an operation that approves them

storeVars == <<journal, index, projection>>
memoryVars == <<fileVars, storeVars, lease, operations, merged, consented>>

-----------------------------------------------------------------------------
(* A new store, or one that has been indexed and has the history of HEAD.  *)
MemoryInit ==
    /\ FilesInit
    /\ \/ /\ index = [epoch |-> 0, active |-> None]
          /\ journal = [versions |-> {}, approved |-> {}]
       \/ /\ index = [epoch |-> 1, active |-> [epoch |-> 1, head |-> head]]
          /\ journal = [versions |-> Committed[head], approved |-> {}]
    /\ projection = None
    /\ lease = None
    /\ operations = 0
    /\ merged = {}
    /\ consented = {}

(* Approved versions that no approved version names as a parent.           *)
Heads(j) == {r \in j.approved : \A c \in j.approved : r \notin Parents(c)}

MissingParents(j) == UNION {Parents(r) : r \in j.approved} \ j.versions

SelectMemoryHead_PicksOne(j) ==
    IF j.approved = {} THEN [state |-> "noApprovedVersion", rev |-> None]
    ELSE [state |-> IF MissingParents(j) # {} THEN "indeterminate" ELSE "selected",
          rev |-> CHOOSE r \in Heads(j) : TRUE]

(* No choice is made by display revision, time or order.                   *)
SelectMemoryHead(j) ==
    LET one == IF Cardinality(Heads(j)) = 1 THEN CHOOSE r \in Heads(j) : TRUE ELSE None
    IN  IF j.approved = {} THEN [state |-> "noApprovedVersion", rev |-> None]
        ELSE IF MissingParents(j) # {} \/ Heads(j) = {} THEN [state |-> "indeterminate", rev |-> one]
        ELSE [state |-> IF one = None THEN "conflicted" ELSE "selected", rev |-> one]

-----------------------------------------------------------------------------
Begin == operations < MaxOperations /\ operations' = operations + 1

(* Approval and team synchronisation load the record from the worktree     *)
(* before they wait for the lease.                                         *)
LoadRecord(p, kind) ==
    /\ op[p] = Idle
    /\ Loadable
    /\ Set(p, [Idle EXCEPT !.kind = kind, !.at = "waiting", !.revs = {file.rev}])
    /\ consented' = IF kind = "approve" THEN consented \cup {file.rev} ELSE consented

(* History import reads the versions in the commits HEAD reaches.          *)
PrepareHistory(p) ==
    /\ op[p] = Idle
    /\ Set(p, [Idle EXCEPT !.kind = "history", !.at = "waiting", !.revs = Committed[head]])
    /\ UNCHANGED consented

Request(p, kind) ==
    /\ op[p] = Idle
    /\ Set(p, [Idle EXCEPT !.kind = kind, !.at = "waiting"])
    /\ UNCHANGED consented

AcquireLease(p) ==
    /\ op[p].at = "waiting"
    /\ lease = None
    /\ lease' = p
    /\ GoTo(p, "open")
    /\ UNCHANGED <<storeVars, merged, consented>>

End(p) == Set(p, Idle) /\ lease' = Release(lease, p)

(* A version and its observation are inserted in one transaction.          *)
Import(revs, approved) ==
    journal' = [versions |-> journal.versions \cup revs, approved |-> journal.approved \cup approved]

(* Approval needs an active generation to name as the observation's source.*)
ApproveLoaded(p) ==
    /\ At(p, "approve", "open")
    /\ index.active # None
    /\ Import(op[p].revs, op[p].revs)
    /\ End(p)
    /\ UNCHANGED <<index, projection, merged, consented>>

IsMerge(r) == Cardinality(Parents(r)) > 1

VerifyTeamMergeHeads_AnyParents(r) ==
    IsMerge(r) /\ r \notin journal.versions =>
        \A q \in Parents(r) : q \in journal.versions /\ Display(q) < Display(r)

(* A merge the journal does not have yet must join versions it has, of     *)
(* lower display revisions and without any child.                          *)
VerifyTeamMergeHeads(r) ==
    IsMerge(r) /\ r \notin journal.versions =>
        \A q \in Parents(r) :
            /\ q \in journal.versions
            /\ Display(q) < Display(r)
            /\ \A c \in journal.versions : q \notin Parents(c)

SyncTeamMemory(p) ==
    /\ At(p, "sync", "open")
    /\ index.active # None
    /\ VerifyTeamMergeHeads(Rev(p))
    /\ Import(op[p].revs, {})
    /\ merged' = merged \cup {r \in op[p].revs \ journal.versions : IsMerge(r)}
    /\ End(p)
    /\ UNCHANGED <<index, projection, consented>>

(* Observed history needs no generation and is never approved.             *)
PersistHistory(p) ==
    /\ At(p, "history", "open")
    /\ Import(op[p].revs, {})
    /\ End(p)
    /\ UNCHANGED <<index, projection, merged, consented>>

-----------------------------------------------------------------------------
LoadJournal(p) ==
    /\ At(p, "revalidate", "open")
    /\ index.active # None
    /\ Set(p, [op[p] EXCEPT !.at = "loaded", !.loaded = journal, !.source = index.active])
    /\ UNCHANGED <<storeVars, lease, merged, consented>>

CaptureBefore(p) ==
    /\ At(p, "revalidate", "loaded")
    /\ Set(p, [op[p] EXCEPT !.at = "captured", !.before = head, !.moves = 0])
    /\ UNCHANGED <<storeVars, lease, merged, consented>>

(* Git is asked only if HEAD is the one the generation was made from.      *)
PrepareRecords(p) ==
    /\ At(p, "revalidate", "captured")
    /\ Set(p, [op[p] EXCEPT !.at = "prepared",
                            !.target = IF op[p].before = op[p].source.head THEN head ELSE None])
    /\ UNCHANGED <<storeVars, lease, merged, consented>>

CaptureAfter_Skipped(p) ==
    /\ At(p, "revalidate", "prepared")
    /\ GoTo(p, "confirmed")
    /\ UNCHANGED <<storeVars, lease, merged, consented>>

CaptureAfter(p) ==
    /\ At(p, "revalidate", "prepared")
    /\ head = op[p].before
    /\ GoTo(p, "confirmed")
    /\ UNCHANGED <<storeVars, lease, merged, consented>>

(* The active source must still be the one that was loaded, and no later   *)
(* epoch may have been reserved.                                           *)
PublishProjection(p) ==
    /\ At(p, "revalidate", "confirmed")
    /\ index.active = op[p].source
    /\ index.active.epoch = index.epoch
    /\ projection' = [source |-> op[p].source, head |-> op[p].target,
                      selection |-> SelectMemoryHead(op[p].loaded),
                      of |-> op[p].loaded, moves |-> op[p].moves]
    /\ End(p)
    /\ UNCHANGED <<journal, index, merged, consented>>

-----------------------------------------------------------------------------
(* An index run reserves the next epoch and captures the source, then      *)
(* publishes a generation of that epoch.                                   *)
ReserveEpoch(p) ==
    /\ At(p, "index", "open")
    /\ index.epoch < MaxEpoch
    /\ index' = [index EXCEPT !.epoch = @ + 1]
    /\ Set(p, [op[p] EXCEPT !.at = "reserved", !.before = head])
    /\ UNCHANGED <<journal, projection, lease, merged, consented>>

ActivateGeneration(p) ==
    /\ At(p, "index", "reserved")
    /\ index' = [index EXCEPT !.active = [epoch |-> index.epoch, head |-> op[p].before]]
    /\ End(p)
    /\ UNCHANGED <<journal, projection, merged, consented>>

(* A refusal, a failure, a cancellation or a deadline before the commit.   *)
AbandonOperation(p) ==
    /\ op[p].kind \notin {"none", "write"}
    /\ End(p)
    /\ UNCHANGED <<storeVars, merged, consented>>

(* A crash releases both locks.                                            *)
Crash(p) ==
    /\ Change
    /\ op[p] # Idle
    /\ Set(p, Idle)
    /\ lease' = Release(lease, p)
    /\ fileLease' = Release(fileLease, p)

StoreStep(p) ==
    \/ AcquireLease(p)
    \/ ApproveLoaded(p)
    \/ SyncTeamMemory(p)
    \/ PersistHistory(p)
    \/ LoadJournal(p)
    \/ CaptureBefore(p)
    \/ PrepareRecords(p)
    \/ CaptureAfter(p)
    \/ PublishProjection(p)
    \/ ReserveEpoch(p)
    \/ ActivateGeneration(p)
    \/ AbandonOperation(p)

StartStoreOperation(p) ==
    /\ Begin
    /\ \/ \E kind \in {"approve", "sync"} : LoadRecord(p, kind)
       \/ PrepareHistory(p)
       \/ \E kind \in {"revalidate", "index"} : Request(p, kind)

FilesUnchanged == UNCHANGED <<authored, file, fileLease, head, changes>>
StoreUnchanged == UNCHANGED <<storeVars, merged, consented>>

MemoryNext ==
    \/ \E p \in Process :
        \/ /\ StartStoreOperation(p)
           /\ FilesUnchanged
           /\ UNCHANGED <<storeVars, lease, merged>>
        \/ /\ StoreStep(p)
           /\ FilesUnchanged
           /\ UNCHANGED operations
        \/ /\ Begin
           /\ \E r \in Revision : StartWrite(p, r)
           /\ StoreUnchanged
           /\ UNCHANGED <<authored, head, changes, lease>>
        \/ /\ WriteStep(p)
           /\ StoreUnchanged
           /\ UNCHANGED <<authored, head, changes, lease, operations>>
        \/ /\ Crash(p)
           /\ StoreUnchanged
           /\ UNCHANGED <<authored, file, head, operations>>
    \/ /\ \/ \E r \in Revision : EditFile([rev |-> r, links |-> 1])
          \/ \E r \in Revision : file.links = 2 /\ EditFile([file EXCEPT !.rev = r])
          \/ EditFile(NoFile)
       /\ StoreUnchanged
       /\ UNCHANGED <<authored, lease, operations>>
    \/ /\ \E h \in Head : MoveHead(h)
       /\ StoreUnchanged
       /\ UNCHANGED <<authored, lease, operations>>

MemorySpec == MemoryInit /\ [][MemoryNext]_memoryVars

-----------------------------------------------------------------------------
(* Recall serves the projection only while the generation it was made for  *)
(* is the active one.                                                      *)
Recalled == projection # None /\ projection.source = index.active

(* The versions a version replaces, itself included: what every set that   *)
(* has the version and the parents of its members has.                     *)
Closed(S) == \A r \in S : Parents(r) \subseteq S

Ancestors(r) ==
    {x \in Revision : \A S \in SUBSET Revision : r \in S /\ Closed(S) => x \in S}

(* Types, and: a lock is held exactly during the operations that need it;  *)
(* nothing is approved that was not observed; an active generation has an  *)
(* epoch that was reserved.                                                *)
MemoryTypeOK ==
    LET Journal == [versions : SUBSET Revision, approved : SUBSET Revision]
        Source  == [epoch : 1 .. MaxEpoch, head : Head]
    IN  /\ authored \in Histories
        /\ file \in {NoFile} \cup [rev : Revision, links : 1 .. 2]
        /\ head \in Head
        /\ journal \in Journal /\ journal.approved \subseteq journal.versions
        /\ index \in [epoch : 0 .. MaxEpoch, active : Source \cup {None}]
        /\ index.active # None => index.active.epoch <= index.epoch
        /\ projection # None => projection.source \in Source /\ projection.of \in Journal
        /\ \A p \in Process :
            /\ op[p].revs \subseteq Revision
            /\ op[p].loaded \in Journal
            /\ fileLease = p <=> op[p].kind = "write" /\ op[p].at # "queued"
            /\ lease = p <=> op[p].kind \notin {"none", "write"} /\ op[p].at # "waiting"

(* A published update replaces the version it was written as an update of, *)
(* and a new record replaces nothing, whatever other writers do: an update *)
(* is lost only to an edit from outside that falls between the second look *)
(* at the record and the rename.                                           *)
UpdatesReplaceTheirParent ==
    [][file'.rev # file.rev /\ changes' = changes =>
          \/ file = NoFile /\ Parents(file'.rev) = {}
          \/ Parents(file'.rev) = {file.rev}
          \/ \E p \in Process : op[p].raced]_memoryVars

(* What recall serves as the selected version supersedes every version     *)
(* that was approved when the journal was loaded.                          *)
SupersedesApproved(proj) ==
    proj.selection.state = "selected" => proj.of.approved \subseteq Ancestors(proj.selection.rev)

(* The commit the evaluation asked Git about is the one the generation was *)
(* made from, unless HEAD left and came back between the two captures.     *)
EvaluatedAtIndexedHead(proj) == proj.head \in {None, proj.source.head} \/ proj.moves = 2

(* Recall answers for the active generation with a selection that stands   *)
(* for all approved versions, each approved by an operation that asked for *)
(* it, evaluated at the commit that was indexed.                           *)
RecallIsGrounded ==
    Recalled =>
        /\ SupersedesApproved(projection)
        /\ projection.of.approved \subseteq consented
        /\ EvaluatedAtIndexedHead(projection)

(* Merges that reach the journal by team synchronisation join versions it  *)
(* has, and two of them never join the same version: the second is refused *)
(* even if it was read from the file before the first was imported.        *)
TeamMergesNeverCompete ==
    \A m \in merged :
        /\ Parents(m) \subseteq journal.versions
        /\ \A n \in merged \ {m} : Parents(m) \cap Parents(n) = {}
=============================================================================
