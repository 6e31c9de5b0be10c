----------------------------- MODULE MemoryFiles -----------------------------
(***************************************************************************)
(* The file of one memory record in the worktree and the operation that    *)
(* publishes a version of the record to it.  Writers exclude each other    *)
(* with a lock file; editors and Git do not take it.  A writer reads the   *)
(* current version, writes the new one to a private temporary file and     *)
(* then either links the temporary file to the record's name (a new        *)
(* record) or reads the current version again and renames over it.         *)
(*                                                                         *)
(* The bytes are represented by the version they encode.  A file with a    *)
(* second name is refused by every reader.                                 *)
(***************************************************************************)
EXTENDS Naturals, FiniteSets

CONSTANTS
    Process,      \* processes that run memory operations
    Revision,     \* the versions people author of one record
    Histories,    \* possible parents and display revisions of these versions
    Head,         \* commits HEAD may name
    None,         \* absence of a value
    MaxChanges    \* bound on edits, moves of HEAD and crashes

(* The digest that names a version covers the digests of its parents, so   *)
(* the parents have no cycle: some version of every set has no child in it.*)
Acyclic(parents) ==
    \A S \in SUBSET Revision : S # {} => \E r \in S : \A c \in S : r \notin parents[c]

ASSUME FilesAssumption ==
    /\ IsFiniteSet(Revision)
    /\ Histories \subseteq [parents : [Revision -> SUBSET Revision], display : [Revision -> Nat]]
    /\ \A history \in Histories : Acyclic(history.parents)
    /\ None \notin Revision \cup Process \cup Head
    /\ MaxChanges \in Nat

VARIABLES
    authored,   \* the parents and the display revision each version carries
    file,       \* the version under the record's name, and how many names it has
    fileLease,  \* the holder of the write lock
    op,         \* the operation each process runs
    head,       \* the commit HEAD names now
    changes     \* number of changes from outside so far

fileVars == <<authored, file, fileLease, op, head, changes>>

-----------------------------------------------------------------------------
Parents(r) == authored.parents[r]

Display(r) == authored.display[r]

NoFile == [rev |-> None, links |-> 0]

(* An operation and what it has read.  The last five fields belong to      *)
(* revalidation and indexing.  History: raced, whether the file changed    *)
(* after the second look; moves, changes of HEAD between the two captures. *)
Idle == [kind |-> "none", at |-> "idle", revs |-> {}, saw |-> None, raced |-> FALSE,
         loaded |-> [versions |-> {}, approved |-> {}], source |-> None,
         before |-> None, target |-> None, moves |-> 0]

At(p, kind, phase) == op[p].kind = kind /\ op[p].at = phase

Set(p, o) == op' = [op EXCEPT ![p] = o]

GoTo(p, phase) == Set(p, [op[p] EXCEPT !.at = phase])

Rev(p) == CHOOSE r \in op[p].revs : TRUE

FilesInit ==
    /\ authored \in Histories
    /\ file = NoFile
    /\ fileLease = None
    /\ op = [p \in Process |-> Idle]
    /\ head \in Head
    /\ changes = 0

Change == changes < MaxChanges /\ changes' = changes + 1

(* A record file can be loaded if it exists under one name only.           *)
Loadable == file.links = 1

-----------------------------------------------------------------------------
(* The input is complete before the directory is opened.                   *)
StartWrite(p, r) ==
    /\ op[p] = Idle
    /\ Set(p, [Idle EXCEPT !.kind = "write", !.at = "queued", !.revs = {r}])
    /\ UNCHANGED <<file, fileLease>>

AcquireWriteLease_Shared(p) ==
    /\ At(p, "write", "queued")
    /\ fileLease' = p
    /\ GoTo(p, "current")
    /\ UNCHANGED file

AcquireWriteLease(p) ==
    /\ At(p, "write", "queued")
    /\ fileLease = None
    /\ fileLease' = p
    /\ GoTo(p, "current")
    /\ UNCHANGED file

(* A new record has no parent and display revision 1; an update has the    *)
(* current version as its one parent and the next display revision.        *)
ValidateUpdate(r, current) ==
    IF current = None
    THEN Parents(r) = {} /\ Display(r) = 1
    ELSE Parents(r) = {current} /\ Display(r) = Display(current) + 1

CurrentRecord(p) ==
    /\ At(p, "write", "current")
    /\ file = NoFile \/ Loadable
    /\ ValidateUpdate(Rev(p), file.rev)
    /\ Set(p, [op[p] EXCEPT !.saw = file.rev, !.at = "staged"])
    /\ UNCHANGED <<file, fileLease>>

(* The hard link does not replace an existing name.                        *)
LinkTarget(p) ==
    /\ At(p, "write", "staged")
    /\ op[p].saw = None
    /\ file = NoFile
    /\ file' = [rev |-> Rev(p), links |-> 2]
    /\ GoTo(p, "linked")
    /\ UNCHANGED fileLease

RevalidateCurrent(p) ==
    /\ At(p, "write", "staged")
    /\ op[p].saw # None
    /\ Loadable
    /\ file.rev = op[p].saw
    /\ Set(p, [op[p] EXCEPT !.at = "replacing", !.raced = FALSE])
    /\ UNCHANGED <<file, fileLease>>

Release(lease, p) == IF lease = p THEN None ELSE lease

EndWrite_KeepsLease(p) ==
    /\ Set(p, Idle)
    /\ UNCHANGED fileLease

(* The lock is released when the operation returns.                        *)
EndWrite(p) ==
    /\ Set(p, Idle)
    /\ fileLease' = Release(fileLease, p)

RenameTarget(p) ==
    /\ At(p, "write", "replacing")
    /\ file' = [rev |-> Rev(p), links |-> 1]
    /\ EndWrite(p)

(* After the link the temporary name is removed, unless the operation is   *)
(* cancelled or out of time by then: the receipt says that it is deferred. *)
FinishCreate(p) ==
    /\ At(p, "write", "linked")
    /\ \/ file' = IF file.links = 2 THEN [file EXCEPT !.links = 1] ELSE file
       \/ UNCHANGED file
    /\ EndWrite(p)

(* A refusal, a failure, a cancellation or a deadline before the commit;   *)
(* the temporary file is removed.                                          *)
AbandonWrite(p) ==
    /\ op[p].kind = "write"
    /\ op[p].at # "linked"
    /\ EndWrite(p)
    /\ UNCHANGED file

WriteStep(p) ==
    \/ AcquireWriteLease(p)
    \/ CurrentRecord(p)
    \/ LinkTarget(p)
    \/ RevalidateCurrent(p)
    \/ RenameTarget(p)
    \/ FinishCreate(p)
    \/ AbandonWrite(p)

-----------------------------------------------------------------------------
(* An editor or Git puts another version under the record's name, or       *)
(* removes it, whatever the lock says.                                     *)
EditFile(f) ==
    /\ Change
    /\ f.rev # file.rev
    /\ file' = f
    /\ op' = [p \in Process |-> [op[p] EXCEPT !.raced = @ \/ op[p].at = "replacing"]]
    /\ UNCHANGED <<fileLease, head>>

(* HEAD moves, possibly back to a commit it named before.                  *)
MoveHead(h) ==
    /\ Change
    /\ h # head
    /\ head' = h
    /\ op' = [p \in Process |-> IF op[p].at \in {"captured", "prepared"} /\ op[p].moves < 2
                                THEN [op[p] EXCEPT !.moves = @ + 1]
                                ELSE op[p]]
    /\ UNCHANGED <<file, fileLease>>
=============================================================================
