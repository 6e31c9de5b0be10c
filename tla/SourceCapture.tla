---------------------------- MODULE SourceCapture ----------------------------
(***************************************************************************)
(* How an index attempt reads a worktree that other processes are editing. *)
(* Preparation collects the Git state, the tracked paths, the path set and *)
(* the bytes of every supported source file, without a lock and without a  *)
(* second look.  The final fence, run just before the generation is bound  *)
(* to its epoch, collects everything again, looks at every path and file   *)
(* once more, and accepts only if all of it agrees with the candidate.     *)
(*                                                                         *)
(* Edits fall between any two steps.  The git processes of path discovery  *)
(* see the paths in any order; sources are read in path order, and reading *)
(* the bytes of one file is one step.  HEAD and the status records come    *)
(* from separate git processes.                                            *)
(***************************************************************************)
EXTENDS Integers

CONSTANTS
    File,      \* repository paths, named by their rank in path order
    Source,    \* the paths of supported languages, whose bytes are read
    Content,   \* file contents
    Absent,    \* a path with no file
    Removable, \* the paths that edits may delete
    Head,      \* commits HEAD may name
    Tree,      \* the contents each commit and its index record
    MaxEdits   \* bound on edits and HEAD moves

ASSUME CaptureAssumption ==
    /\ File \subseteq Nat
    /\ Source \subseteq File
    /\ Absent \notin Content
    /\ Tree \in [Head -> [File -> Content \cup {Absent}]]
    /\ MaxEdits \in Nat

VARIABLES
    worktree,   \* what each path holds now
    head,       \* the commit HEAD names now
    phase,      \* where the attempt is
    pending,    \* paths the current pass has yet to visit
    seen,       \* the collection under way
    candidate,  \* the collection preparation made, to be published
    edits,      \* number of edits so far
    past,       \* history: the contents of each path since preparation began
    pastHead,   \* history: the commits HEAD named since preparation began
    reverted,   \* history: something took back an earlier value since then
    held,       \* history: the source contents the worktree had since the attempt began
    atFence,    \* history: the world when the fence read the status records
    atRecheck   \* history: the world when the fence began to recheck paths

world   == <<worktree, head, edits, past, pastHead, reverted>>
history == <<held, atFence, atRecheck>>
vars    == <<world, phase, pending, seen, candidate, history>>

-----------------------------------------------------------------------------
Entry == Content \cup {Absent}

(* Discovered paths: cached and untracked files that exist.                *)
Present(w) == {f \in File : w[f] # Absent}

(* Cached paths of the index that are not deleted from the worktree.       *)
TrackedPaths(w, h) == {f \in Present(w) : Tree[h][f] # Absent}

(* Porcelain status: a record for each path that differs from the index;   *)
(* it tells deletion from modification and not one content from another.   *)
StatusRecords(w, h) == {<<f, w[f] = Absent>> : f \in {g \in File : w[g] # Tree[h][g]}}

(* The source manifest of a worktree: the bytes of the selected sources.   *)
Manifest(w) == [f \in File |-> IF f \in Source THEN w[f] ELSE Absent]

Collection == [head : Head, status : SUBSET (File \X BOOLEAN), topology : SUBSET File,
               paths : SUBSET File, content : [File -> Entry]]

Blank == [head |-> head, status |-> {}, topology |-> {}, paths |-> {},
          content |-> [f \in File |-> Absent]]

PreparePhases == {"prepHead", "prepStatus", "prepTracked", "prepPaths", "prepRead"}
FencePhases   == {"fenceHead", "fenceStatus", "fencePaths", "fenceRead", "recheckPaths",
                  "recheckRead", "endHead", "endStatus"}
Outcomes      == {"confirmed", "failed"}

Init ==
    /\ head \in Head
    /\ worktree = Tree[head]
    /\ edits = 0
    /\ past = [f \in File |-> {worktree[f]}]
    /\ pastHead = {head}
    /\ reverted = FALSE
    /\ phase = "failed"
    /\ pending = {}
    /\ seen = Blank
    /\ candidate = Blank
    /\ held = {Manifest(worktree)}
    /\ atFence = [worktree |-> worktree, head |-> head]
    /\ atRecheck = [worktree |-> worktree, head |-> head]

-----------------------------------------------------------------------------
(* The environment: editors and git commands.                              *)

(* A path takes back a content it had, or a deleted file comes back.       *)
Reverts(f, c) == c \in past[f] \/ (worktree[f] = Absent /\ past[f] # {Absent})

Edit(f, c) ==
    /\ edits < MaxEdits
    /\ c # worktree[f]
    /\ c = Absent => f \in Removable
    /\ worktree' = [worktree EXCEPT ![f] = c]
    /\ past' = [past EXCEPT ![f] = @ \cup {c}]
    /\ reverted' = (reverted \/ Reverts(f, c))
    /\ edits' = edits + 1
    /\ held' = IF phase \in Outcomes THEN held ELSE held \cup {Manifest(worktree')}
    /\ UNCHANGED <<head, pastHead, phase, pending, seen, candidate, atFence, atRecheck>>

(* A commit, a soft reset or an index update: HEAD moves and files stay.   *)
MoveHead(h) ==
    /\ edits < MaxEdits
    /\ h # head
    /\ head' = h
    /\ pastHead' = pastHead \cup {h}
    /\ reverted' = (reverted \/ h \in pastHead)
    /\ edits' = edits + 1
    /\ UNCHANGED <<worktree, past, phase, pending, seen, candidate, history>>

-----------------------------------------------------------------------------
(* Steps shared by preparation and fence.                                  *)

(* An error ends the attempt and drops what it collected.                  *)
Fail ==
    /\ phase' = "failed"
    /\ pending' = {}
    /\ seen' = Blank
    /\ candidate' = Blank
    /\ UNCHANGED <<world, history>>

(* A git or I/O error, a cancellation or an expired deadline.              *)
Abandon == phase \notin Outcomes /\ Fail

(* Path discovery visits one path.                                         *)
VisitPath(f) ==
    /\ phase \in {"prepPaths", "fencePaths"}
    /\ f \in pending
    /\ pending' = pending \ {f}
    /\ seen' = [seen EXCEPT !.paths = IF worktree[f] # Absent THEN @ \cup {f} ELSE @]
    /\ UNCHANGED <<world, phase, candidate, history>>

BeginReading(next) ==
    /\ pending = {}
    /\ phase' = next
    /\ pending' = seen.paths \cap Source
    /\ UNCHANGED <<world, seen, candidate, history>>

(* The first source in path order that the pass has not read yet.          *)
IsNext(f) == f \in pending /\ \A g \in pending : f <= g

(* The bytes of one selected source; a file that is gone fails the pass.   *)
ReadSource(f) ==
    /\ phase \in {"prepRead", "fenceRead"}
    /\ IsNext(f)
    /\ \/ worktree[f] = Absent /\ Fail
       \/ /\ worktree[f] # Absent
          /\ pending' = pending \ {f}
          /\ seen' = [seen EXCEPT !.content[f] = worktree[f]]
          /\ UNCHANGED <<world, phase, candidate, history>>

-----------------------------------------------------------------------------
(* Preparation, with its fence deferred to publication.                    *)

BeginAttempt ==
    /\ phase \in Outcomes
    /\ phase' = "prepHead"
    /\ pending' = {}
    /\ past' = [f \in File |-> {worktree[f]}]
    /\ pastHead' = {head}
    /\ reverted' = FALSE
    /\ held' = {Manifest(worktree)}
    /\ atFence' = [worktree |-> worktree, head |-> head]
    /\ atRecheck' = [worktree |-> worktree, head |-> head]
    /\ UNCHANGED <<worktree, head, edits, seen, candidate>>

PrepareHead ==
    /\ phase = "prepHead"
    /\ seen' = Blank
    /\ phase' = "prepStatus"
    /\ UNCHANGED <<world, pending, candidate, history>>

PrepareStatus ==
    /\ phase = "prepStatus"
    /\ seen' = [seen EXCEPT !.status = StatusRecords(worktree, head)]
    /\ phase' = "prepTracked"
    /\ UNCHANGED <<world, pending, candidate, history>>

PrepareTracked ==
    /\ phase = "prepTracked"
    /\ seen' = [seen EXCEPT !.topology = TrackedPaths(worktree, head)]
    /\ phase' = "prepPaths"
    /\ pending' = File
    /\ UNCHANGED <<world, candidate, history>>

PrepareReading == phase = "prepPaths" /\ BeginReading("prepRead")

Prepared ==
    /\ phase = "prepRead"
    /\ pending = {}
    /\ candidate' = seen
    /\ phase' = "fenceHead"
    /\ UNCHANGED <<world, pending, seen, history>>

-----------------------------------------------------------------------------
(* The final fence.                                                        *)

FenceHead ==
    /\ phase = "fenceHead"
    /\ \/ head # candidate.head /\ Fail
       \/ /\ head = candidate.head
          /\ seen' = Blank
          /\ phase' = "fenceStatus"
          /\ UNCHANGED <<world, pending, candidate, history>>

FenceStatus ==
    /\ phase = "fenceStatus"
    /\ seen' = [seen EXCEPT !.status = StatusRecords(worktree, head)]
    /\ atFence' = [worktree |-> worktree, head |-> head]
    /\ phase' = "fencePaths"
    /\ pending' = File
    /\ UNCHANGED <<world, candidate, held, atRecheck>>

FenceReading == phase = "fencePaths" /\ BeginReading("fenceRead")

(* revalidate_path_set: the discovered paths once more.                    *)
BeginRecheck ==
    /\ phase = "fenceRead"
    /\ pending = {}
    /\ atRecheck' = [worktree |-> worktree, head |-> head]
    /\ phase' = "recheckPaths"
    /\ pending' = File
    /\ UNCHANGED <<world, seen, candidate, held, atFence>>

RecheckPath(f) ==
    /\ phase = "recheckPaths"
    /\ f \in pending
    /\ \/ (worktree[f] # Absent) # (f \in seen.paths) /\ Fail
       \/ /\ (worktree[f] # Absent) = (f \in seen.paths)
          /\ pending' = pending \ {f}
          /\ UNCHANGED <<world, phase, seen, candidate, history>>

RecheckReading == phase = "recheckPaths" /\ BeginReading("recheckRead")

(* revalidate_selected_content: every source read again and compared.      *)
(* Faulty variant: the file only has to be readable still.                 *)
Unchanged_Exists(f) == worktree[f] # Absent

Unchanged(f) == worktree[f] = seen.content[f]

RecheckSource(f) ==
    /\ phase = "recheckRead"
    /\ IsNext(f)
    /\ \/ ~Unchanged(f) /\ Fail
       \/ /\ Unchanged(f)
          /\ pending' = pending \ {f}
          /\ UNCHANGED <<world, phase, seen, candidate, history>>

BeginEnd ==
    /\ phase = "recheckRead"
    /\ pending = {}
    /\ phase' = "endHead"
    /\ UNCHANGED <<world, pending, seen, candidate, history>>

EndHead ==
    /\ phase = "endHead"
    /\ \/ head # seen.head /\ Fail
       \/ /\ head = seen.head
          /\ phase' = "endStatus"
          /\ UNCHANGED <<world, pending, seen, candidate, history>>

(* The last comparison: the status records are those the fence began with, *)
(* and the worktree receipt and the snapshot are the candidate's.          *)
(* Faulty variant: the status records of the candidate are not compared.   *)
FenceAccepts_SnapshotOnly ==
    /\ StatusRecords(worktree, head) = seen.status
    /\ candidate.content = seen.content

FenceAccepts ==
    /\ StatusRecords(worktree, head) = seen.status
    /\ candidate.status = seen.status
    /\ candidate.content = seen.content

EndStatus ==
    /\ phase = "endStatus"
    /\ phase' = IF FenceAccepts THEN "confirmed" ELSE "failed"
    /\ UNCHANGED <<world, pending, seen, candidate, history>>

Next ==
    \/ \E f \in File, c \in Entry : Edit(f, c)
    \/ \E h \in Head : MoveHead(h)
    \/ Abandon
    \/ \E f \in File : VisitPath(f) \/ ReadSource(f) \/ RecheckPath(f) \/ RecheckSource(f)
    \/ BeginAttempt
    \/ PrepareHead \/ PrepareStatus \/ PrepareTracked \/ PrepareReading \/ Prepared
    \/ FenceHead \/ FenceStatus \/ FenceReading \/ BeginRecheck \/ RecheckReading
    \/ BeginEnd \/ EndHead \/ EndStatus

Spec == Init /\ [][Next]_vars

-----------------------------------------------------------------------------
(* Properties.                                                             *)

(* Every variable has its type.                                            *)
CaptureTypeOK ==
    /\ worktree \in [File -> Entry]
    /\ head \in Head
    /\ phase \in PreparePhases \cup FencePhases \cup Outcomes
    /\ pending \in SUBSET File
    /\ seen \in Collection
    /\ candidate \in Collection
    /\ edits \in 0 .. MaxEdits
    /\ past \in [File -> SUBSET Entry]
    /\ pastHead \in SUBSET Head
    /\ reverted \in BOOLEAN
    /\ held \in SUBSET [File -> Entry]
    /\ atFence \in [worktree : [File -> Entry], head : Head]
    /\ atRecheck \in [worktree : [File -> Entry], head : Head]

(* A confirmed candidate is one state of the repository and not a mixture: *)
(* unless an edit was taken back while the attempt ran, the sources, the   *)
(* tracked paths, the status records and HEAD, each collected at another   *)
(* time, are all those of the instant at which the fence read the status.  *)
ConfirmedIsOneState ==
    (phase = "confirmed" /\ ~reverted) =>
        LET w == atFence.worktree h == atFence.head IN
        /\ candidate.content = Manifest(w)
        /\ candidate.topology = TrackedPaths(w, h)
        /\ candidate.status = StatusRecords(w, h)
        /\ candidate.head = h

(* A confirmed candidate is fresh: with the same proviso, its sources and  *)
(* HEAD were still current after the fence had read every file once.       *)
ConfirmedIsFresh ==
    (phase = "confirmed" /\ ~reverted) =>
        /\ candidate.content = Manifest(atRecheck.worktree)
        /\ candidate.head = atRecheck.head

(* Without the proviso: the sources of a confirmed candidate were those of *)
(* the worktree at some instant of the attempt, from the first step of its *)
(* preparation to the last of its fence, so that what is published is one  *)
(* state of the worktree and never files of several.                       *)
NeverMixed == phase = "confirmed" => candidate.content \in held
=============================================================================
