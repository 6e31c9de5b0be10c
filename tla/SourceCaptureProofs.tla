------------------------ MODULE SourceCaptureProofs ------------------------
(***************************************************************************)
(* Machine-checked soundness of the final fence, for any number of files,  *)
(* contents, commits and edits.  The argument: while nothing takes back an *)
(* earlier value, a value that is observed twice was there all the time    *)
(* between the two observations, and so at every instant in between that   *)
(* the history variables remember.                                         *)
(***************************************************************************)
EXTENDS SourceCapture, TLAPS

-----------------------------------------------------------------------------
(* The inductive invariant.                                                *)

AttemptPhases == {"prepStatus", "prepTracked", "prepPaths", "prepRead"}

(* The fence has read the status records.                                  *)
FencedPhases == {"fencePaths", "fenceRead", "recheckPaths", "recheckRead", "endHead",
                 "endStatus", "confirmed"}

(* It has read every source, and begun to look at everything again.        *)
RecheckPhases == {"recheckPaths", "recheckRead", "endHead", "endStatus", "confirmed"}

(* It has found HEAD in place at the end.                                  *)
EndPhases == {"endStatus", "confirmed"}

(* The history knows the present.                                          *)
PastInv == head \in pastHead /\ \A f \in File : worktree[f] \in past[f]

(* Bytes are kept of discovered sources only.                              *)
ShapeInv ==
    /\ \A f \in File : f \notin seen.paths \cap Source => seen.content[f] = Absent
    /\ phase \in {"prepStatus", "prepTracked", "fenceStatus"} =>
          seen.paths = {} /\ \A f \in File : seen.content[f] = Absent
    /\ phase \in {"prepPaths", "fencePaths"} => \A f \in File : seen.content[f] = Absent
    /\ phase \in {"prepRead", "fenceRead", "recheckRead"} => pending \subseteq seen.paths \cap Source
    /\ \A f \in File \ Source : candidate.content[f] = Absent

(* What a pass has read was there: a path it did not find was absent.      *)
ReadInv ==
    /\ phase \in {"prepPaths", "fencePaths"} =>
          \A f \in File \ (pending \cup seen.paths) : Absent \in past[f]
    /\ phase \in {"prepRead", "fenceRead"} =>
          \A f \in Source \ pending : seen.content[f] \in past[f]
    /\ phase \in RecheckPhases => \A f \in Source : seen.content[f] \in past[f]
    /\ phase \in FencePhases \cup {"confirmed"} =>
          \A f \in Source : candidate.content[f] \in past[f]

(* What preparation read and the fence reads again was there when the      *)
(* fence read the status.                                                  *)
FenceInv ==
    ~reverted =>
        /\ phase \in {"fencePaths", "fenceRead"} => \A f \in Source :
              \/ atFence.worktree[f] = candidate.content[f]
              \/ worktree[f] # candidate.content[f]
        /\ phase = "fencePaths" => \A f \in Source \ (pending \cup seen.paths) :
              candidate.content[f] = Absent => atFence.worktree[f] = Absent
        /\ phase = "fenceRead" => \A f \in Source \ pending :
              candidate.content[f] = seen.content[f] => atFence.worktree[f] = seen.content[f]
        /\ phase \in RecheckPhases => \A f \in Source :
              candidate.content[f] = seen.content[f] => atFence.worktree[f] = seen.content[f]

(* What the fence reads twice was there between its two passes.            *)
RecheckInv ==
    ~reverted =>
        /\ phase \in {"recheckPaths", "recheckRead"} => \A f \in Source :
              \/ atRecheck.worktree[f] = seen.content[f]
              \/ worktree[f] # seen.content[f]
        /\ phase = "recheckPaths" => \A f \in Source \ (pending \cup seen.paths) :
              atRecheck.worktree[f] = seen.content[f]
        /\ phase = "recheckRead" => \A f \in Source \ pending :
              atRecheck.worktree[f] = seen.content[f]
        /\ phase \in {"endHead"} \cup EndPhases => \A f \in Source :
              atRecheck.worktree[f] = seen.content[f]

(* The same for HEAD: as long as it names the commit preparation read, or  *)
(* once the fence has found it there at the end, it named that commit all  *)
(* the time.                                                               *)
HeadStayed(c) == ~reverted /\ (phase \in EndPhases \/ head = c.head)

HeadInv ==
    /\ phase \in AttemptPhases => seen.head \in pastHead
    /\ phase \in FencePhases \cup {"confirmed"} => candidate.head \in pastHead
    /\ phase \in {"fenceStatus"} \cup FencedPhases => seen.head = candidate.head
    /\ (phase \in FencedPhases /\ HeadStayed(candidate)) => atFence.head = candidate.head
    /\ (phase \in RecheckPhases /\ HeadStayed(candidate)) => atRecheck.head = candidate.head

(* The status records of the fence, and what the fence compares last.      *)
StatusInv ==
    /\ phase \in FencedPhases => seen.status = StatusRecords(atFence.worktree, atFence.head)
    /\ phase = "confirmed" => candidate.status = seen.status /\ candidate.content = seen.content

(* The status says that a tracked path is deleted.                         *)
Deleted(c, f) == <<f, TRUE>> \in c.status

(* A path that was there and is gone, and one that was absent and is there.*)
Gone(f) == worktree[f] = Absent /\ past[f] # {Absent}
Back(f) == worktree[f] # Absent /\ Absent \in past[f]

(* Tracked paths are collected after the status records: where the two     *)
(* disagree about a path, the path has changed in between.                 *)
StatusSince(c) == \A f \in File : Tree[c.head][f] # Absent =>
    /\ Deleted(c, f) => Absent \in past[f]
    /\ ~Deleted(c, f) => past[f] # {Absent}

TopologySince(c) == \A f \in File :
    /\ Tree[c.head][f] = Absent => f \notin c.topology
    /\ (Tree[c.head][f] # Absent /\ f \notin c.topology /\ ~Deleted(c, f)) => Gone(f)
    /\ (f \in c.topology /\ Deleted(c, f)) => Back(f)

TopologyAtFence == \A f \in File :
    /\ Tree[candidate.head][f] = Absent => f \notin candidate.topology
    /\ (Tree[candidate.head][f] # Absent /\ f \notin candidate.topology /\ ~Deleted(candidate, f)) =>
          atFence.worktree[f] = Absent
    /\ (f \in candidate.topology /\ Deleted(candidate, f)) => atFence.worktree[f] # Absent

TopologyInv ==
    /\ (phase = "prepTracked" /\ HeadStayed(seen)) => StatusSince(seen)
    /\ (phase \in {"prepPaths", "prepRead"} /\ HeadStayed(seen)) => TopologySince(seen)
    /\ (phase \in {"fenceHead", "fenceStatus"} /\ HeadStayed(candidate)) => TopologySince(candidate)
    /\ (phase \in FencedPhases /\ HeadStayed(candidate)) => TopologyAtFence

CaptureInv ==
    /\ CaptureTypeOK
    /\ PastInv
    /\ ShapeInv
    /\ ReadInv
    /\ FenceInv
    /\ RecheckInv
    /\ HeadInv
    /\ StatusInv
    /\ TopologyInv

-----------------------------------------------------------------------------
(* The environment.                                                        *)

(* What an edit or a move of HEAD leaves true unless it takes back an      *)
(* earlier value: what is gone stays gone.                                 *)
WorldMoves ==
    /\ UNCHANGED <<phase, pending, seen, candidate, atFence, atRecheck>>
    /\ pastHead \subseteq pastHead' /\ head' \in pastHead'
    /\ \A f \in File : past[f] \subseteq past'[f] /\ worktree'[f] \in past'[f]
    /\ ~reverted' =>
          /\ ~reverted
          /\ \A h \in pastHead : head' = h => head = h
          /\ \A f \in File : \A v \in past[f] : worktree'[f] = v => worktree[f] = v
          /\ \A f \in File : Gone(f) => worktree'[f] = Absent

(* The source contents of a worktree are contents.                         *)
LEMMA ManifestType ==
    ASSUME NEW w \in [File -> Entry]
    PROVE  Manifest(w) \in [File -> Entry]
BY DEF Manifest, Entry

(* An edit of one path.                                                    *)
LEMMA EditMoves ==
    ASSUME CaptureInv, NEW f \in File, NEW c \in Entry, Edit(f, c)
    PROVE  CaptureTypeOK' /\ WorldMoves
<1> USE DEF CaptureInv, CaptureTypeOK
<1>1. /\ worktree' \in [File -> Entry] /\ past' \in [File -> SUBSET Entry]
      /\ \A g \in File : worktree'[g] = IF g = f THEN c ELSE worktree[g]
      /\ \A g \in File : past'[g] = IF g = f THEN past[f] \cup {c} ELSE past[g]
  BY DEF Edit
<1>2. reverted' = (reverted \/ Reverts(f, c))
  BY DEF Edit
<1>3. UNCHANGED <<head, pastHead, phase, pending, seen, candidate, atFence, atRecheck>>
  BY DEF Edit
<1>4. edits' \in 0 .. MaxEdits /\ reverted' \in BOOLEAN /\ held' \in SUBSET [File -> Entry]
  <2>1. edits' \in 0 .. MaxEdits
    BY CaptureAssumption DEF Edit
  <2>2. reverted' \in BOOLEAN
    BY <1>2
  <2>3. Manifest(worktree') \in [File -> Entry]
    BY <1>1, ManifestType
  <2>4. held' = held \/ held' = held \cup {Manifest(worktree')}
    BY DEF Edit
  <2>5. QED
    BY <2>1, <2>2, <2>3, <2>4
<1>5. CaptureTypeOK'
  BY <1>1, <1>3, <1>4
<1>6. ASSUME ~reverted'
      PROVE  /\ ~reverted
             /\ \A g \in File : \A v \in past[g] : worktree'[g] = v => worktree[g] = v
             /\ \A g \in File : Gone(g) => worktree'[g] = Absent
  <2>1. ~reverted /\ c \notin past[f] /\ (worktree[f] = Absent => past[f] = {Absent})
    BY <1>2, <1>6 DEF Reverts
  <2>2. QED
    BY <1>1, <2>1 DEF Gone
<1>7. \A g \in File : past[g] \subseteq past'[g] /\ worktree'[g] \in past'[g]
  BY <1>1 DEF PastInv
<1>8. QED
  BY <1>3, <1>5, <1>6, <1>7 DEF WorldMoves, PastInv

(* HEAD names another commit.                                              *)
LEMMA HeadMoves ==
    ASSUME CaptureInv, NEW h \in Head, MoveHead(h)
    PROVE  CaptureTypeOK' /\ WorldMoves
<1> USE DEF CaptureInv, CaptureTypeOK
<1>1. /\ head' = h /\ pastHead' = pastHead \cup {h} /\ h # head
      /\ UNCHANGED <<worktree, past, phase, pending, seen, candidate, held, atFence, atRecheck>>
  BY DEF MoveHead, history
<1>2. reverted' = (reverted \/ h \in pastHead)
  BY DEF MoveHead
<1>3. edits' \in 0 .. MaxEdits /\ reverted' \in BOOLEAN
  <2>1. edits' \in 0 .. MaxEdits
    BY CaptureAssumption DEF MoveHead
  <2>2. reverted' \in BOOLEAN
    BY <1>2
  <2>3. QED
    BY <2>1, <2>2
<1>4. CaptureTypeOK'
  BY <1>1, <1>3
<1>5. ~reverted' => ~reverted /\ \A k \in pastHead : head' = k => head = k
  BY <1>1, <1>2
<1>6. QED
  BY <1>1, <1>4, <1>5 DEF WorldMoves, PastInv, Gone

(* The invariant survives such a move.                                     *)
LEMMA MovedWorld ==
    ASSUME CaptureInv, CaptureTypeOK', WorldMoves
    PROVE  CaptureInv'
<1> USE DEF CaptureInv
<1>1. /\ UNCHANGED <<phase, pending, seen, candidate, atFence, atRecheck>>
      /\ \A f \in File : past[f] \subseteq past'[f]
      /\ Source \subseteq File
  BY CaptureAssumption DEF WorldMoves
<1>2. /\ PastInv' /\ ShapeInv' /\ StatusInv'
  BY <1>1 DEF WorldMoves, PastInv, ShapeInv, StatusInv
<1>3. ReadInv'
  BY <1>1 DEF ReadInv
<1>4. FenceInv'
  <2> SUFFICES ASSUME ~reverted'
               PROVE  FenceInv'
    BY DEF FenceInv
  <2>1. ~reverted /\ \A f \in File : \A v \in past[f] : worktree'[f] = v => worktree[f] = v
    BY DEF WorldMoves
  <2>2. ASSUME phase \in {"fencePaths", "fenceRead"}, NEW f \in Source
        PROVE  atFence.worktree[f] = candidate.content[f] \/ worktree'[f] # candidate.content[f]
    <3>1. candidate.content[f] \in past[f]
      BY <2>2 DEF ReadInv, FencePhases
    <3>2. QED
      BY <1>1, <2>1, <2>2, <3>1 DEF FenceInv
  <2>3. QED
    BY <1>1, <2>1, <2>2 DEF FenceInv
<1>5. RecheckInv'
  <2> SUFFICES ASSUME ~reverted'
               PROVE  RecheckInv'
    BY DEF RecheckInv
  <2>1. ~reverted /\ \A f \in File : \A v \in past[f] : worktree'[f] = v => worktree[f] = v
    BY DEF WorldMoves
  <2>2. ASSUME phase \in {"recheckPaths", "recheckRead"}, NEW f \in Source
        PROVE  atRecheck.worktree[f] = seen.content[f] \/ worktree'[f] # seen.content[f]
    <3>1. seen.content[f] \in past[f]
      BY <2>2 DEF ReadInv, RecheckPhases
    <3>2. QED
      BY <1>1, <2>1, <2>2, <3>1 DEF RecheckInv
  <2>3. QED
    BY <1>1, <2>1, <2>2 DEF RecheckInv
<1>6. /\ phase \in AttemptPhases /\ HeadStayed(seen)' => HeadStayed(seen)
      /\ phase \in FencePhases \cup {"confirmed"} /\ HeadStayed(candidate)' => HeadStayed(candidate)
  BY <1>1 DEF HeadInv, HeadStayed, WorldMoves, AttemptPhases, EndPhases
<1>7. HeadInv'
  BY <1>1, <1>6 DEF HeadInv, WorldMoves, FencedPhases, RecheckPhases, FencePhases
<1>8. TopologyInv'
  <2>1. ~reverted' => \A f \in File : (Gone(f) => Gone(f)') /\ (Back(f) => Back(f)')
    <3> SUFFICES ASSUME ~reverted', NEW f \in File
                 PROVE  (Gone(f) => Gone(f)') /\ (Back(f) => Back(f)')
      OBVIOUS
    <3>1. worktree[f] \in past[f] /\ past[f] \subseteq past'[f]
      BY <1>1 DEF PastInv
    <3>2. QED
      BY <3>1 DEF WorldMoves, Gone, Back
  <2>2. \A c : StatusSince(c) => \A f \in File : Tree[c.head][f] # Absent =>
            /\ Deleted(c, f) => Absent \in past'[f]
            /\ ~Deleted(c, f) => past'[f] # {Absent}
    BY <1>1 DEF StatusSince, PastInv
  <2>3. phase = "prepTracked" /\ HeadStayed(seen)' => StatusSince(seen)'
    BY <1>1, <1>6, <2>2 DEF TopologyInv, StatusSince, AttemptPhases, Deleted
  <2>4. ASSUME phase \in {"prepPaths", "prepRead"}, HeadStayed(seen)'
        PROVE  TopologySince(seen)'
    <3>1. TopologySince(seen) /\ ~reverted' /\ seen' = seen
      BY <1>1, <1>6, <2>4 DEF TopologyInv, AttemptPhases, HeadStayed
    <3>2. \A f \in File : (Gone(f) => Gone(f)') /\ (Back(f) => Back(f)')
      BY <2>1, <3>1
    <3>3. QED
      BY <3>1, <3>2 DEF TopologySince, Deleted
  <2>5. ASSUME phase \in {"fenceHead", "fenceStatus"}, HeadStayed(candidate)'
        PROVE  TopologySince(candidate)'
    <3>1. TopologySince(candidate) /\ ~reverted' /\ candidate' = candidate
      BY <1>1, <1>6, <2>5 DEF TopologyInv, FencePhases, HeadStayed
    <3>2. \A f \in File : (Gone(f) => Gone(f)') /\ (Back(f) => Back(f)')
      BY <2>1, <3>1
    <3>3. QED
      BY <3>1, <3>2 DEF TopologySince, Deleted
  <2>6. phase \in FencedPhases /\ HeadStayed(candidate)' => TopologyAtFence'
    BY <1>1, <1>6 DEF TopologyInv, TopologyAtFence, FencePhases, FencedPhases, Deleted
  <2>7. QED
    BY <1>1, <2>3, <2>4, <2>5, <2>6 DEF TopologyInv
<1>9. QED
  BY <1>2, <1>3, <1>4, <1>5, <1>7, <1>8
-----------------------------------------------------------------------------
(* Steps that end an attempt or begin one: the invariant has nothing to    *)
(* say of an attempt in the phases they lead to.                           *)

(* An empty collection.                                                    *)
LEMMA BlankFacts ==
    ASSUME CaptureTypeOK
    PROVE  /\ Blank \in Collection
           /\ Blank.head = head /\ Blank.paths = {}
           /\ \A f \in File : Blank.content[f] = Absent
BY DEF CaptureTypeOK, Blank, Collection, Entry

(* In these phases only the types, the past and what was never read matter.*)
LEMMA QuietPhase ==
    ASSUME CaptureTypeOK', PastInv', phase' \in {"failed", "prepHead"},
           \A f \in File : f \notin seen'.paths \cap Source => seen'.content[f] = Absent,
           \A f \in File \ Source : candidate'.content[f] = Absent
    PROVE  CaptureInv'
<1>1. /\ ShapeInv' /\ ReadInv' /\ FenceInv' /\ RecheckInv'
  BY DEF ShapeInv, ReadInv, FenceInv, RecheckInv, RecheckPhases, FencePhases, EndPhases
<1>2. HeadInv' /\ StatusInv' /\ TopologyInv'
  BY DEF HeadInv, StatusInv, TopologyInv, AttemptPhases, FencePhases, FencedPhases, RecheckPhases
<1>3. QED
  BY <1>1, <1>2 DEF CaptureInv

(* An error drops what was collected.                                      *)
LEMMA FailStep ==
    ASSUME CaptureInv, Fail
    PROVE  CaptureInv'
<1>1. /\ phase' = "failed" /\ pending' = {} /\ seen' = Blank /\ candidate' = Blank
      /\ UNCHANGED <<worktree, head, edits, past, pastHead, reverted, held, atFence, atRecheck>>
  BY DEF Fail, world, history
<1>2. CaptureTypeOK'
  BY <1>1, BlankFacts DEF CaptureInv, CaptureTypeOK, Outcomes
<1>3. PastInv'
  BY <1>1 DEF CaptureInv, PastInv
<1>4. QED
  BY <1>1, <1>2, <1>3, BlankFacts, QuietPhase DEF CaptureInv

(* A new attempt: the history starts again.                                *)
LEMMA BeginAttemptStep ==
    ASSUME CaptureInv, BeginAttempt
    PROVE  CaptureInv'
<1>1. /\ phase' = "prepHead" /\ pending' = {}
      /\ UNCHANGED <<worktree, head, edits, seen, candidate>>
      /\ past' = [f \in File |-> {worktree[f]}] /\ pastHead' = {head}
      /\ reverted' = FALSE /\ held' = {Manifest(worktree)}
      /\ atFence' = [worktree |-> worktree, head |-> head]
      /\ atRecheck' = [worktree |-> worktree, head |-> head]
  BY DEF BeginAttempt
<1>2. CaptureTypeOK'
  BY <1>1, ManifestType DEF CaptureInv, CaptureTypeOK, PreparePhases
<1>3. PastInv'
  BY <1>1 DEF CaptureInv, PastInv
<1>4. QED
  BY <1>1, <1>2, <1>3, QuietPhase DEF CaptureInv, ShapeInv

-----------------------------------------------------------------------------
(* Steps of an attempt leave the world and its history alone.              *)
StillWorld == UNCHANGED <<worktree, head, edits, past, pastHead, reverted>>

(* Types and the history are kept by such a step.                          *)
LEMMA StillTypes ==
    ASSUME CaptureInv, StillWorld, seen' \in Collection, candidate' \in Collection,
           phase' \in PreparePhases \cup FencePhases \cup Outcomes,
           pending' \subseteq File, held' \in SUBSET [File -> Entry],
           atFence' \in [worktree : [File -> Entry], head : Head],
           atRecheck' \in [worktree : [File -> Entry], head : Head]
    PROVE  CaptureTypeOK' /\ PastInv'
BY DEF CaptureInv, CaptureTypeOK, PastInv, StillWorld

(* Preparation reads HEAD.                                                 *)
LEMMA PrepareHeadStep ==
    ASSUME CaptureInv, PrepareHead
    PROVE  CaptureInv'
<1> USE DEF CaptureInv
<1>1. /\ phase = "prepHead" /\ phase' = "prepStatus" /\ seen' = Blank /\ StillWorld
      /\ UNCHANGED <<pending, candidate, held, atFence, atRecheck>>
  BY DEF PrepareHead, world, history, StillWorld
<1>2. /\ Blank \in Collection /\ Blank.head = head /\ Blank.paths = {}
      /\ \A f \in File : Blank.content[f] = Absent
  BY BlankFacts
<1>3. CaptureTypeOK' /\ PastInv'
  BY <1>1, <1>2, StillTypes DEF CaptureTypeOK, PreparePhases
<1>4. ShapeInv' /\ ReadInv' /\ FenceInv' /\ RecheckInv' /\ StatusInv' /\ TopologyInv'
  BY <1>1, <1>2 DEF ShapeInv, ReadInv, FenceInv, RecheckInv, StatusInv, TopologyInv,
      RecheckPhases, FencePhases, EndPhases, FencedPhases
<1>5. HeadInv'
  BY <1>1, <1>2 DEF HeadInv, StillWorld, PastInv, FencePhases, FencedPhases, RecheckPhases
<1>6. QED
  BY <1>3, <1>4, <1>5

(* Status records are paths with a mark.                                   *)
LEMMA StatusTyping ==
    ASSUME NEW w \in [File -> Entry], NEW h \in Head
    PROVE  StatusRecords(w, h) \in SUBSET (File \X BOOLEAN)
<1>1. ASSUME NEW g \in File
      PROVE  <<g, w[g] = Absent>> \in File \X BOOLEAN
  BY <1>1, Zenon
<1>2. QED
  BY <1>1, Zenon DEF StatusRecords

(* What the status records say of a tracked path.                          *)
LEMMA StatusSays ==
    ASSUME NEW w \in [File -> Entry], NEW h \in Head, NEW f \in File
    PROVE  /\ <<f, TRUE>> \in StatusRecords(w, h) => w[f] = Absent
           /\ Tree[h][f] # Absent /\ w[f] = Absent => <<f, TRUE>> \in StatusRecords(w, h)
<1>1. ASSUME <<f, TRUE>> \in StatusRecords(w, h)
      PROVE  w[f] = Absent
  <2>1. PICK g \in File : <<f, TRUE>> = <<g, w[g] = Absent>>
    BY <1>1 DEF StatusRecords
  <2>2. f = g /\ TRUE = (w[g] = Absent)
    BY <2>1, Zenon
  <2>3. QED
    BY <2>2, Zenon
<1>2. ASSUME Tree[h][f] # Absent, w[f] = Absent
      PROVE  <<f, TRUE>> \in StatusRecords(w, h)
  <2>1. f \in {g \in File : w[g] # Tree[h][g]}
    BY <1>2
  <2>2. (w[f] = Absent) = TRUE
    BY <1>2, Zenon
  <2>3. <<f, TRUE>> = <<f, w[f] = Absent>>
    BY <2>2, Zenon
  <2>4. QED
    BY <2>1, <2>3, Zenon DEF StatusRecords
<1>3. QED
  BY <1>1, <1>2

(* Preparation reads the status records.                                   *)
LEMMA PrepareStatusStep ==
    ASSUME CaptureInv, PrepareStatus
    PROVE  CaptureInv'
<1> USE DEF CaptureInv
<1>1. /\ phase = "prepStatus" /\ phase' = "prepTracked" /\ StillWorld
      /\ seen' = [seen EXCEPT !.status = StatusRecords(worktree, head)]
      /\ UNCHANGED <<pending, candidate, held, atFence, atRecheck>>
  BY DEF PrepareStatus, world, history, StillWorld
<1>2. /\ StatusRecords(worktree, head) \in SUBSET (File \X BOOLEAN)
      /\ \A f \in File : Tree[head][f] # Absent =>
            (<<f, TRUE>> \in StatusRecords(worktree, head) <=> worktree[f] = Absent)
  BY StatusSays, StatusTyping DEF CaptureTypeOK
<1>3. /\ seen' \in Collection /\ seen'.head = seen.head /\ seen'.paths = seen.paths
      /\ seen'.status = StatusRecords(worktree, head) /\ seen'.content = seen.content
  BY <1>1, <1>2 DEF CaptureTypeOK, Collection
<1>4. CaptureTypeOK' /\ PastInv'
  BY <1>1, <1>3, StillTypes DEF CaptureTypeOK, PreparePhases
<1>5. ShapeInv' /\ ReadInv' /\ FenceInv' /\ RecheckInv' /\ StatusInv'
  BY <1>1, <1>3 DEF ShapeInv, ReadInv, FenceInv, RecheckInv, StatusInv, RecheckPhases,
      FencePhases, EndPhases, FencedPhases
<1>6. HeadInv'
  BY <1>1, <1>3 DEF HeadInv, StillWorld, AttemptPhases, FencePhases, FencedPhases, RecheckPhases
<1>7. TopologyInv'
  <2>1. HeadStayed(seen)' => StatusSince(seen)'
    BY <1>1, <1>2, <1>3 DEF HeadStayed, StatusSince, Deleted, EndPhases, StillWorld, PastInv
  <2>2. QED
    BY <1>1, <2>1 DEF TopologyInv, FencedPhases
<1>8. QED
  BY <1>4, <1>5, <1>6, <1>7

(* Preparation collects the tracked paths: where they differ from the      *)
(* status records, the path has changed since.                             *)
LEMMA PrepareTrackedStep ==
    ASSUME CaptureInv, PrepareTracked
    PROVE  CaptureInv'
<1> USE DEF CaptureInv
<1>1. /\ phase = "prepTracked" /\ phase' = "prepPaths" /\ StillWorld /\ pending' = File
      /\ seen' = [seen EXCEPT !.topology = TrackedPaths(worktree, head)]
      /\ UNCHANGED <<candidate, held, atFence, atRecheck>>
  BY DEF PrepareTracked, world, history, StillWorld
<1>2. /\ TrackedPaths(worktree, head) \in SUBSET File
      /\ \A f \in File : f \in TrackedPaths(worktree, head) <=>
                            worktree[f] # Absent /\ Tree[head][f] # Absent
  BY DEF TrackedPaths, Present
<1>3. /\ seen' \in Collection /\ seen'.head = seen.head /\ seen'.paths = seen.paths
      /\ seen'.topology = TrackedPaths(worktree, head)
      /\ seen'.status = seen.status /\ seen'.content = seen.content
  BY <1>1, <1>2 DEF CaptureTypeOK, Collection
<1>4. CaptureTypeOK' /\ PastInv'
  BY <1>1, <1>3, StillTypes DEF CaptureTypeOK, PreparePhases
<1>5. ShapeInv' /\ ReadInv' /\ FenceInv' /\ RecheckInv' /\ StatusInv'
  BY <1>1, <1>3 DEF ShapeInv, ReadInv, FenceInv, RecheckInv, StatusInv, RecheckPhases,
      FencePhases, EndPhases, FencedPhases
<1>6. HeadInv'
  BY <1>1, <1>3 DEF HeadInv, StillWorld, AttemptPhases, FencePhases, FencedPhases, RecheckPhases
<1>7. TopologyInv'
  <2>1. ASSUME HeadStayed(seen)'
        PROVE  TopologySince(seen)'
    <3>1. StatusSince(seen) /\ head = seen.head
      BY <1>1, <1>3, <2>1 DEF HeadStayed, EndPhases, StillWorld, TopologyInv
    <3>2. \A f \in File : (Gone(f)' <=> Gone(f)) /\ (Back(f)' <=> Back(f))
      BY <1>1 DEF Gone, Back, StillWorld
    <3>3. QED
      BY <1>2, <1>3, <3>1, <3>2 DEF TopologySince, StatusSince, Deleted, Gone, Back
  <2>2. QED
    BY <1>1, <2>1 DEF TopologyInv, FencedPhases
<1>8. QED
  BY <1>4, <1>5, <1>6, <1>7
(* What the invariant says of HEAD, status and tracked paths, when a step  *)
(* adds only to the paths and bytes of the collection.                     *)
LEMMA StatusKept ==
    ASSUME CaptureInv, StillWorld, UNCHANGED <<phase, candidate, atFence, atRecheck>>,
           seen'.head = seen.head, seen'.status = seen.status, seen'.topology = seen.topology,
           phase # "confirmed"
    PROVE  HeadInv' /\ StatusInv' /\ TopologyInv'
<1> USE DEF CaptureInv, StillWorld
<1>1. (HeadStayed(seen)' <=> HeadStayed(seen)) /\ (HeadStayed(candidate)' <=> HeadStayed(candidate))
  BY DEF HeadStayed
<1>2. HeadInv' /\ StatusInv'
  BY <1>1 DEF HeadInv, StatusInv
<1>3. \A f \in File : (Gone(f)' <=> Gone(f)) /\ (Back(f)' <=> Back(f))
  BY DEF Gone, Back
<1>4. /\ StatusSince(seen) => StatusSince(seen)'
      /\ TopologySince(seen) => TopologySince(seen)'
      /\ TopologySince(candidate) => TopologySince(candidate)'
      /\ TopologyAtFence => TopologyAtFence'
  BY <1>3 DEF StatusSince, TopologySince, TopologyAtFence, Deleted
<1>5. TopologyInv'
  BY <1>1, <1>4 DEF TopologyInv
<1>6. QED
  BY <1>2, <1>5

(* Path discovery visits one path: if it is absent in the fence as it was  *)
(* in preparation, it was absent when the fence read the status.           *)
LEMMA VisitPathStep ==
    ASSUME CaptureInv, NEW f \in File, VisitPath(f)
    PROVE  CaptureInv'
<1> USE DEF CaptureInv
<1>1. /\ phase \in {"prepPaths", "fencePaths"} /\ StillWorld
      /\ f \in pending /\ pending' = pending \ {f}
      /\ UNCHANGED <<phase, candidate, held, atFence, atRecheck>>
  BY DEF VisitPath, world, history, StillWorld
<1>2. /\ seen' \in Collection /\ seen'.head = seen.head /\ seen'.topology = seen.topology
      /\ seen'.status = seen.status /\ seen'.content = seen.content
      /\ seen'.paths = IF worktree[f] # Absent THEN seen.paths \cup {f} ELSE seen.paths
  BY DEF VisitPath, CaptureTypeOK, Collection
<1>3. CaptureTypeOK' /\ PastInv'
  BY <1>1, <1>2, StillTypes DEF CaptureTypeOK, PreparePhases, FencePhases
<1>4. HeadInv' /\ StatusInv' /\ TopologyInv'
  BY <1>1, <1>2, StatusKept
<1>5. ShapeInv' /\ RecheckInv'
  BY <1>1, <1>2 DEF ShapeInv, RecheckInv, EndPhases
<1>6. ReadInv'
  BY <1>1, <1>2 DEF ReadInv, StillWorld, PastInv, RecheckPhases
<1>7. FenceInv'
  <2> SUFFICES ASSUME ~reverted, phase = "fencePaths"
               PROVE  FenceInv'
    BY <1>1 DEF FenceInv, StillWorld, RecheckPhases
  <2>1. \A g \in Source : \/ atFence.worktree[g] = candidate.content[g]
                          \/ worktree[g] # candidate.content[g]
    BY DEF FenceInv
  <2>2. \A g \in Source \ (pending' \cup seen'.paths) :
            candidate.content[g] = Absent => atFence.worktree[g] = Absent
    BY <1>1, <1>2, <2>1 DEF FenceInv
  <2>3. QED
    BY <1>1, <2>1, <2>2 DEF FenceInv, StillWorld, RecheckPhases
<1>8. QED
  BY <1>3, <1>4, <1>5, <1>6, <1>7

(* A pass has visited every path and begins to read the sources it found.  *)
LEMMA BeginReadingStep ==
    ASSUME CaptureInv,
           NEW step \in {<<"prepPaths", "prepRead">>, <<"fencePaths", "fenceRead">>,
                         <<"recheckPaths", "recheckRead">>},
           phase = step[1], BeginReading(step[2])
    PROVE  CaptureInv'
<1> USE DEF CaptureInv
<1>1. /\ \/ phase = "prepPaths" /\ phase' = "prepRead"
         \/ phase = "fencePaths" /\ phase' = "fenceRead"
         \/ phase = "recheckPaths" /\ phase' = "recheckRead"
      /\ pending = {} /\ pending' = seen.paths \cap Source /\ StillWorld
      /\ UNCHANGED <<seen, candidate, held, atFence, atRecheck>>
  BY DEF BeginReading, world, history, StillWorld
<1>2. seen.paths \subseteq File /\ Source \subseteq File
  BY CaptureAssumption DEF CaptureTypeOK, Collection
<1>3. CaptureTypeOK' /\ PastInv'
  BY <1>1, <1>2, StillTypes DEF CaptureTypeOK, PreparePhases, FencePhases
<1>4. ShapeInv'
  BY <1>1 DEF ShapeInv
<1>5. ReadInv'
  BY <1>1, <1>2 DEF ReadInv, StillWorld, RecheckPhases, ShapeInv, FencePhases
<1>6. FenceInv'
  BY <1>1, <1>2 DEF FenceInv, StillWorld, RecheckPhases, ShapeInv
<1>7. RecheckInv'
  BY <1>1, <1>2 DEF RecheckInv, StillWorld, EndPhases, ShapeInv
<1>8. /\ HeadStayed(seen)' <=> HeadStayed(seen)
      /\ HeadStayed(candidate)' <=> HeadStayed(candidate)
  BY <1>1 DEF HeadStayed, StillWorld, EndPhases
<1>9. HeadInv' /\ StatusInv'
  BY <1>1, <1>8 DEF HeadInv, StatusInv, StillWorld, AttemptPhases, FencePhases, FencedPhases,
      RecheckPhases
<1>10. TopologyInv'
  <2>1. \A g \in File : (Gone(g)' <=> Gone(g)) /\ (Back(g)' <=> Back(g))
    BY <1>1 DEF Gone, Back, StillWorld
  <2>2. /\ TopologySince(seen) => TopologySince(seen)'
        /\ TopologyAtFence => TopologyAtFence'
    BY <1>1, <2>1 DEF TopologySince, TopologyAtFence, Deleted
  <2>3. QED
    BY <1>1, <1>8, <2>2 DEF TopologyInv, FencedPhases
<1>11. QED
  BY <1>3, <1>4, <1>5, <1>6, <1>7, <1>9, <1>10

(* One source is read: if it has the bytes of the candidate, it had them   *)
(* when the fence read the status.                                         *)
LEMMA ReadSourceStep ==
    ASSUME CaptureInv, NEW f \in File, ReadSource(f)
    PROVE  CaptureInv'
<1> USE DEF CaptureInv
<1>1. CASE Fail
  BY <1>1, FailStep
<1>2. CASE ~Fail
  <2>1. /\ phase \in {"prepRead", "fenceRead"} /\ StillWorld
        /\ f \in pending /\ pending' = pending \ {f} /\ worktree[f] # Absent
        /\ UNCHANGED <<phase, candidate, held, atFence, atRecheck>>
        /\ seen' = [seen EXCEPT !.content[f] = worktree[f]]
    BY <1>2 DEF ReadSource, IsNext, world, history, StillWorld
  <2>2. /\ seen' \in Collection /\ seen'.head = seen.head /\ seen'.topology = seen.topology
        /\ seen'.status = seen.status /\ seen'.paths = seen.paths
        /\ \A g \in File : seen'.content[g] = IF g = f THEN worktree[f] ELSE seen.content[g]
    BY <2>1 DEF CaptureTypeOK, Collection
  <2>3. CaptureTypeOK' /\ PastInv'
    BY <2>1, <2>2, StillTypes DEF CaptureTypeOK, PreparePhases, FencePhases
  <2>4. HeadInv' /\ StatusInv' /\ TopologyInv'
    BY <2>1, <2>2, StatusKept
  <2>5. f \in seen.paths \cap Source /\ Source \subseteq File
    BY <2>1, CaptureAssumption DEF ShapeInv
  <2>6. ShapeInv' /\ RecheckInv'
    BY <2>1, <2>2, <2>5 DEF ShapeInv, RecheckInv, EndPhases
  <2>7. ReadInv'
    BY <2>1, <2>2, <2>5 DEF ReadInv, StillWorld, PastInv, RecheckPhases
  <2>8. FenceInv'
    <3> SUFFICES ASSUME ~reverted, phase = "fenceRead"
                 PROVE  FenceInv'
      BY <2>1 DEF FenceInv, StillWorld, RecheckPhases
    <3>1. \A g \in Source : \/ atFence.worktree[g] = candidate.content[g]
                            \/ worktree[g] # candidate.content[g]
      BY DEF FenceInv
    <3>2. \A g \in Source \ pending' : candidate.content[g] = seen'.content[g] =>
                                          atFence.worktree[g] = seen'.content[g]
      BY <2>1, <2>2, <2>5, <3>1 DEF FenceInv
    <3>3. QED
      BY <2>1, <3>1, <3>2 DEF FenceInv, StillWorld, RecheckPhases
  <2>9. QED
    BY <2>3, <2>4, <2>6, <2>7, <2>8
<1>3. QED
  BY <1>1, <1>2
(* Preparation is done: what it collected is the candidate.                *)
LEMMA PreparedStep ==
    ASSUME CaptureInv, Prepared
    PROVE  CaptureInv'
<1> USE DEF CaptureInv
<1>1. /\ phase = "prepRead" /\ phase' = "fenceHead" /\ pending = {} /\ candidate' = seen
      /\ StillWorld /\ UNCHANGED <<pending, seen, held, atFence, atRecheck>>
  BY DEF Prepared, world, history, StillWorld
<1>2. CaptureTypeOK' /\ PastInv'
  BY <1>1, StillTypes DEF CaptureTypeOK, FencePhases
<1>3. ShapeInv' /\ ReadInv' /\ FenceInv' /\ RecheckInv' /\ StatusInv'
  BY <1>1 DEF ShapeInv, ReadInv, FenceInv, RecheckInv, StatusInv, RecheckPhases, EndPhases,
      FencedPhases, StillWorld
<1>4. HeadInv'
  BY <1>1 DEF HeadInv, StillWorld, AttemptPhases, FencePhases, FencedPhases, RecheckPhases
<1>5. TopologyInv'
  <2>1. HeadStayed(candidate)' => HeadStayed(seen)
    BY <1>1 DEF HeadStayed, StillWorld, EndPhases
  <2>2. \A f \in File : (Gone(f)' <=> Gone(f)) /\ (Back(f)' <=> Back(f))
    BY <1>1 DEF Gone, Back, StillWorld
  <2>3. HeadStayed(candidate)' => TopologySince(candidate)'
    BY <1>1, <2>1, <2>2 DEF TopologyInv, TopologySince, Deleted
  <2>4. QED
    BY <1>1, <2>3 DEF TopologyInv, FencedPhases
<1>6. QED
  BY <1>2, <1>3, <1>4, <1>5

(* The fence finds HEAD where preparation found it.                        *)
LEMMA FenceHeadStep ==
    ASSUME CaptureInv, FenceHead
    PROVE  CaptureInv'
<1> USE DEF CaptureInv
<1>1. CASE Fail
  BY <1>1, FailStep
<1>2. CASE ~Fail
  <2>1. /\ phase = "fenceHead" /\ phase' = "fenceStatus" /\ seen' = Blank /\ StillWorld
        /\ head = candidate.head
        /\ UNCHANGED <<pending, candidate, held, atFence, atRecheck>>
    BY <1>2 DEF FenceHead, world, history, StillWorld
  <2>2. /\ Blank \in Collection /\ Blank.head = head /\ Blank.paths = {}
        /\ \A f \in File : Blank.content[f] = Absent
    BY BlankFacts
  <2>3. CaptureTypeOK' /\ PastInv'
    BY <2>1, <2>2, StillTypes DEF CaptureTypeOK, FencePhases
  <2>4. ShapeInv' /\ ReadInv' /\ FenceInv' /\ RecheckInv' /\ StatusInv'
    BY <2>1, <2>2 DEF ShapeInv, ReadInv, FenceInv, RecheckInv, StatusInv, RecheckPhases,
        FencePhases, EndPhases, FencedPhases, StillWorld
  <2>5. HeadInv'
    BY <2>1, <2>2 DEF HeadInv, StillWorld, AttemptPhases, FencePhases, FencedPhases, RecheckPhases
  <2>6. TopologyInv'
    <3>1. HeadStayed(candidate)' => HeadStayed(candidate)
      BY <2>1 DEF HeadStayed, StillWorld, EndPhases
    <3>2. \A f \in File : (Gone(f)' <=> Gone(f)) /\ (Back(f)' <=> Back(f))
      BY <2>1 DEF Gone, Back, StillWorld
    <3>3. HeadStayed(candidate)' => TopologySince(candidate)'
      BY <2>1, <3>1, <3>2 DEF TopologyInv, TopologySince, Deleted
    <3>4. QED
      BY <2>1, <3>3 DEF TopologyInv, FencedPhases
  <2>7. QED
    BY <2>3, <2>4, <2>5, <2>6
<1>3. QED
  BY <1>1, <1>2

(* The fence reads the status records: this is the instant a confirmed     *)
(* candidate will turn out to be the state of.                             *)
LEMMA FenceStatusStep ==
    ASSUME CaptureInv, FenceStatus
    PROVE  CaptureInv'
<1> USE DEF CaptureInv
<1>1. /\ phase = "fenceStatus" /\ phase' = "fencePaths" /\ StillWorld /\ pending' = File
      /\ seen' = [seen EXCEPT !.status = StatusRecords(worktree, head)]
      /\ atFence' = [worktree |-> worktree, head |-> head]
      /\ UNCHANGED <<candidate, held, atRecheck>>
  BY DEF FenceStatus, world, StillWorld
<1>2. /\ seen' \in Collection /\ seen'.head = seen.head /\ seen'.paths = seen.paths
      /\ seen'.status = StatusRecords(worktree, head) /\ seen'.content = seen.content
  BY <1>1, StatusTyping DEF CaptureTypeOK, Collection
<1>3. /\ atFence'.worktree = worktree /\ atFence'.head = head
      /\ atFence' \in [worktree : [File -> Entry], head : Head]
  BY <1>1 DEF CaptureTypeOK
<1>4. CaptureTypeOK' /\ PastInv'
  BY <1>1, <1>2, <1>3, StillTypes DEF CaptureTypeOK, FencePhases
<1>5. ShapeInv' /\ ReadInv' /\ RecheckInv'
  BY <1>1, <1>2 DEF ShapeInv, ReadInv, RecheckInv, RecheckPhases, FencePhases, EndPhases,
      StillWorld
<1>6. FenceInv'
  BY <1>1, <1>3, CaptureAssumption DEF FenceInv, RecheckPhases, StillWorld
<1>7. StatusInv'
  BY <1>1, <1>2, <1>3 DEF StatusInv, FencedPhases
<1>8. HeadInv'
  BY <1>1, <1>2, <1>3 DEF HeadInv, HeadStayed, StillWorld, AttemptPhases, FencePhases,
      FencedPhases, RecheckPhases, EndPhases
<1>9. TopologyInv'
  <2>1. HeadStayed(candidate)' => HeadStayed(candidate)
    BY <1>1 DEF HeadStayed, StillWorld, EndPhases
  <2>2. HeadStayed(candidate)' => TopologyAtFence'
    BY <1>1, <1>3, <2>1 DEF TopologyInv, TopologySince, TopologyAtFence, Deleted, Gone, Back
  <2>3. QED
    BY <1>1, <2>2 DEF TopologyInv
<1>10. QED
  BY <1>4, <1>5, <1>6, <1>7, <1>8, <1>9

(* The fence has read every source and looks at everything again.          *)
LEMMA BeginRecheckStep ==
    ASSUME CaptureInv, BeginRecheck
    PROVE  CaptureInv'
<1> USE DEF CaptureInv
<1>1. /\ phase = "fenceRead" /\ phase' = "recheckPaths" /\ pending = {} /\ pending' = File
      /\ StillWorld /\ atRecheck' = [worktree |-> worktree, head |-> head]
      /\ UNCHANGED <<seen, candidate, held, atFence>>
  BY DEF BeginRecheck, world, StillWorld
<1>2. /\ atRecheck'.worktree = worktree /\ atRecheck'.head = head
      /\ atRecheck' \in [worktree : [File -> Entry], head : Head]
  BY <1>1 DEF CaptureTypeOK
<1>3. CaptureTypeOK' /\ PastInv'
  BY <1>1, <1>2, StillTypes DEF CaptureTypeOK, FencePhases
<1>4. ShapeInv' /\ ReadInv' /\ StatusInv'
  BY <1>1 DEF ShapeInv, ReadInv, StatusInv, RecheckPhases, FencePhases, FencedPhases, StillWorld
<1>5. FenceInv'
  BY <1>1 DEF FenceInv, RecheckPhases, StillWorld
<1>6. RecheckInv'
  BY <1>1, <1>2, CaptureAssumption DEF RecheckInv, EndPhases, StillWorld
<1>7. HeadStayed(candidate)' => HeadStayed(candidate)
  BY <1>1 DEF HeadStayed, StillWorld, EndPhases
<1>8. HeadInv'
  BY <1>1, <1>2, <1>7 DEF HeadInv, HeadStayed, StillWorld, AttemptPhases, FencePhases,
      FencedPhases, RecheckPhases, EndPhases
<1>9. TopologyInv'
  BY <1>1, <1>7 DEF TopologyInv, TopologyAtFence, Deleted, FencedPhases
<1>10. QED
  BY <1>3, <1>4, <1>5, <1>6, <1>8, <1>9

(* A path is rechecked.                                                    *)
LEMMA RecheckPathStep ==
    ASSUME CaptureInv, NEW f \in File, RecheckPath(f)
    PROVE  CaptureInv'
<1> USE DEF CaptureInv
<1>1. CASE Fail
  BY <1>1, FailStep
<1>2. CASE ~Fail
  <2>1. /\ phase = "recheckPaths" /\ StillWorld
        /\ f \in pending /\ pending' = pending \ {f}
        /\ UNCHANGED <<phase, seen, candidate, held, atFence, atRecheck>>
    BY <1>2 DEF RecheckPath, world, history, StillWorld
  <2>2. f \notin seen.paths => worktree[f] = Absent
    BY <1>2 DEF RecheckPath
  <2>3. CaptureTypeOK' /\ PastInv'
    BY <2>1, StillTypes DEF CaptureTypeOK, FencePhases
  <2>4. HeadInv' /\ StatusInv' /\ TopologyInv'
    BY <2>1, StatusKept
  <2>5. ShapeInv' /\ ReadInv' /\ FenceInv'
    BY <2>1 DEF ShapeInv, ReadInv, FenceInv, StillWorld
  <2>6. RecheckInv'
    BY <2>1, <2>2, CaptureAssumption DEF RecheckInv, ShapeInv, StillWorld, EndPhases
  <2>7. QED
    BY <2>3, <2>4, <2>5, <2>6
<1>3. QED
  BY <1>1, <1>2

(* A source is read again and compared.                                    *)
LEMMA RecheckSourceStep ==
    ASSUME CaptureInv, NEW f \in File, RecheckSource(f)
    PROVE  CaptureInv'
<1> USE DEF CaptureInv
<1>1. CASE Fail
  BY <1>1, FailStep
<1>2. CASE ~Fail
  <2>1. /\ phase = "recheckRead" /\ StillWorld
        /\ f \in pending /\ pending' = pending \ {f} /\ worktree[f] = seen.content[f]
        /\ UNCHANGED <<phase, seen, candidate, held, atFence, atRecheck>>
    BY <1>2 DEF RecheckSource, IsNext, Unchanged, world, history, StillWorld
  <2>2. CaptureTypeOK' /\ PastInv'
    BY <2>1, StillTypes DEF CaptureTypeOK, FencePhases
  <2>3. HeadInv' /\ StatusInv' /\ TopologyInv'
    BY <2>1, StatusKept
  <2>4. ShapeInv' /\ ReadInv' /\ FenceInv'
    BY <2>1 DEF ShapeInv, ReadInv, FenceInv, StillWorld
  <2>5. RecheckInv'
    BY <2>1 DEF RecheckInv, StillWorld, EndPhases
  <2>6. QED
    BY <2>2, <2>3, <2>4, <2>5
<1>3. QED
  BY <1>1, <1>2

(* The fence has read everything twice.                                    *)
LEMMA BeginEndStep ==
    ASSUME CaptureInv, BeginEnd
    PROVE  CaptureInv'
<1> USE DEF CaptureInv
<1>1. /\ phase = "recheckRead" /\ phase' = "endHead" /\ pending = {} /\ StillWorld
      /\ UNCHANGED <<pending, seen, candidate, held, atFence, atRecheck>>
  BY DEF BeginEnd, world, history, StillWorld
<1>2. CaptureTypeOK' /\ PastInv'
  BY <1>1, StillTypes DEF CaptureTypeOK, FencePhases
<1>3. ShapeInv' /\ ReadInv' /\ FenceInv' /\ RecheckInv' /\ StatusInv'
  BY <1>1 DEF ShapeInv, ReadInv, FenceInv, RecheckInv, StatusInv, RecheckPhases, FencePhases,
      FencedPhases, EndPhases, StillWorld
<1>4. HeadStayed(candidate)' => HeadStayed(candidate)
  BY <1>1 DEF HeadStayed, StillWorld, EndPhases
<1>5. HeadInv'
  BY <1>1, <1>4 DEF HeadInv, StillWorld, AttemptPhases, FencePhases, FencedPhases, RecheckPhases
<1>6. TopologyInv'
  BY <1>1, <1>4 DEF TopologyInv, TopologyAtFence, Deleted, FencedPhases
<1>7. QED
  BY <1>2, <1>3, <1>5, <1>6

(* HEAD is still where the fence found it.                                 *)
LEMMA EndHeadStep ==
    ASSUME CaptureInv, EndHead
    PROVE  CaptureInv'
<1> USE DEF CaptureInv
<1>1. CASE Fail
  BY <1>1, FailStep
<1>2. CASE ~Fail
  <2>1. /\ phase = "endHead" /\ phase' = "endStatus" /\ StillWorld /\ head = seen.head
        /\ UNCHANGED <<pending, seen, candidate, held, atFence, atRecheck>>
    BY <1>2 DEF EndHead, world, history, StillWorld
  <2>2. CaptureTypeOK' /\ PastInv'
    BY <2>1, StillTypes DEF CaptureTypeOK, FencePhases
  <2>3. ShapeInv' /\ ReadInv' /\ FenceInv' /\ RecheckInv' /\ StatusInv'
    BY <2>1 DEF ShapeInv, ReadInv, FenceInv, RecheckInv, StatusInv, RecheckPhases, FencePhases,
        FencedPhases, EndPhases, StillWorld
  <2>4. HeadStayed(candidate)' => HeadStayed(candidate)
    BY <2>1 DEF HeadStayed, StillWorld, EndPhases, HeadInv, FencedPhases
  <2>5. HeadInv'
    BY <2>1, <2>4 DEF HeadInv, StillWorld, AttemptPhases, FencePhases, FencedPhases, RecheckPhases
  <2>6. TopologyInv'
    BY <2>1, <2>4 DEF TopologyInv, TopologyAtFence, Deleted, FencedPhases
  <2>7. QED
    BY <2>2, <2>3, <2>5, <2>6
<1>3. QED
  BY <1>1, <1>2

(* The last comparison.                                                    *)
LEMMA EndStatusStep ==
    ASSUME CaptureInv, EndStatus
    PROVE  CaptureInv'
<1> USE DEF CaptureInv
<1>1. /\ phase = "endStatus" /\ StillWorld
      /\ UNCHANGED <<pending, seen, candidate, held, atFence, atRecheck>>
      /\ phase' = IF FenceAccepts THEN "confirmed" ELSE "failed"
  BY DEF EndStatus, world, history, StillWorld
<1>2. CaptureTypeOK' /\ PastInv'
  BY <1>1, StillTypes DEF CaptureTypeOK, Outcomes
<1>3. CASE phase' = "failed"
  BY <1>1, <1>2, <1>3, QuietPhase DEF ShapeInv
<1>4. CASE phase' = "confirmed" /\ FenceAccepts
  <2>1. ShapeInv' /\ ReadInv' /\ FenceInv' /\ RecheckInv' /\ StatusInv'
    BY <1>1, <1>4 DEF ShapeInv, ReadInv, FenceInv, RecheckInv, StatusInv, RecheckPhases,
        FencePhases, FencedPhases, EndPhases, StillWorld, FenceAccepts
  <2>2. HeadStayed(candidate)' => HeadStayed(candidate)
    BY <1>1 DEF HeadStayed, StillWorld, EndPhases
  <2>3. HeadInv'
    BY <1>1, <1>4, <2>2 DEF HeadInv, StillWorld, AttemptPhases, FencePhases, FencedPhases,
        RecheckPhases
  <2>4. TopologyInv'
    BY <1>1, <1>4, <2>2 DEF TopologyInv, TopologyAtFence, Deleted, FencedPhases
  <2>5. QED
    BY <1>2, <2>1, <2>3, <2>4
<1>5. QED
  BY <1>1, <1>3, <1>4
-----------------------------------------------------------------------------
(* The invariant is inductive.                                             *)

(* The initial states satisfy the invariant.                               *)
LEMMA CaptureInitInv ==
    ASSUME Init
    PROVE  CaptureInv
<1> USE DEF Init
<1>1. worktree \in [File -> Entry] /\ head \in Head
  BY CaptureAssumption DEF Entry
<1>2. /\ Blank \in Collection /\ Blank.paths = {}
      /\ \A f \in File : Blank.content[f] = Absent
  BY <1>1 DEF Blank, Collection, Entry
<1>3. CaptureTypeOK
  <2>1. past \in [File -> SUBSET Entry] /\ pastHead \in SUBSET Head /\ edits \in 0 .. MaxEdits
    BY <1>1, CaptureAssumption
  <2>2. /\ atFence \in [worktree : [File -> Entry], head : Head]
        /\ atRecheck \in [worktree : [File -> Entry], head : Head]
    BY <1>1
  <2>3. phase \in Outcomes /\ reverted \in BOOLEAN /\ held \in SUBSET [File -> Entry]
    BY <1>1, ManifestType DEF Outcomes
  <2>4. QED
    BY <1>1, <1>2, <2>1, <2>2, <2>3 DEF CaptureTypeOK
<1>4. PastInv
  BY DEF PastInv
<1>5. ShapeInv /\ ReadInv /\ FenceInv /\ RecheckInv
  BY <1>2 DEF ShapeInv, ReadInv, FenceInv, RecheckInv, RecheckPhases, FencePhases, EndPhases
<1>6. HeadInv /\ StatusInv /\ TopologyInv
  BY DEF HeadInv, StatusInv, TopologyInv, AttemptPhases, FencePhases, FencedPhases, RecheckPhases
<1>7. QED
  BY <1>3, <1>4, <1>5, <1>6 DEF CaptureInv

(* A step that changes nothing.                                            *)
LEMMA CaptureStutter ==
    ASSUME CaptureInv, UNCHANGED vars
    PROVE  CaptureInv'
<1> USE DEF CaptureInv
<1>1. /\ StillWorld /\ UNCHANGED <<phase, pending, seen, candidate, held, atFence, atRecheck>>
  BY DEF vars, world, history, StillWorld
<1>2. CaptureTypeOK' /\ WorldMoves
  BY <1>1, StillTypes DEF CaptureTypeOK, WorldMoves, StillWorld, PastInv, Gone
<1>3. QED
  BY <1>2, MovedWorld

(* Every step of an attempt, and every change under it, preserves the      *)
(* invariant.                                                              *)
LEMMA CaptureNextInv ==
    ASSUME CaptureInv, [Next]_vars
    PROVE  CaptureInv'
<1>1. CASE \/ \E f \in File, c \in Entry : Edit(f, c)
           \/ \E h \in Head : MoveHead(h)
  BY <1>1, EditMoves, HeadMoves, MovedWorld
<1>2. CASE Abandon
  BY <1>2, FailStep DEF Abandon
<1>3. CASE \E f \in File : VisitPath(f) \/ ReadSource(f) \/ RecheckPath(f) \/ RecheckSource(f)
  BY <1>3, VisitPathStep, ReadSourceStep, RecheckPathStep, RecheckSourceStep
<1>4. CASE BeginAttempt \/ PrepareHead \/ PrepareStatus \/ PrepareTracked \/ Prepared
  BY <1>4, BeginAttemptStep, PrepareHeadStep, PrepareStatusStep, PrepareTrackedStep, PreparedStep
<1>5. CASE PrepareReading \/ FenceReading \/ RecheckReading
  <2>1. CASE PrepareReading
    BY <2>1, BeginReadingStep, <<"prepPaths", "prepRead">>[1] = "prepPaths",
       <<"prepPaths", "prepRead">>[2] = "prepRead" DEF PrepareReading
  <2>2. CASE FenceReading
    BY <2>2, BeginReadingStep, <<"fencePaths", "fenceRead">>[1] = "fencePaths",
       <<"fencePaths", "fenceRead">>[2] = "fenceRead" DEF FenceReading
  <2>3. CASE RecheckReading
    BY <2>3, BeginReadingStep, <<"recheckPaths", "recheckRead">>[1] = "recheckPaths",
       <<"recheckPaths", "recheckRead">>[2] = "recheckRead" DEF RecheckReading
  <2>4. QED
    BY <1>5, <2>1, <2>2, <2>3
<1>6. CASE FenceHead \/ FenceStatus \/ BeginRecheck \/ BeginEnd \/ EndHead \/ EndStatus
  BY <1>6, FenceHeadStep, FenceStatusStep, BeginRecheckStep, BeginEndStep, EndHeadStep,
     EndStatusStep
<1>7. CASE UNCHANGED vars
  BY <1>7, CaptureStutter
<1>8. QED
  BY <1>1, <1>2, <1>3, <1>4, <1>5, <1>6, <1>7 DEF Next

(* The invariant of the capture holds in every reachable state.            *)
THEOREM CaptureInvariance == Spec => []CaptureInv
<1>1. Init => CaptureInv
  BY CaptureInitInv
<1>2. CaptureInv /\ [Next]_vars => CaptureInv'
  BY CaptureNextInv
<1>3. QED
  BY <1>1, <1>2, PTL DEF Spec

-----------------------------------------------------------------------------
(* What the invariant says of the properties.                              *)

(* Candidate, collection and history keep their types.                     *)
THEOREM CaptureTypes == Spec => []CaptureTypeOK
<1>1. CaptureInv => CaptureTypeOK
  BY DEF CaptureInv
<1>2. QED
  BY <1>1, CaptureInvariance, PTL

(* A confirmed candidate is the repository at one instant, however many    *)
(* edits and commits fell between the steps that collected it, unless one  *)
(* of them took an earlier value back.                                     *)
THEOREM OneState == Spec => []ConfirmedIsOneState
<1>1. CaptureInv => ConfirmedIsOneState
  <2> SUFFICES ASSUME CaptureInv, phase = "confirmed", ~reverted
               PROVE  /\ candidate.content = Manifest(atFence.worktree)
                      /\ candidate.topology = TrackedPaths(atFence.worktree, atFence.head)
                      /\ candidate.status = StatusRecords(atFence.worktree, atFence.head)
                      /\ candidate.head = atFence.head
    BY DEF ConfirmedIsOneState
  <2> USE DEF CaptureInv
  <2>1. HeadStayed(candidate) /\ phase \in FencedPhases /\ phase \in RecheckPhases
    BY DEF HeadStayed, EndPhases, FencedPhases, RecheckPhases
  <2>2. candidate.head = atFence.head /\ TopologyAtFence
    BY <2>1 DEF HeadInv, TopologyInv
  <2>3. /\ candidate.status = StatusRecords(atFence.worktree, atFence.head)
        /\ candidate.content = seen.content
    BY <2>1 DEF StatusInv
  <2>4. /\ atFence.worktree \in [File -> Entry] /\ atFence.head \in Head
        /\ candidate \in Collection
    BY DEF CaptureTypeOK
  <2>5. candidate.content = Manifest(atFence.worktree)
    <3>1. \A f \in Source : candidate.content[f] = atFence.worktree[f]
      BY <2>1, <2>3 DEF FenceInv
    <3>2. \A f \in File : candidate.content[f] = Manifest(atFence.worktree)[f]
      BY <3>1 DEF ShapeInv, Manifest
    <3>3. candidate.content \in [File -> Entry]
      BY <2>4 DEF Collection
    <3>4. QED
      BY <3>2, <3>3 DEF Manifest
  <2>6. candidate.topology = TrackedPaths(atFence.worktree, atFence.head)
    <3>1. \A f \in File : f \in candidate.topology <=>
                             atFence.worktree[f] # Absent /\ Tree[atFence.head][f] # Absent
      <4> SUFFICES ASSUME NEW f \in File
                   PROVE  f \in candidate.topology <=>
                             atFence.worktree[f] # Absent /\ Tree[atFence.head][f] # Absent
        OBVIOUS
      <4>1. /\ Deleted(candidate, f) => atFence.worktree[f] = Absent
            /\ Tree[atFence.head][f] # Absent /\ atFence.worktree[f] = Absent =>
                  Deleted(candidate, f)
        BY <2>3, <2>4, StatusSays DEF Deleted
      <4>2. QED
        BY <2>2, <4>1 DEF TopologyAtFence
    <3>2. candidate.topology \subseteq File
      BY <2>4 DEF Collection
    <3>3. QED
      BY <3>1, <3>2 DEF TrackedPaths, Present
  <2>7. QED
    BY <2>2, <2>3, <2>5, <2>6
<1>2. QED
  BY <1>1, CaptureInvariance, PTL

(* Its sources and HEAD were still current after the fence had read every  *)
(* file once.                                                              *)
THEOREM StillFresh == Spec => []ConfirmedIsFresh
<1>1. CaptureInv => ConfirmedIsFresh
  <2> SUFFICES ASSUME CaptureInv, phase = "confirmed", ~reverted
               PROVE  /\ candidate.content = Manifest(atRecheck.worktree)
                      /\ candidate.head = atRecheck.head
    BY DEF ConfirmedIsFresh
  <2> USE DEF CaptureInv
  <2>1. candidate.head = atRecheck.head
    BY DEF HeadInv, HeadStayed, EndPhases, RecheckPhases
  <2>2. \A f \in Source : candidate.content[f] = atRecheck.worktree[f]
    BY DEF RecheckInv, StatusInv, EndPhases
  <2>3. candidate.content \in [File -> Entry]
    BY DEF CaptureTypeOK, Collection
  <2>4. \A f \in File : candidate.content[f] = Manifest(atRecheck.worktree)[f]
    BY <2>2 DEF ShapeInv, Manifest
  <2>5. QED
    BY <2>1, <2>3, <2>4 DEF Manifest
<1>2. QED
  BY <1>1, CaptureInvariance, PTL
=============================================================================
