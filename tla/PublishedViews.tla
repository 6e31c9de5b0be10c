--------------------------- MODULE PublishedViews ---------------------------
(***************************************************************************)
(* What the index store promises its readers.  A reader resolves a         *)
(* workspace to its current view and reads the generations the view names. *)
(* Writers, crashes, recovery and retention are visible only as follows:   *)
(* generations become readable, a workspace switches to another view, and  *)
(* generations that no current view names disappear.                       *)
(***************************************************************************)
EXTENDS Integers

CONSTANTS Workspace, Slot, Gen, None

VARIABLES
    current,   \* the view of each workspace, or None before the first one
    readable   \* the generations that are completely built

vars == <<current, readable>>

Init ==
    /\ current = [w \in Workspace |-> None]
    /\ readable = {}

(* A later view has the same members, and a member shows another           *)
(* generation only at a later source epoch.                                *)
Later(old, new) ==
    \A s \in Slot :
        /\ (new.gen[s] = 0) <=> (old.gen[s] = 0)
        /\ old.gen[s] # 0 =>
              \/ new.epoch[s] > old.epoch[s]
              \/ new.epoch[s] = old.epoch[s] /\ new.gen[s] = old.gen[s]

Build(g) ==
    /\ g \notin readable
    /\ readable' = readable \cup {g}
    /\ UNCHANGED current

Publish(w, view) ==
    /\ view # None
    /\ \E s \in Slot : view.gen[s] # 0
    /\ \A s \in Slot : view.gen[s] # 0 => view.gen[s] \in readable
    /\ current[w] # None => Later(current[w], view)
    /\ current' = [current EXCEPT ![w] = view]
    /\ UNCHANGED readable

Collect(garbage) ==
    /\ \A w \in Workspace, s \in Slot : current[w] # None => current[w].gen[s] \notin garbage
    /\ readable' = readable \ garbage
    /\ UNCHANGED current

Next ==
    \/ \E g \in Gen : Build(g)
    \/ \E w \in Workspace : Publish(w, current'[w])
    \/ \E garbage \in SUBSET readable : Collect(garbage)

Spec == Init /\ [][Next]_vars
=============================================================================
