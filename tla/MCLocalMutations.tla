-------------------------- MODULE MCLocalMutations --------------------------
(* Bounded instances of LocalMutations for TLC.                            *)
EXTENDS LocalMutations, TLC

CONSTANTS a, b

(* Two processes with different operations, two requests to one server,    *)
(* and two threads of one program.                                         *)
Pairs == {(a :> "task" @@ b :> "retention"),
          (a :> "review" @@ b :> "review"),
          (a :> "thread" @@ b :> "thread")}

(* Two appends to one task from the command line.                          *)
Tasks == {(a :> "task" @@ b :> "task")}
=============================================================================
