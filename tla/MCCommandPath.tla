-------------------------- MODULE MCCommandPath --------------------------
(* Small instances of CommandPath: the movement and the stop of one cover, *)
(* a movement of another cover, and status requests that may coalesce.     *)
EXTENDS CommandPath, TLC

CONSTANTS up1, stop1, up2, ask1, ask2, cover1, cover2

MCKind == [c \in Commands |-> IF c \in {up1, up2} THEN "move"
                              ELSE IF c = stop1 THEN "stop" ELSE "status"]
MCDevice == [c \in Commands |-> IF c = up2 THEN cover2 ELSE cover1]

WorkerSymmetry == Permutations(Workers)
==========================================================================
