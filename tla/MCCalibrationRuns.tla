------------------------- MODULE MCCalibrationRuns -------------------------
(* Instances of CalibrationRuns for TLC. *)
EXTENDS CalibrationRuns, TLC

CONSTANTS c1, c2

\* The conversation and the service on one cover, with every fault ...
OneCover == [guided |-> {c1}, served |-> {c1}, prims |-> Prims,
             commands |-> 2, losses |-> 1, others |-> 1]

\* ... and on two covers of the gateway, which share its lock.
OneLock == [guided |-> {c1}, served |-> {c2}, prims |-> {"timed"},
            commands |-> 3, losses |-> 0, others |-> 0]

\* ... and on one cover, with two writes of the panel around a timed run.
TwoWrites == [guided |-> {c1}, served |-> {c1}, prims |-> {"timed"},
              commands |-> 1, losses |-> 0, others |-> 2]

TwoCovers == {c1, c2}
RunBounds == {OneCover, OneLock, TwoWrites}
===========================================================================
