------------------------------ MODULE MCCover ------------------------------
(* An instance of CoverMotion for TLC: a shutter that stands closed and is *)
(* known to.  The model is its own mirror image, up for down and one end   *)
(* stop for the other, so that an open one shows nothing else; half way it *)
(* stands after a stop.  The theorems hold for every start.                *)
EXTENDS CoverMotion

ClosedInit == MotionInit /\ shaft = 0 /\ cover.pos # Unknown

ClosedSpec == ClosedInit /\ [][MotionNext]_motionVars /\ MotionFairness
============================================================================
