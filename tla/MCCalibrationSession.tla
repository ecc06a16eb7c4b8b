------------------------ MODULE MCCalibrationSession ------------------------
(* The instances TLC checks: how the session may be opened.                *)
EXTENDS CalibrationSession, TLC
First == {"path_a"}
Corrections == {"corrected"}
=============================================================================
