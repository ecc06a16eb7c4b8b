------------------------- MODULE MCTwoConversations -------------------------
(* The instance TLC checks: both clients, every path.  The conversation is *)
(* finite by itself: a reading that is repeated is forgotten first.        *)
EXTENDS TwoConversations, TLC
AllPaths == {"path_a", "path_b", "path_c"}
=============================================================================
