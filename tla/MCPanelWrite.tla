--------------------------- MODULE MCPanelWrite ---------------------------
(* Instances of PanelWrite for TLC. *)
EXTENDS PanelWrite, TLC

CONSTANTS c1, c2, c3, pa, pb

ThreeCovers == {c1, c2, c3}
FileOrder == <<c1, c2, c3>>
TwoNames == {pa, pb}
OneNumber == {1}

\* The file follows a profile of its own with one cover, and writes the other's key.
NoFileProfile == [n \in TwoNames |-> None]
FollowsInFile == [c \in ThreeCovers |-> IF c = c1 THEN None ELSE pa]
WritesInFile == {c1}
HeightInFile == [c \in ThreeCovers |-> IF c = c1 THEN None ELSE 1]

\* One profile is stored, and one cover follows it.
OneFollower ==
    [profiles |-> [n \in TwoNames |-> IF n = pa THEN 1 ELSE None],
     covers |-> [c \in ThreeCovers |->
        IF c = c1 THEN [profile |-> pa, wins |-> TRUE, height |-> 1, own |-> None] ELSE None],
     order |-> <<>>]

OneWindow == {c1}

SomeBatches ==
    {<<[cover |-> c2, profile |-> pa]>>, <<[cover |-> c1, profile |-> None]>>,
     <<[cover |-> c2, profile |-> pb], [cover |-> c1, profile |-> pb]>>}
SomeDrags == {<<c3, c1>>, <<c2, c3, c1>>}
===========================================================================
