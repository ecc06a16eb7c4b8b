---------------------------- MODULE Conversation ----------------------------
(***************************************************************************)
(* What the two guided calibrations of a shutter share: the stages and the *)
(* plans, the order of the tape readings, and what a conversation has      *)
(* measured.  The options dialog (DialogConversation) and the panel's      *)
(* session (PanelConversation) walk these plans with code of their own.    *)
(*                                                                         *)
(* A tape reading is named after the stage it was read at; centimetres and *)
(* seconds are left out.                                                   *)
(***************************************************************************)
EXTENDS Naturals, Sequences, SequencesExt

Directions == {"close", "open"}
OtherEnd(d) == IF d = "close" THEN "open" ELSE "close"

-----------------------------------------------------------------------------
(* The plans.  A stage is the name of a step; a pointer walks the list.    *)

PlanFull == <<"home_closed", "open_timed", "height_read", "close_timed", "tape_brief",
              "half_down", "half_up", "profile_name", "summary">>
PlanPrecise == <<"tape_brief", "quarter_down", "three_quarter_down",
                 "quarter_up", "three_quarter_up", "verify", "summary">>
PlanPreciseTravel == <<"tape_brief", "height_read">> \o Tail(PlanPrecise)
PlanProfile == <<"tape_brief", "height_read", "verify_offer", "summary">>
PlanTimes == <<"home_closed", "open_timed", "close_timed", "summary">>
PlanTimesAndRolls == <<"home_closed", "open_timed", "height_read", "close_timed",
                       "tape_brief", "half_down", "half_up", "summary">>
PlanVerifyB == <<"verify_b">>

Descents == {"half_down", "quarter_down", "three_quarter_down"}
Ascents == {"half_up", "quarter_up", "three_quarter_up"}
\* The end stop the run of a movable reading starts from.
TapeRunFrom(stage) == IF stage \in Descents THEN "open" ELSE "close"
Movable == Descents \cup Ascents
TapeStages == Movable \cup {"height_read", "verify", "verify_b"}

(* The stages of one tape phase: everything after the pointer up to the    *)
(* first stage that is no reading.                                         *)
TapePhase(plan, index) ==
    LET after == {i \in index + 1 .. Len(plan) :
                    \A j \in index + 1 .. i : plan[j] \in TapeStages}
    IN SubSeq(plan, index + 1, index + Cardinality(after))

(* Mutant of OrderTheReadings: the readings are dealt over the fixed       *)
(* stages as well, so a run may move past the check or the travel.         *)
OrderEverything(stages, at) ==
    LET here == SelectSeq(stages, LAMBDA s : s \in Movable /\ TapeRunFrom(s) = at)
    IN IF here = <<>> THEN stages
       ELSE <<here[1]>> \o SelectSeq(stages, LAMBDA s : s # here[1])

(* The first movable reading whose run starts where the shutter stands is  *)
(* read first; the others keep the plan's order, and the readings that are *)
(* not movable keep their places.                                          *)
OrderTheReadings(stages, at) ==
    LET movable == SelectSeq(stages, LAMBDA s : s \in Movable)
        here == SelectSeq(movable, LAMBDA s : TapeRunFrom(s) = at)
        ordered == IF here = <<>> THEN movable
                   ELSE <<here[1]>> \o SelectSeq(movable, LAMBDA s : s # here[1])
        rank(i) == Len(SelectSeq(SubSeq(stages, 1, i), LAMBDA s : s \in Movable))
    IN [i \in DOMAIN stages |->
          IF stages[i] \in Movable THEN ordered[rank(i)] ELSE stages[i]]

-----------------------------------------------------------------------------
(* What a conversation has measured.  "known" is a travel carried in from  *)
(* the record or the file, "tape" one read here.  opening is "superseded"  *)
(* when the lift-off run it was put together with has been thrown away.    *)

NoMeasurement ==
    [height |-> "none", opening |-> "none", closing |-> FALSE, slat |-> FALSE,
     gap |-> FALSE, descent |-> <<>>, ascent |-> <<>>, deviation |-> "none",
     precise |-> FALSE, adopted |-> FALSE]

IsMeasurement(m) ==
    /\ m.height \in {"none", "known", "tape"}
    /\ m.opening \in {"none", "timed", "superseded"}
    /\ {m.closing, m.slat, m.gap, m.precise, m.adopted} \subseteq BOOLEAN
    /\ m.descent \in Seq(Descents) /\ m.ascent \in Seq(Ascents)
    /\ m.deviation \in {"none", "near", "far"}

(* The keys of a travel model, and where a stored record's come from.      *)
Rolls == {"opening_roll", "closing_roll"}
Times == {"opening_time", "closing_time", "slat_time"}
Keys == Rolls \cup Times
=============================================================================
