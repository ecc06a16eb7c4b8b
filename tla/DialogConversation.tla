------------------------- MODULE DialogConversation -------------------------
(***************************************************************************)
(* The guided calibration as the options dialog walks it                   *)
(* (calibration_flow.py, GuidedCalibrationMixin).  Home Assistant shows    *)
(* what a step answers; a step that moves the shutter starts a task and is *)
(* entered again when the task is over.  t is one conversation, queued the *)
(* task a step has started.                                                *)
(*                                                                         *)
(* Abstracted as in PanelConversation: numbers, wording, the reason of a   *)
(* failed movement.  The ways out of the conversation (save, cancel_flow)  *)
(* are not actions of it, as in the panel.                                 *)
(***************************************************************************)
EXTENDS Conversation, FiniteSets

NoJob == [job |-> "none", dir |-> "none", done |-> "none"]

NewTalk ==
    [step |-> "path", path |-> "path_a", profile |-> FALSE, named |-> FALSE,
     plan |-> <<>>, index |-> 0, at |-> "none", stopFirst |-> FALSE,
     run |-> [dir |-> "none", reading |-> "none"], after |-> "none", tapeTarget |-> "none",
     report |-> FALSE, m |-> NoMeasurement, queued |-> NoJob]

Show(t, step) == [t EXCEPT !.step = step]

(* The progress screen of one stage: start its movement, then move on.     *)
Movement(t, step, d, job, done) ==
    [Show(t, step) EXCEPT !.queued = [job |-> job, dir |-> d, done |-> done]]

Homing(t, step, d, done) == Movement(t, step, d, "home", done)

-----------------------------------------------------------------------------
(* What each menu offers.                                                  *)

\* Every screen of a stage but the plan's own can send it back to its start.
OrAgain(a) == {a, "repeat_step"}
OrNotRight(a) == OrAgain(a) \cup {"not_right"}

PathMenu == {"path_a", "path_b", "path_c"}
RefineScope == {"times_only", "times_and_rolls", "points_only"}
HomeClosedDone == OrNotRight("confirm_closed")
PressMenus == [open_lift |-> OrNotRight("lifted_off"), open_top |-> OrNotRight("stopped_open"),
               close_bottom |-> OrNotRight("stopped_closed")]
OpenBrief == OrAgain("open_start")
LiftCheck == {"lift_too_early", "lift_accept", "lift_gap", "not_right"}
LiftEarly == OrNotRight("lift_gap")
ClosedAgain == OrNotRight("confirm_closed_again")
OpenFullBrief == OrAgain("open_full_start")
OpenResult == OrAgain("accept_step")
CloseBrief == OrAgain("close_start")
CloseResult == OrAgain("accept_step")
HeightResult == {"accept_step", "repeat_measure", "not_right"}
TapeResult == {"accept_step", "repeat_tape", "tape_not_right"}
VerifyOffer == {"verify_now", "skip_verify"}
VerifyResult(t) ==
    {"accept_step", "repeat_tape"}
      \cup (IF t.path = "path_b" /\ t.m.deviation = "far" THEN {"path_c"} ELSE {})
Problems == {"problem_failed", "problem_bad_point", "problem_timeout"}

Menus ==
    [path |-> PathMenu, path_a |-> {"begin"}, refine_scope |-> RefineScope,
     home_closed_done |-> HomeClosedDone, open_brief |-> OpenBrief,
     lift_check |-> LiftCheck, lift_early |-> LiftEarly, closed_again |-> ClosedAgain,
     open_full_brief |-> OpenFullBrief, open_result |-> OpenResult,
     close_brief |-> CloseBrief, close_result |-> CloseResult,
     height_result |-> HeightResult, tape_brief |-> {"tape_start"},
     tape_result |-> TapeResult, verify_offer |-> VerifyOffer,
     summary_basic |-> {"refine"}, summary_correction |-> {"refine"}]
      @@ PressMenus @@ [p \in Problems |-> {"repeat_step"}]

Offered(t) ==
    CASE t.step = "verify_result" -> VerifyResult(t)
      [] t.step \in DOMAIN Menus -> Menus[t.step]
      [] OTHER -> {}

Forms == {"path_b", "path_c", "lift_gap", "height", "measure_descent", "measure_ascent",
          "measure_verify", "profile_name"}

-----------------------------------------------------------------------------
(* The stages.                                                             *)

\* Mutant of ForgetTheReading: the reading that is repeated is kept.
KeepTheReading(t) == t

ForgetTheAscent(t) ==
    [t EXCEPT !.m.slat = FALSE, !.m.gap = FALSE,
              !.m.opening = IF @ = "none" THEN @ ELSE "superseded"]
ForgetTheTravel(t) == [t EXCEPT !.m.height = "none"]
ForgetTheReading(t) ==
    CASE t.tapeTarget = "descent" /\ t.m.descent # <<>> -> [t EXCEPT !.m.descent = Front(@)]
      [] t.tapeTarget = "ascent" /\ t.m.ascent # <<>> -> [t EXCEPT !.m.ascent = Front(@)]
      [] OTHER -> t

FractionStage(t, stage, d, done) ==
    Homing([t EXCEPT !.run = [dir |-> d, reading |-> stage], !.after = done],
           stage, OtherEnd(d), "tape_run")

OrderTheTapePhase(t) ==
    LET phase == TapePhase(t.plan, t.index)
        dealt == OrderTheReadings(phase, t.at)
    IN [t EXCEPT !.plan = [i \in DOMAIN @ |->
          IF i \in t.index + 1 .. t.index + Len(phase) THEN dealt[i - t.index] ELSE @[i]]]

Summary(t) ==
    CASE t.m.precise -> Show(t, "summary_precise")
      [] ~t.m.precise /\ t.path = "path_a" -> Show(t, "summary_basic")
      [] ~t.m.precise /\ t.path = "path_c" -> Show(t, "summary_correction")
      [] OTHER -> Show(t, "summary_short")

\* Mutant of OpenTimed: a repeat keeps what the attempt before it measured.
OpenTimedAgain(t) == Homing(t, "open_timed", "close", "open_brief")

\* Entering a stage for the second time goes back to the start of it.
OpenTimed(t) == Homing(ForgetTheAscent(t), "open_timed", "close", "open_brief")
HeightRead(t) ==
    Homing(IF t.stopFirst THEN ForgetTheTravel(t) ELSE t, "height_read", "open", "height")

HomeClosed(t) == Homing(t, "home_closed", "close", "home_closed_done")
CloseTimed(t) == Homing(t, "close_timed", "open", "close_brief")
TapeBrief(t) == Show(OrderTheTapePhase(t), "tape_brief")
TapeReading(t, stage) ==
    IF stage \in Descents THEN FractionStage(t, stage, "close", "measure_descent")
    ELSE FractionStage(t, stage, "open", "measure_ascent")
VerifyReading(t, stage) == FractionStage(t, stage, "close", "measure_verify")

Enter(t0) ==
    LET t == [t0 EXCEPT !.report = FALSE]
        stage == t.plan[t.index]
    IN CASE stage = "home_closed" -> HomeClosed(t)
         [] stage = "open_timed" -> OpenTimed(t)
         [] stage = "height_read" -> HeightRead(t)
         [] stage = "close_timed" -> CloseTimed(t)
         [] stage = "tape_brief" -> TapeBrief(t)
         [] stage \in {"verify_offer", "profile_name"} -> Show(t, stage)
         [] stage \in Movable -> TapeReading(t, stage)
         [] stage \in {"verify", "verify_b"} -> VerifyReading(t, stage)
         [] stage = "summary" -> Summary(t)

Advance(t) == Enter([t EXCEPT !.index = @ + 1])
StartPlan(t, plan) == Enter([t EXCEPT !.plan = plan, !.index = 1])

ThoroughPlan(t) == IF t.m.height # "none" THEN PlanPrecise ELSE PlanPreciseTravel
StartThorough(t, fromHere) ==
    LET u == [t EXCEPT !.m.precise = TRUE]
    IN IF fromHere THEN Enter([u EXCEPT !.plan = SubSeq(@, 1, u.index - 1) \o ThoroughPlan(u)])
       ELSE StartPlan(u, ThoroughPlan(u))

-----------------------------------------------------------------------------
(* The menu options.                                                       *)

Begin(t) == StartPlan([t EXCEPT !.path = "path_a", !.m = NoMeasurement], PlanFull)

AdoptTheModelInUse(t) == [t EXCEPT !.m.opening = "timed", !.m.closing = TRUE, !.m.adopted = TRUE]

TimesPlan(scope) == IF scope = "times_only" THEN PlanTimes ELSE PlanTimesAndRolls
PointsOnly(t) == StartThorough(AdoptTheModelInUse(t), FALSE)
Refine(t) == StartThorough(t, TRUE)

ConfirmClosed(t) == Advance(t)
AcceptStep(t) == Advance(t)
TapeStart(t) == Advance(t)
SkipVerify(t) == Advance(t)
VerifyNow(t) ==
    Advance([t EXCEPT !.plan = SubSeq(@, 1, t.index) \o PlanVerifyB
                                 \o SubSeq(@, t.index + 1, Len(@))])

RepeatStep(t) == Enter(t)
NotRight(t) == Enter([t EXCEPT !.stopFirst = TRUE])

OpenStart(t) == Movement(t, "open_start", "open", "start", "open_lift")
OpenFullStart(t) == Movement(t, "open_full_start", "open", "start", "open_top")
CloseStart(t) == Movement(t, "close_start", "close", "start", "close_bottom")

LiftedOff(t, verdict) ==
    IF verdict = "late" THEN Show(t, "problem_timeout")
    ELSE Movement(t, "lift_stop", "open", "stop_lift", "lift_measured")

StoppedOpen(t, verdict) ==
    CASE verdict = "late" -> Show(t, "problem_timeout")
      [] verdict = "unfit" -> Show(t, "problem_bad_point")
      [] OTHER -> Show([t EXCEPT !.m.opening = "timed", !.at = "open"], "open_result")
StoppedClosed(t, verdict) ==
    CASE verdict = "late" -> Show(t, "problem_timeout")
      [] verdict = "unfit" -> Show(t, "problem_bad_point")
      [] OTHER -> Show([t EXCEPT !.m.closing = TRUE, !.at = "close"], "close_result")

\* The press was early: the run again, as "repeat_step" makes it.
LiftTooEarly(t) == RepeatStep(t)
HomeAgain(t) == Homing(t, "open_home_again", "close", "closed_again")
LiftAccept(t) == HomeAgain(t)
ConfirmClosedAgain(t) == Show(t, "open_full_brief")

RepeatMeasure(t) == Show(ForgetTheTravel(t), "height")
RepeatTape(t) == Enter(ForgetTheReading(t))
TapeNotRight(t) == NotRight(ForgetTheReading(t))

Act(t, a, verdict) ==
    CASE a \in PathMenu \cup {"lift_gap"} -> Show(t, a)
      [] a = "begin" -> Begin(t)
      [] a \in {"times_only", "times_and_rolls"} -> StartPlan(t, TimesPlan(a))
      [] a = "points_only" -> PointsOnly(t)
      [] a = "refine" -> Refine(t)
      [] a = "verify_now" -> VerifyNow(t)
      [] a = "skip_verify" -> SkipVerify(t)
      [] a = "confirm_closed" -> ConfirmClosed(t)
      [] a = "accept_step" -> AcceptStep(t)
      [] a = "tape_start" -> TapeStart(t)
      [] a = "confirm_closed_again" -> ConfirmClosedAgain(t)
      [] a = "repeat_step" -> RepeatStep(t)
      [] a = "not_right" -> NotRight(t)
      [] a = "open_start" -> OpenStart(t)
      [] a = "open_full_start" -> OpenFullStart(t)
      [] a = "close_start" -> CloseStart(t)
      [] a = "lifted_off" -> LiftedOff(t, verdict)
      [] a = "lift_too_early" -> LiftTooEarly(t)
      [] a = "lift_accept" -> LiftAccept(t)
      [] a = "stopped_open" -> StoppedOpen(t, verdict)
      [] a = "stopped_closed" -> StoppedClosed(t, verdict)
      [] a = "repeat_measure" -> RepeatMeasure(t)
      [] a = "repeat_tape" -> RepeatTape(t)
      [] a = "tape_not_right" -> TapeNotRight(t)

-----------------------------------------------------------------------------
(* The forms.                                                              *)

SubmitPathB(t) == StartPlan([t EXCEPT !.path = "path_b", !.profile = TRUE, !.m = NoMeasurement],
                            PlanProfile)

\* The travel of this window, by its record or by the file.
OwnHeight(own) == IF own THEN "known" ELSE "none"

\* A travel measured for path B's check is kept: the same window, the same tape.
SubmitPathC(t, own) ==
    LET height == IF t.m.height # "none" THEN t.m.height ELSE OwnHeight(own)
    IN Show([t EXCEPT !.path = "path_c", !.profile = TRUE,
                      !.m = [NoMeasurement EXCEPT !.height = height]], "refine_scope")

SubmitGap(t, verdict) ==
    CASE verdict = "empty" -> HomeAgain(t)
      [] verdict = "bad" -> t
      [] verdict = "touching" -> Show(t, "lift_early")
      [] OTHER -> HomeAgain([t EXCEPT !.m.gap = TRUE])

SubmitHeight(t, verdict) ==
    IF verdict = "bad" THEN t ELSE Show([t EXCEPT !.m.height = "tape"], "height_result")

MeasureDescent(t, verdict) ==
    IF verdict = "bad" \/ ~t.report THEN t
    ELSE Show([t EXCEPT !.m.descent = Append(@, t.run.reading), !.tapeTarget = "descent"],
              "tape_result")
MeasureAscent(t, verdict) ==
    IF verdict = "bad" \/ ~t.report THEN t
    ELSE Show([t EXCEPT !.m.ascent = Append(@, t.run.reading), !.tapeTarget = "ascent"],
              "tape_result")
MeasureVerify(t, verdict) ==
    IF verdict = "bad" THEN t
    ELSE Show([t EXCEPT !.m.deviation = verdict, !.tapeTarget = "none"], "verify_result")

ProfileName(t, verdict) == IF verdict = "bad" THEN t ELSE Advance([t EXCEPT !.named = TRUE])

Submit(t, verdict, own) ==
    CASE t.step = "path_b" -> SubmitPathB(t)
      [] t.step = "path_c" -> SubmitPathC(t, own)
      [] t.step = "lift_gap" -> SubmitGap(t, verdict)
      [] t.step = "height" -> SubmitHeight(t, verdict)
      [] t.step = "measure_descent" -> MeasureDescent(t, verdict)
      [] t.step = "measure_ascent" -> MeasureAscent(t, verdict)
      [] t.step = "measure_verify" -> MeasureVerify(t, verdict)
      [] t.step = "profile_name" -> ProfileName(t, verdict)

-----------------------------------------------------------------------------
(* A task that is over, and the step Home Assistant is sent on to.         *)

LiftMeasured(t, verdict) ==
    IF verdict = "unfit" THEN Show(t, "problem_bad_point")
    ELSE Show([t EXCEPT !.m.slat = TRUE], "lift_check")

\* The run to the percentage is a screen of its own.
TapeRun(t) == Movement(t, "tape_run", t.run.dir, "fraction", t.after)

Settle(t, job) ==
    CASE job.job = "home" -> [t EXCEPT !.at = job.dir]
      [] job.job = "fraction" -> [t EXCEPT !.report = TRUE]
      [] OTHER -> t

Settled(t, job, verdict) ==
    CASE verdict = "failed" -> Show(t, "problem_failed")
      [] verdict # "failed" /\ job.done = "lift_measured" -> LiftMeasured(t, verdict)
      [] verdict # "failed" /\ job.done = "tape_run" -> TapeRun(Settle(t, job))
      [] OTHER -> Show(Settle(t, job), job.done)

-----------------------------------------------------------------------------
(* What Save writes.                                                       *)

Fitted(m) ==
    /\ m.opening # "none" /\ m.closing /\ m.height # "none"
    /\ m.descent # <<>> /\ m.ascent # <<>>

Overrides(t) ==
    IF t.path = "path_b" THEN {}
    ELSE IF ~Fitted(t.m) THEN Times
    ELSE IF t.path = "path_c" /\ t.m.adopted THEN Rolls ELSE Keys

\* Mutant of MergedHeight: a travel that was merely carried in is written too.
CarriedHeight(t, record) == t.m.height

MergedKeys(t, record) ==
    IF t.path = "path_b" THEN [new |-> {}, kept |-> {}]
    ELSE [new |-> Overrides(t), kept |-> record.keys \ Overrides(t)]
MergedHeight(t, record) ==
    CASE t.path = "path_b" \/ t.m.height = "tape" -> t.m.height
      [] OTHER -> IF record.height THEN "kept" ELSE "none"

ProfileStillWins(t, record) ==
    \/ t.path = "path_b"
    \/ t.path = "path_c" /\ (t.profile \/ record.wins)

RecordToWrite(t, record) ==
    [profile |-> IF t.named THEN "named" ELSE "chosen",
     wins |-> ProfileStillWins(t, record),
     height |-> MergedHeight(t, record),
     keys |-> MergedKeys(t, record)]
=============================================================================
