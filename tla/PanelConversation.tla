------------------------- MODULE PanelConversation --------------------------
(***************************************************************************)
(* The guided calibration as the panel's session walks it                  *)
(* (calibration_session.py): its screens, what each action and each form   *)
(* does, the plan, the movements it queues and what a movement that is     *)
(* over hands on to.  Every operator is a function from one conversation   *)
(* (a record t) to the next; who calls them, and what may happen in        *)
(* between, is in TwoConversations and in CalibrationSession.              *)
(*                                                                         *)
(* Abstracted: the numbers (an answer says whether the code accepts them), *)
(* screens that differ in wording only (lift_check_late, open_result_gap)  *)
(* and the reason of a failed movement (problem_failed).                   *)
(***************************************************************************)
EXTENDS Conversation, FiniteSets

NoJob == [job |-> "none", dir |-> "none", done |-> "none", overtaken |-> FALSE]

\* A conversation that has just been opened, on the choice of a path.
NewTalk ==
    [step |-> "path", path |-> "none", profile |-> FALSE, named |-> FALSE,
     plan |-> <<>>, index |-> 0, at |-> "none", homeAnyway |-> FALSE, stopFirst |-> FALSE,
     run |-> [dir |-> "none", reading |-> "none"], after |-> "none", tapeTarget |-> "none",
     report |-> FALSE, review |-> FALSE, check |-> FALSE, stale |-> FALSE,
     m |-> NoMeasurement, movement |-> "none", press |-> "none", queued |-> NoJob]

-----------------------------------------------------------------------------
(* The screens: the state they publish, the actions they offer, whether    *)
(* they carry a form.                                                      *)

Screen(state, actions) == [state |-> state, actions |-> actions, form |-> FALSE]
Form(state) == [state |-> state, actions |-> {}, form |-> TRUE]
Moving == Screen("positioning", {})
Problem == Screen("briefing", {"repeat_step"})

Screens ==
    [path               |-> Screen("armed", {"path_a", "path_b", "path_c"}),
     path_a             |-> Screen("armed", {"begin"}),
     path_b             |-> Form("armed"),
     path_c             |-> Form("armed"),
     refine_scope       |-> Screen("armed", {"times_only", "times_and_rolls", "points_only"}),
     home_closed        |-> Moving,
     home_closed_done   |-> Screen("briefing", {"confirm_closed", "repeat_step", "not_right"}),
     open_timed         |-> Moving,
     open_brief         |-> Screen("briefing", {"open_start", "repeat_step"}),
     open_start         |-> Screen("running", {}),
     open_lift          |-> Screen("running", {"lifted_off", "repeat_step", "not_right"}),
     lift_stop          |-> Screen("running", {}),
     lift_check         |-> Screen("briefing", {"lift_too_early", "lift_accept", "lift_gap", "not_right"}),
     lift_gap           |-> Form("awaiting_reading"),
     lift_early         |-> Screen("briefing", {"repeat_step", "lift_gap", "not_right"}),
     open_home_again    |-> Moving,
     closed_again       |-> Screen("briefing", {"confirm_closed_again", "repeat_step", "not_right"}),
     open_full_brief    |-> Screen("briefing", {"open_full_start", "repeat_step"}),
     open_full_start    |-> Screen("running", {}),
     open_top           |-> Screen("running", {"stopped_open", "repeat_step", "not_right"}),
     open_result        |-> Screen("briefing", {"accept_step", "repeat_step"}),
     height_read        |-> Moving,
     height             |-> Form("awaiting_reading"),
     height_result      |-> Screen("briefing", {"accept_step", "repeat_measure", "not_right"}),
     close_timed        |-> Moving,
     close_brief        |-> Screen("briefing", {"close_start", "repeat_step"}),
     close_start        |-> Screen("running", {}),
     close_bottom       |-> Screen("running", {"stopped_closed", "repeat_step", "not_right"}),
     close_result       |-> Screen("briefing", {"accept_step", "repeat_step"}),
     tape_brief         |-> Screen("briefing", {"tape_start"}),
     half_down          |-> Moving,
     half_up            |-> Moving,
     quarter_down       |-> Moving,
     three_quarter_down |-> Moving,
     quarter_up         |-> Moving,
     three_quarter_up   |-> Moving,
     verify             |-> Moving,
     verify_b           |-> Moving,
     tape_run           |-> Moving,
     measure_descent    |-> Form("awaiting_reading"),
     measure_ascent     |-> Form("awaiting_reading"),
     tape_result        |-> Screen("briefing", {"accept_step", "repeat_tape", "tape_not_right"}),
     measure_verify     |-> Form("awaiting_reading"),
     verify_result      |-> Screen("checking", {"accept_step", "repeat_tape"}),
     verify_offer       |-> Screen("briefing", {"verify_now", "skip_verify"}),
     profile_name       |-> Form("briefing"),
     summary_basic      |-> Screen("review", {"refine"}),
     summary_short      |-> Screen("review", {}),
     summary_correction |-> Screen("review", {"refine"}),
     summary_precise    |-> Screen("review", {}),
     problem_failed     |-> Problem,
     problem_bad_point  |-> Problem,
     problem_timeout    |-> Problem,
     problem_interrupted |-> Problem]

\* The three screens that wait for a press, and what the press is about.
PressSteps == [open_lift |-> "lift_off", open_top |-> "end_stop", close_bottom |-> "end_stop"]

(* A reading that went stale leaves one way on; a profile that is more     *)
(* than the threshold out offers the correction too.                       *)
Offered(t) ==
    IF t.stale THEN {"repeat_tape"}
    ELSE Screens[t.step].actions
           \cup (IF t.step = "verify_result" /\ t.path = "path_b" /\ t.m.deviation = "far"
                 THEN {"path_c"} ELSE {})

-----------------------------------------------------------------------------
(* Showing a screen, and queueing a movement behind one.                   *)

Show(t, step) == [t EXCEPT !.step = step, !.stale = FALSE]
ShowProblem(t, why) == [t EXCEPT !.step = why, !.stale = FALSE, !.check = FALSE]

BeginMovement(t, step, d, job, done) ==
    [Show(t, step) EXCEPT
       !.movement = d, !.press = "none",
       !.queued = [job |-> job, dir |-> d, done |-> done, overtaken |-> FALSE]]

GoOn(t, step) ==
    IF step = "tape_run" THEN BeginMovement(t, step, t.run.dir, "fraction", t.after)
    ELSE Show(t, step)

(* A homing is not made when this session has just put the shutter at that *)
(* end stop, unless the user has said that they do not believe it.         *)
BeginHoming(t, step, d, done) ==
    IF t.at = d /\ ~t.homeAnyway
      THEN GoOn([t EXCEPT !.movement = "none", !.press = "none"], done)
      ELSE BeginMovement([t EXCEPT !.homeAnyway = FALSE], step, d, "home", done)

Goto(t, step) ==
    CASE step \in DOMAIN PressSteps -> [Show(t, step) EXCEPT !.press = PressSteps[step]]
      [] step = "open_home_again" -> BeginHoming(t, step, "close", "closed_again")
      [] OTHER -> GoOn(t, step)

(* Mutant of TimedRun: the stopwatch starts wherever the shutter is.       *)
TimedRunUnhomed(t, brief, step, d, homing, done) ==
    BeginMovement(t, step, d, "start", done)

(* A stopwatch never starts from a point nobody knows: a timed run whose   *)
(* end stop is not the one the session is at goes back there first.        *)
TimedRun(t, brief, step, d, homing, done) ==
    IF t.at # OtherEnd(d) THEN BeginMovement(t, homing, OtherEnd(d), "home", brief)
    ELSE BeginMovement(t, step, d, "start", done)

-----------------------------------------------------------------------------
(* The stages.                                                             *)

ForgetTheAscent(t) ==
    [t EXCEPT !.m.slat = FALSE, !.m.gap = FALSE,
              !.m.opening = IF @ = "none" THEN @ ELSE "superseded"]

ForgetTheTravel(t) == [t EXCEPT !.m.height = "none"]

ForgetTheReading(t) ==
    CASE t.tapeTarget = "descent" /\ t.m.descent # <<>> ->
           [t EXCEPT !.m.descent = Front(@)]
      [] t.tapeTarget = "ascent" /\ t.m.ascent # <<>> ->
           [t EXCEPT !.m.ascent = Front(@)]
      [] OTHER -> t

(* Mutant of FractionStage: a stage keeps the target of the reading before *)
(* it.                                                                     *)
FractionStageKeepingTheTarget(t, stage, d, done) ==
    BeginHoming([t EXCEPT !.run = [dir |-> d, reading |-> stage], !.after = done,
                          !.check = FALSE],
                stage, OtherEnd(d), "tape_run")

FractionStage(t, stage, d, done) ==
    BeginHoming([t EXCEPT !.run = [dir |-> d, reading |-> stage], !.after = done,
                          !.tapeTarget = "none", !.check = FALSE],
                stage, OtherEnd(d), "tape_run")

(* Path B's check runs upwards from the closed end stop, to half the       *)
(* travel; a model that cannot be built has no such run.                   *)
VerifyB(t, verdict) ==
    IF verdict = "unfit" THEN ShowProblem(t, "problem_bad_point")
    ELSE FractionStage(t, "verify_b", "open", "measure_verify")

OrderTheTapePhase(t) ==
    LET phase == TapePhase(t.plan, t.index)
        dealt == OrderTheReadings(phase, t.at)
    IN [t EXCEPT !.plan = [i \in DOMAIN @ |->
          IF i \in t.index + 1 .. t.index + Len(phase) THEN dealt[i - t.index] ELSE @[i]]]

Variant(t) ==
    CASE t.m.precise -> "summary_precise"
      [] ~t.m.precise /\ t.path = "path_a" -> "summary_basic"
      [] ~t.m.precise /\ t.path = "path_c" -> "summary_correction"
      [] OTHER -> "summary_short"

\* The review is built from everything measured, or it cannot be.
Summary(t, verdict) ==
    IF verdict = "unfit" THEN ShowProblem(t, "problem_bad_point")
    ELSE [Show(t, Variant(t)) EXCEPT !.review = TRUE]

StageOf(t, verdict) ==
    LET stage == t.plan[t.index]
    IN CASE stage = "home_closed" -> BeginHoming(t, stage, "close", "home_closed_done")
         [] stage = "open_timed" ->
              BeginHoming(ForgetTheAscent(t), stage, "close", "open_brief")
         [] stage = "height_read" ->
              BeginHoming(IF t.stopFirst THEN ForgetTheTravel(t) ELSE t, stage, "open", "height")
         [] stage = "close_timed" -> BeginHoming(t, stage, "open", "close_brief")
         [] stage = "tape_brief" -> Show(OrderTheTapePhase(t), stage)
         [] stage \in {"verify_offer", "profile_name"} -> Show(t, stage)
         [] stage \in Descents -> FractionStage(t, stage, "close", "measure_descent")
         [] stage \in Ascents -> FractionStage(t, stage, "open", "measure_ascent")
         [] stage = "verify" -> FractionStage(t, stage, "close", "measure_verify")
         [] stage = "verify_b" -> VerifyB(t, verdict)
         [] stage = "summary" -> Summary(t, verdict)
         [] OTHER -> t

\* A pointer past the end of the plan raises before anything is shown.
Enter(t, verdict) ==
    LET u == [t EXCEPT !.report = FALSE, !.review = FALSE]
    IN IF u.index \in DOMAIN u.plan THEN StageOf(u, verdict) ELSE u
Advance(t, verdict) == Enter([t EXCEPT !.index = @ + 1], verdict)
StartPlan(t, plan, verdict) == Enter([t EXCEPT !.plan = plan, !.index = 1], verdict)

ThoroughPlan(t) == IF t.m.height # "none" THEN PlanPrecise ELSE PlanPreciseTravel

(* From a summary the plan replaces the tail of the one that got there;    *)
(* chosen as a scope it is the whole plan.                                 *)
StartThorough(t, fromHere, verdict) ==
    LET u == [t EXCEPT !.m.precise = TRUE]
    IN IF fromHere
         THEN Enter([u EXCEPT !.plan = SubSeq(@, 1, u.index - 1) \o ThoroughPlan(u)], verdict)
         ELSE StartPlan(u, ThoroughPlan(u), verdict)

-----------------------------------------------------------------------------
(* The actions.  own says whether this window's own travel is known to the *)
(* record or the file; a verdict says how the arithmetic or the user's     *)
(* answer turns out ("late" is a press that took longer than a minute and  *)
(* a half).                                                                *)

ChoosePath(t, a) ==
    CASE a \in {"path_a", "path_b"} -> Show([t EXCEPT !.path = a], a)
      [] a = "path_c" -> Show([t EXCEPT !.path = a, !.check = FALSE], a)
      [] OTHER -> StartPlan([t EXCEPT !.path = "path_a", !.m = NoMeasurement],
                            PlanFull, "fit")

\* The times the cover moves on today, taken for measured ones.
AdoptTheModelInUse(t) ==
    [t EXCEPT !.m.opening = "timed", !.m.closing = TRUE, !.m.adopted = TRUE]

ChooseScope(t, a) ==
    CASE a = "times_only" -> StartPlan(t, PlanTimes, "fit")
      [] a = "times_and_rolls" -> StartPlan(t, PlanTimesAndRolls, "fit")
      [] OTHER ->
           StartThorough(AdoptTheModelInUse(t), FALSE, "fit")

\* Mutant of VerifyNow: the check takes the summary's place.
VerifyInstead(t, verdict) ==
    Advance([t EXCEPT !.plan = SubSeq(@, 1, t.index) \o PlanVerifyB], verdict)

VerifyNow(t, verdict) ==
    Advance([t EXCEPT !.plan = SubSeq(@, 1, t.index) \o PlanVerifyB
                                 \o SubSeq(@, t.index + 1, Len(@))], verdict)

Repeat(t, verdict) == Enter([t EXCEPT !.homeAnyway = TRUE], verdict)
NotRight(t, verdict) == Enter([t EXCEPT !.stopFirst = TRUE, !.homeAnyway = TRUE], verdict)

StartARun(t, a) ==
    CASE a = "open_start" ->
           TimedRun(t, "open_brief", "open_start", "open", "open_timed", "open_lift")
      [] a = "open_full_start" ->
           TimedRun(t, "open_full_brief", "open_full_start", "open", "open_home_again", "open_top")
      [] OTHER ->
           TimedRun(t, "close_brief", "close_start", "close", "close_timed", "close_bottom")

LiftedOff(t, verdict) ==
    IF verdict = "late" THEN ShowProblem(t, "problem_timeout")
    ELSE BeginMovement(t, "lift_stop", "open", "stop_lift", "lift_measured")

\* The press that ends a run of a whole travel: of the ascent, of the descent.
StoppedOpen(t, verdict) ==
    CASE verdict = "late" -> ShowProblem(t, "problem_timeout")
      [] verdict = "unfit" -> ShowProblem([t EXCEPT !.press = "none"], "problem_bad_point")
      [] OTHER -> Show([t EXCEPT !.press = "none", !.movement = "none", !.at = "open",
                                 !.m.opening = "timed"], "open_result")
StoppedClosed(t, verdict) ==
    CASE verdict = "late" -> ShowProblem(t, "problem_timeout")
      [] verdict = "unfit" -> ShowProblem([t EXCEPT !.press = "none"], "problem_bad_point")
      [] OTHER -> Show([t EXCEPT !.press = "none", !.movement = "none", !.at = "close",
                                 !.m.closing = TRUE], "close_result")

Act(t, a, verdict) ==
    CASE a \in {"path_a", "path_b", "path_c", "begin"} -> ChoosePath(t, a)
      [] a \in {"times_only", "times_and_rolls", "points_only"} -> ChooseScope(t, a)
      [] a = "refine" -> StartThorough(t, TRUE, verdict)
      [] a = "verify_now" -> VerifyNow(t, verdict)
      [] a \in {"skip_verify", "confirm_closed", "accept_step", "tape_start"} ->
           Advance(t, verdict)
      [] a = "confirm_closed_again" -> Show(t, "open_full_brief")
      [] a = "repeat_step" -> Repeat(t, verdict)
      [] a = "not_right" -> NotRight(t, verdict)
      [] a \in {"open_start", "open_full_start", "close_start"} -> StartARun(t, a)
      [] a = "lifted_off" -> LiftedOff(t, verdict)
      [] a = "lift_too_early" -> Enter(t, verdict)
      [] a = "lift_accept" -> Goto(t, "open_home_again")
      [] a = "lift_gap" -> Show(t, "lift_gap")
      [] a = "stopped_open" -> StoppedOpen(t, verdict)
      [] a = "stopped_closed" -> StoppedClosed(t, verdict)
      [] a = "repeat_measure" -> Show(ForgetTheTravel(t), "height")
      [] a = "repeat_tape" -> Enter(ForgetTheReading(t), verdict)
      [] a = "tape_not_right" -> NotRight(ForgetTheReading(t), verdict)
      [] OTHER -> t

-----------------------------------------------------------------------------
(* The forms.  "bad" is an answer the field refuses.                       *)

SubmitHeight(t, verdict) ==
    IF verdict = "bad" THEN Show(t, "height")
    ELSE Show([t EXCEPT !.m.height = "tape"], "height_result")

SubmitGap(t, verdict) ==
    CASE verdict = "empty" -> Goto(t, "open_home_again")
      [] verdict = "bad" -> Show(t, "lift_gap")
      [] verdict = "touching" -> Show(t, "lift_early")
      [] OTHER -> Goto([t EXCEPT !.m.gap = TRUE], "open_home_again")

\* The reading of a check asks the model and feeds nothing.
Verified(t, verdict) ==
    IF verdict = "unfit" THEN ShowProblem(t, "problem_bad_point")
    ELSE Show([t EXCEPT !.m.deviation = verdict, !.tapeTarget = "none", !.check = TRUE],
              "verify_result")

SubmitReading(t, verdict) ==
    CASE verdict = "bad" -> Show(t, t.step)
      [] verdict # "bad" /\ t.step = "measure_verify" -> Verified(t, verdict)
      [] verdict # "bad" /\ t.step = "measure_descent" /\ t.report ->
           Show([t EXCEPT !.m.descent = Append(@, t.run.reading), !.tapeTarget = "descent"],
                "tape_result")
      [] verdict # "bad" /\ t.step = "measure_ascent" /\ t.report ->
           Show([t EXCEPT !.m.ascent = Append(@, t.run.reading), !.tapeTarget = "ascent"],
                "tape_result")
      [] OTHER -> Show(t, t.step)

SubmitName(t, verdict) ==
    IF verdict = "bad" THEN Show(t, t.step) ELSE Advance([t EXCEPT !.named = TRUE], "fit")

\* The travel of this window, by its record or by the file.
OwnHeight(own) == IF own THEN "known" ELSE "none"

\* Mutant of CorrectThisProfile: the travel read with the tape is forgotten.
CorrectFromScratch(t, own) ==
    [t EXCEPT !.profile = TRUE, !.check = FALSE, !.review = FALSE,
              !.m = [NoMeasurement EXCEPT !.height = OwnHeight(own)]]

(* A correction starts from what this window is known to be: the travel    *)
(* this conversation measured, else the window's own, never a profile's.   *)
CorrectThisProfile(t, own) ==
    LET height == IF t.m.height # "none" THEN t.m.height ELSE OwnHeight(own)
    IN [t EXCEPT !.profile = TRUE, !.m = [NoMeasurement EXCEPT !.height = height],
                 !.check = FALSE, !.review = FALSE]

SubmitProfile(t, own) ==
    IF t.path = "path_c" THEN Show(CorrectThisProfile(t, own), "refine_scope")
    ELSE StartPlan([t EXCEPT !.profile = TRUE, !.m = NoMeasurement], PlanProfile, "fit")

Submit(t, verdict, own) ==
    CASE t.step = "height" -> SubmitHeight(t, verdict)
      [] t.step = "lift_gap" -> SubmitGap(t, verdict)
      [] t.step \in {"measure_descent", "measure_ascent", "measure_verify"} ->
           SubmitReading(t, verdict)
      [] t.step = "profile_name" -> SubmitName(t, verdict)
      [] t.step \in {"path_b", "path_c"} -> SubmitProfile(t, own)
      [] OTHER -> t

-----------------------------------------------------------------------------
(* A movement that is over.                                                *)

LiftMeasured(t, verdict) ==
    IF verdict = "unfit" THEN ShowProblem(t, "problem_bad_point")
    ELSE Show([t EXCEPT !.m.slat = TRUE], "lift_check")

\* What a job that was not overtaken writes into the conversation.
Settle(t, job) ==
    CASE job.job = "home" -> [t EXCEPT !.at = job.dir]
      [] job.job = "fraction" -> [t EXCEPT !.report = TRUE]
      [] OTHER -> t

(* The movement is over unless a press is still to come: then what has     *)
(* come back is the command, not the shutter.                              *)
Settled(t, job, verdict) ==
    LET u == [t EXCEPT !.movement =
                IF job.done \in DOMAIN PressSteps /\ verdict # "failed" THEN @ ELSE "none"]
    IN CASE verdict = "failed" -> ShowProblem(u, "problem_failed")
         [] verdict # "failed" /\ job.done = "lift_measured" -> LiftMeasured(Settle(u, job), verdict)
         [] OTHER -> Goto(Settle(u, job), job.done)

-----------------------------------------------------------------------------
(* What Save writes.  A record is the profile it names, whether that       *)
(* profile wins over the file, where its travel comes from, and for each   *)
(* key whether its value is the stored one or a new one.                   *)

Fitted(m) ==
    /\ m.opening # "none" /\ m.closing /\ m.height # "none"
    /\ m.descent # <<>> /\ m.ascent # <<>>

\* The keys a measurement answers for.
Overrides(t) ==
    IF t.path = "path_b" THEN {}
    ELSE IF ~Fitted(t.m) THEN Times
    ELSE IF t.path = "path_c" /\ t.m.adopted THEN Rolls ELSE Keys

ProfileStillWins(t, record) ==
    \/ t.path = "path_b"
    \/ t.path = "path_c" /\ (t.profile \/ record.wins)

MergedKeys(t, record) ==
    IF t.path = "path_b" THEN [new |-> {}, kept |-> {}]
    ELSE [new |-> Overrides(t), kept |-> record.keys \ Overrides(t)]

MergedHeight(t, record) ==
    CASE t.path = "path_b" \/ t.m.height = "tape" -> t.m.height
      [] OTHER -> IF record.height THEN "kept" ELSE "none"

RecordToWrite(t, record, target) ==
    IF target = "profile" /\ t.path = "path_a"
      THEN [profile |-> "named", wins |-> TRUE, height |-> t.m.height,
            keys |-> [new |-> {}, kept |-> {}]]
      ELSE [profile |-> IF t.path = "path_a" THEN record.profile ELSE "chosen",
            wins |-> IF t.path = "path_a" THEN record.wins ELSE ProfileStillWins(t, record),
            height |-> MergedHeight(t, record),
            keys |-> MergedKeys(t, record)]
=============================================================================
