---------------------- MODULE CalibrationSessionProofs ----------------------
(***************************************************************************)
(* What TLAPS proves of CalibrationSession, for every way of opening it    *)
(* and every number of touches: no movement is called for once it has been *)
(* given up; and, while no answer is accepted in the middle of a stop, the *)
(* session knows where the shutter stands and runs start from there, if    *)
(* the last homing had arrived when it came back.                          *)
(***************************************************************************)
EXTENDS CalibrationSession, TLAPS

(* A conversation whose queue can be read; everything else in it is free.  *)
Readable(u) == "queued" \in DOMAIN u /\ "overtaken" \in DOMAIN u.queued
\* A task whose place can be read.
Placed(k) == {"phase", "overtaken"} \subseteq DOMAIN k

\* A movement that may still be called for.
Queues(u) == u.queued # NoJob /\ ~u.queued.overtaken
Runs(k) == k.phase # "none" /\ ~k.overtaken
Owes(u, k) == Queues(u) \/ Runs(k)

SessionInv ==
    /\ Readable(t) /\ Placed(job)
    /\ Live /\ Owes(t, job) => asked

-----------------------------------------------------------------------------
(* The conversation's operators keep it readable.                          *)

\* Showing a screen.
LEMMA ShowReadable ==
    ASSUME NEW u, NEW step, Readable(u) PROVE Readable(Show(u, step))
  BY DEF Readable, Show

\* Showing a problem.
LEMMA ProblemReadable ==
    ASSUME NEW u, NEW why, Readable(u) PROVE Readable(ShowProblem(u, why))
  BY DEF Readable, ShowProblem

\* Queueing a movement.
LEMMA MovementReadable ==
    ASSUME NEW u, NEW step, NEW d, NEW j, NEW done, Readable(u)
    PROVE  Readable(BeginMovement(u, step, d, j, done))
  BY DEF Readable, BeginMovement, Show

\* Going on to a screen.
LEMMA GoOnReadable ==
    ASSUME NEW u, NEW step, Readable(u) PROVE Readable(GoOn(u, step))
  BY ShowReadable, MovementReadable DEF GoOn

\* A homing, made or left out.
LEMMA HomingReadable ==
    ASSUME NEW u, NEW step, NEW d, NEW done, Readable(u)
    PROVE  Readable(BeginHoming(u, step, d, done))
<1>1. Readable([u EXCEPT !.movement = "none", !.press = "none"])
  BY DEF Readable
<1>2. Readable([u EXCEPT !.homeAnyway = FALSE])
  BY DEF Readable
<1> QED BY <1>1, <1>2, GoOnReadable, MovementReadable DEF BeginHoming

\* Going to a screen, by a press or by a homing.
LEMMA GotoReadable ==
    ASSUME NEW u, NEW step, Readable(u) PROVE Readable(Goto(u, step))
<1>1. Readable([Show(u, step) EXCEPT !.press = PressSteps[step]])
  BY ShowReadable DEF Readable
<1> QED BY <1>1, HomingReadable, GoOnReadable DEF Goto

\* The two attempts that may be thrown away.
LEMMA ForgettingReadable ==
    ASSUME NEW u, Readable(u)
    PROVE  /\ Readable(ForgetTheAscent(u)) /\ Readable(ForgetTheTravel(u))
           /\ Readable(ForgetTheReading(u))
  BY DEF Readable, ForgetTheAscent, ForgetTheTravel, ForgetTheReading

\* A tape stage.
LEMMA FractionReadable ==
    ASSUME NEW u, NEW stage, NEW d, NEW done, Readable(u)
    PROVE  Readable(FractionStage(u, stage, d, done))
<1>1. Readable([u EXCEPT !.run = [dir |-> d, reading |-> stage], !.after = done,
                         !.tapeTarget = "none", !.check = FALSE])
  BY DEF Readable
<1> QED BY <1>1, HomingReadable DEF FractionStage

\* A stage of the plan.
LEMMA StageReadable ==
    ASSUME NEW u, NEW verdict, Readable(u) PROVE Readable(StageOf(u, verdict))
<1> DEFINE stage == u.plan[u.index]
<1>1. Readable(OrderTheTapePhase(u))
  BY DEF Readable, OrderTheTapePhase
<1>2. Readable(VerifyB(u, verdict))
  BY ProblemReadable, FractionReadable DEF VerifyB
<1>3. Readable(Summary(u, verdict))
  <2>1. Readable([Show(u, Variant(u)) EXCEPT !.review = TRUE])
    BY ShowReadable DEF Readable
  <2> QED BY <2>1, ProblemReadable DEF Summary
<1> HIDE DEF stage
<1> QED BY <1>1, <1>2, <1>3, HomingReadable, ShowReadable, ForgettingReadable, FractionReadable
           DEF StageOf, stage

\* Entering the stage the pointer is at, with any fields set before.
LEMMA EnterReadable ==
    ASSUME NEW u, NEW verdict, Readable(u) PROVE Readable(Enter(u, verdict))
<1>1. Readable([u EXCEPT !.report = FALSE, !.review = FALSE])
  BY DEF Readable
<1> QED BY <1>1, StageReadable DEF Enter

\* Advancing the pointer.
LEMMA AdvanceReadable ==
    ASSUME NEW u, NEW verdict, Readable(u) PROVE Readable(Advance(u, verdict))
<1>1. Readable([u EXCEPT !.index = @ + 1])
  BY DEF Readable
<1> QED BY <1>1, EnterReadable DEF Advance

\* Starting a plan.
LEMMA PlanReadable ==
    ASSUME NEW u, NEW plan, NEW verdict, Readable(u)
    PROVE  Readable(StartPlan(u, plan, verdict))
<1>1. Readable([u EXCEPT !.plan = plan, !.index = 1])
  BY DEF Readable
<1> QED BY <1>1, EnterReadable DEF StartPlan

\* The thorough readings, as a plan or as the tail of one.
LEMMA ThoroughReadable ==
    ASSUME NEW u, NEW fromHere, NEW verdict, Readable(u)
    PROVE  Readable(StartThorough(u, fromHere, verdict))
<1> DEFINE v == [u EXCEPT !.m.precise = TRUE]
           w == [v EXCEPT !.plan = SubSeq(@, 1, v.index - 1) \o ThoroughPlan(v)]
<1>1. Readable(v)
  BY DEF Readable
<1>2. Readable(w)
  BY <1>1 DEF Readable
<1> HIDE DEF v
<1>3. Readable(StartPlan(v, ThoroughPlan(v), verdict)) /\ Readable(Enter(w, verdict))
  BY <1>1, <1>2, PlanReadable, EnterReadable
<1> QED BY <1>3 DEF StartThorough, v

\* The choice of a path.
LEMMA PathReadable ==
    ASSUME NEW u, NEW a, Readable(u) PROVE Readable(ChoosePath(u, a))
<1>1. /\ Readable([u EXCEPT !.path = a])
      /\ Readable([u EXCEPT !.path = a, !.check = FALSE])
      /\ Readable([u EXCEPT !.path = "path_a", !.m = NoMeasurement])
  BY DEF Readable
<1> QED BY <1>1, ShowReadable, PlanReadable DEF ChoosePath

\* The choice of what to correct.
LEMMA ScopeReadable ==
    ASSUME NEW u, NEW a, Readable(u) PROVE Readable(ChooseScope(u, a))
<1>1. Readable(AdoptTheModelInUse(u))
  BY DEF Readable, AdoptTheModelInUse
<1> QED BY <1>1, PlanReadable, ThoroughReadable DEF ChooseScope

\* A stage again, with or without a stop before it, and the offered check.
LEMMA AgainReadable ==
    ASSUME NEW u, NEW verdict, Readable(u)
    PROVE  /\ Readable(Repeat(u, verdict)) /\ Readable(NotRight(u, verdict))
           /\ Readable(VerifyNow(u, verdict))
<1>1. /\ Readable([u EXCEPT !.homeAnyway = TRUE])
      /\ Readable([u EXCEPT !.stopFirst = TRUE, !.homeAnyway = TRUE])
      /\ Readable([u EXCEPT !.plan = SubSeq(@, 1, u.index) \o PlanVerifyB
                                       \o SubSeq(@, u.index + 1, Len(@))])
  BY DEF Readable
<1> QED BY <1>1, EnterReadable, AdvanceReadable DEF Repeat, NotRight, VerifyNow

\* The runs that a press starts, and the presses themselves.
LEMMA PressesReadable ==
    ASSUME NEW u, NEW a, NEW verdict, Readable(u)
    PROVE  /\ Readable(StartARun(u, a)) /\ Readable(LiftedOff(u, verdict))
           /\ Readable(StoppedOpen(u, verdict)) /\ Readable(StoppedClosed(u, verdict))
<1>1. /\ Readable([u EXCEPT !.press = "none"])
      /\ Readable([u EXCEPT !.press = "none", !.movement = "none", !.at = "open",
                            !.m.opening = "timed"])
      /\ Readable([u EXCEPT !.press = "none", !.movement = "none", !.at = "close",
                            !.m.closing = TRUE])
  BY DEF Readable
<1>2. Readable(StartARun(u, a))
  BY MovementReadable DEF StartARun, TimedRun
<1>3. Readable(LiftedOff(u, verdict))
  BY MovementReadable, ProblemReadable DEF LiftedOff
<1> QED BY <1>1, <1>2, <1>3, ShowReadable, ProblemReadable DEF StoppedOpen, StoppedClosed

\* An action.
LEMMA ActReadable ==
    ASSUME NEW u, NEW a, NEW verdict, Readable(u) PROVE Readable(Act(u, a, verdict))
<1>1. /\ Readable(Repeat(u, verdict)) /\ Readable(NotRight(u, verdict))
      /\ Readable(VerifyNow(u, verdict)) /\ Readable(NotRight(ForgetTheReading(u), verdict))
      /\ Readable(Show(ForgetTheTravel(u), "height"))
  BY AgainReadable, ForgettingReadable, ShowReadable
<1>2. Readable(Enter(ForgetTheReading(u), verdict)) /\ Readable(Enter(u, verdict))
  BY EnterReadable, ForgettingReadable
<1> QED BY <1>1, <1>2, PathReadable, ScopeReadable, ThoroughReadable, AdvanceReadable,
           ShowReadable, PressesReadable, GotoReadable DEF Act

\* A reading of the tape.
LEMMA ReadingReadable ==
    ASSUME NEW u, NEW verdict, Readable(u) PROVE Readable(SubmitReading(u, verdict))
<1>1. /\ Readable([u EXCEPT !.m.descent = Append(@, u.run.reading), !.tapeTarget = "descent"])
      /\ Readable([u EXCEPT !.m.ascent = Append(@, u.run.reading), !.tapeTarget = "ascent"])
      /\ Readable([u EXCEPT !.m.deviation = verdict, !.tapeTarget = "none", !.check = TRUE])
  BY DEF Readable
<1>2. Readable(Verified(u, verdict))
  BY <1>1, ShowReadable, ProblemReadable DEF Verified
<1> QED BY <1>1, <1>2, ShowReadable DEF SubmitReading

\* The choice of a profile.
LEMMA ProfileReadable ==
    ASSUME NEW u, NEW own, Readable(u)
    PROVE  Readable(CorrectThisProfile(u, own)) /\ Readable(SubmitProfile(u, own))
<1>1. Readable([u EXCEPT !.profile = TRUE, !.m = NoMeasurement])
  BY DEF Readable
<1>2. Readable(CorrectThisProfile(u, own))
  BY DEF Readable, CorrectThisProfile
<1> QED BY <1>1, <1>2, ShowReadable, PlanReadable DEF SubmitProfile

\* A form.
LEMMA SubmitReadable ==
    ASSUME NEW u, NEW verdict, NEW own, Readable(u) PROVE Readable(Submit(u, verdict, own))
<1>1. /\ Readable([u EXCEPT !.m.height = "tape"]) /\ Readable([u EXCEPT !.m.gap = TRUE])
      /\ Readable([u EXCEPT !.named = TRUE])
  BY DEF Readable
<1>2. Readable(SubmitHeight(u, verdict)) /\ Readable(SubmitName(u, verdict))
  BY <1>1, ShowReadable, AdvanceReadable DEF SubmitHeight, SubmitName
<1>3. Readable(SubmitGap(u, verdict))
  BY <1>1, ShowReadable, GotoReadable DEF SubmitGap
<1> QED BY <1>2, <1>3, ReadingReadable, ProfileReadable DEF Submit

\* What a movement that is over hands on to.
LEMMA SettledReadable ==
    ASSUME NEW u, NEW k, NEW verdict, Readable(u) PROVE Readable(Settled(u, k, verdict))
<1> DEFINE v == [u EXCEPT !.movement =
                   IF k.done \in DOMAIN PressSteps /\ verdict # "failed" THEN @ ELSE "none"]
<1>1. Readable(v)
  BY DEF Readable
<1> HIDE DEF v
<1>2. Readable(Settle(v, k))
  BY <1>1 DEF Readable, Settle
<1>3. Readable([Settle(v, k) EXCEPT !.m.slat = TRUE])
  BY <1>2 DEF Readable
<1>4. Readable(LiftMeasured(Settle(v, k), verdict))
  BY <1>2, <1>3, ShowReadable, ProblemReadable DEF LiftMeasured
<1>5. Readable(Goto(Settle(v, k), k.done)) /\ Readable(ShowProblem(v, "problem_failed"))
  BY <1>1, <1>2, GotoReadable, ProblemReadable
<1> QED BY <1>4, <1>5 DEF Settled, v

-----------------------------------------------------------------------------
(* What giving a movement up leaves behind.                                *)

\* A conversation whose movements are given up queues nothing.
LEMMA InterruptedQueuesNothing ==
    ASSUME NEW u, Readable(u)
    PROVE  /\ Readable(Overtaken(u)) /\ ~Queues(Overtaken(u))
           /\ Readable(Interrupted(u)) /\ ~Queues(Interrupted(u))
  BY DEF Readable, Queues, Overtaken, Interrupted, Forgotten, ShowProblem, NoJob

\* A movement of somebody else's interrupts the measurement, or takes nothing back.
LEMMA ExternalQueues ==
    ASSUME NEW u, Readable(u)
    PROVE  /\ Readable(External(u))
           /\ Queues(External(u)) => Queues(u)
           /\ Measuring(u) => ~Queues(External(u))
<1>1. CASE Measuring(u)
  BY <1>1, InterruptedQueuesNothing DEF External
<1>2. CASE ~Measuring(u)
  BY <1>2 DEF Readable, Queues, External, Forgotten
<1> QED BY <1>1, <1>2

\* A task that is given up, and one whose movement is cut off.
LEMMA GivenUpTask ==
    ASSUME NEW k, Placed(k)
    PROVE  /\ Placed(OvertakenTask(k)) /\ ~Runs(OvertakenTask(k))
           /\ Placed(Aborted(k)) /\ (Runs(Aborted(k)) => Runs(k))
           /\ OvertakenTask(k).phase = k.phase
           /\ k.phase = "none" => OvertakenTask(k) = k
           /\ k.phase # "none" => OvertakenTask(k).overtaken
           /\ Aborted(k).phase # "called"
  BY DEF Placed, Runs, OvertakenTask, Aborted

\* A stop of the shutter: what is still owed after it was owed before it.
LEMMA StoppedOwes ==
    ASSUME NEW u, NEW k, Readable(u), Placed(k)
    PROVE  LET stopped == StateStopped(u, k)
           IN /\ Readable(stopped.talk) /\ Placed(stopped.task)
              /\ Owes(stopped.talk, stopped.task) => Owes(u, k) /\ ~stopped.given
              /\ stopped.given \in BOOLEAN
              /\ stopped.given => ~Queues(stopped.talk)
              /\ stopped.task = k \/ stopped.task = OvertakenTask(k)
  BY InterruptedQueuesNothing, GivenUpTask DEF StateStopped, Owes

\* The task goes on with what is queued, and with nothing else.
LEMMA PumpOnOwes ==
    ASSUME NEW u, Readable(u)
    PROVE  /\ Readable(PumpOn(u).talk) /\ Placed(PumpOn(u).task)
           /\ ~Queues(PumpOn(u).talk)
           /\ Runs(PumpOn(u).task) => Queues(u) /\ Live
           /\ PumpOn(u).task.phase = "called" => Queues(u) /\ Live
<1>1. CASE u.queued # NoJob /\ ~u.queued.overtaken /\ Live
  <2>1. /\ PumpOn(u).talk = [Forgotten(Overtaken(u)) EXCEPT !.stopFirst = FALSE]
        /\ PumpOn(u).task = Taken(u.queued, IF u.stopFirst THEN "stopping" ELSE "called")
    BY <1>1 DEF PumpOn
  <2>2. /\ Readable([Forgotten(Overtaken(u)) EXCEPT !.stopFirst = FALSE])
        /\ ~Queues([Forgotten(Overtaken(u)) EXCEPT !.stopFirst = FALSE])
    BY DEF Readable, Queues, Forgotten, Overtaken, NoJob
  <2>3. Placed(Taken(u.queued, IF u.stopFirst THEN "stopping" ELSE "called"))
    BY DEF Placed, Taken
  <2>4. Queues(u) /\ Live
    BY <1>1 DEF Queues
  <2> QED BY <2>1, <2>2, <2>3, <2>4
<1>2. CASE ~(u.queued # NoJob /\ ~u.queued.overtaken /\ Live)
  <2>1. PumpOn(u).talk = Overtaken(u) /\ PumpOn(u).task = NoTask
    BY <1>2 DEF PumpOn
  <2>2. Placed(NoTask) /\ ~Runs(NoTask) /\ NoTask.phase = "none"
    BY DEF Placed, Runs, NoTask
  <2> QED BY <2>1, <2>2, InterruptedQueuesNothing
<1> QED BY <1>1, <1>2

\* An end leaves nothing queued.
LEMMA FinishedQueuesNothing ==
    ASSUME NEW u, NEW reason, Readable(u)
    PROVE  Readable(Finished(u, reason)) /\ ~Queues(Finished(u, reason))
<1> DEFINE gone == Forgotten([Overtaken(u) EXCEPT !.movement = "none", !.press = "none"])
<1>1. Readable(gone) /\ ~Queues(gone)
  BY DEF Readable, Queues, Forgotten, Overtaken, NoJob
<1> HIDE DEF gone
<1>2. Readable(Emptied(gone)) /\ ~Queues(Emptied(gone))
  BY <1>1 DEF Readable, Queues, Emptied
<1> QED BY <1>1, <1>2 DEF Finished, gone

\* What is given up behind a last stop is not called for.
LEMMA GivenUpQueuesNothing ==
    ASSUME NEW u, Readable(u)
    PROVE  Readable(GivenUp(u)) /\ ~Queues(GivenUp(u))
  BY DEF Readable, Queues, GivenUp

-----------------------------------------------------------------------------
(* The actions.  Each keeps the invariant and calls for what is asked.     *)

Kept == SessionInv' /\ (Calls => asked')

\* A step that leaves the conversation and its task alone.
LEMMA StillOwes ==
    ASSUME SessionInv, UNCHANGED <<t, job, outcome, asked>> PROVE Kept
  BY DEF Kept, SessionInv, Live, Owes, Queues, Runs, Readable, Placed, Calls

\* The answers.
LEMMA AnswersKept ==
    ASSUME SessionInv, AsyncAct \/ AsyncSubmit PROVE Kept
<1>1. Readable(t') /\ asked' = TRUE /\ job' = job
  BY ActReadable, SubmitReadable DEF SessionInv, AsyncAct, AsyncSubmit
<1> QED BY <1>1 DEF Kept, SessionInv

\* The task takes up a movement.
LEMMA PumpTakesKept ==
    ASSUME SessionInv, PumpTakes PROVE Kept
<1>1. Readable(t') /\ Placed(job') /\ ~Queues(t') /\ (Runs(job') => Queues(t) /\ Live)
      /\ (job'.phase = "called" => Queues(t) /\ Live)
  BY PumpOnOwes DEF PumpTakes, SessionInv
<1> QED BY <1>1 DEF Kept, SessionInv, Owes, Calls, PumpTakes, Live

\* The first stop of a movement returns.
LEMMA FirstStopKept ==
    ASSUME SessionInv, FirstStopReturns PROVE Kept
<1> PICK taken \in BOOLEAN :
      LET stopped == StateStopped(t, job)
          seen == taken /\ stopped.given
          void == Void \/ seen
          u == IF seen THEN stopped.talk ELSE t
      IN /\ motor' = IF taken THEN "still" ELSE motor
         /\ asked' = (asked /\ ~seen)
         /\ t' = IF void THEN PumpOn(u).talk ELSE u
         /\ job' = IF void THEN PumpOn(u).task ELSE [job EXCEPT !.phase = "called"]
  BY DEF FirstStopReturns
<1> DEFINE stopped == StateStopped(t, job)
           seen == taken /\ stopped.given
           u == IF seen THEN stopped.talk ELSE t
<1>1. /\ asked' = (asked /\ ~seen) /\ outcome' = outcome /\ job.phase = "stopping"
      /\ t' = IF Void \/ seen THEN PumpOn(u).talk ELSE u
      /\ job' = IF Void \/ seen THEN PumpOn(u).task ELSE [job EXCEPT !.phase = "called"]
  BY DEF FirstStopReturns
<1>2. Readable(u) /\ (Queues(u) => Queues(t) /\ ~seen)
  BY StoppedOwes DEF SessionInv, Owes
<1> HIDE DEF stopped, seen, u
<1>3. CASE Void \/ seen
  <2>1. Readable(t') /\ Placed(job') /\ ~Queues(t')
        /\ (Runs(job') \/ job'.phase = "called" => Queues(u) /\ Live)
    BY <1>1, <1>2, <1>3, PumpOnOwes
  <2> QED BY <1>1, <1>2, <2>1 DEF Kept, SessionInv, Owes, Calls, Live
<1>4. CASE ~(Void \/ seen)
  <2>1. job' = [job EXCEPT !.phase = "called"] /\ t' = t /\ (asked => asked')
    BY <1>1, <1>4 DEF u
  <2>2. asked
    BY <1>1, <1>4 DEF SessionInv, Void, Owes, Runs
  <2>3. Placed(job')
    BY <2>1 DEF SessionInv, Placed
  <2> QED BY <2>1, <2>2, <2>3 DEF Kept, SessionInv
<1> QED BY <1>3, <1>4

\* The frame of a movement is written.
LEMMA FrameKept ==
    ASSUME SessionInv, FrameWritten PROVE Kept
<1>1. outcome' = outcome /\ job.phase = "called"
  BY DEF FrameWritten
<1>2. CASE job.job = "stop_lift"
  <2>1. job' = [job EXCEPT !.phase = "moving"] /\ t' = t /\ asked' = asked
    BY <1>2 DEF FrameWritten
  <2>2. Placed(job') /\ (Runs(job') => Runs(job)) /\ job'.phase = "moving"
    BY <1>1, <2>1 DEF SessionInv, Placed, Runs
  <2> QED BY <1>1, <2>1, <2>2 DEF Kept, SessionInv, Owes, Calls, Live
<1>3. CASE job.job # "stop_lift"
  <2> DEFINE strange == Live /\ t.movement # job.dir
             gives == strange /\ Measuring(t)
             k == IF gives THEN OvertakenTask(job) ELSE job
  <2>1. /\ t' = IF strange THEN External(t) ELSE t
        /\ asked' = (asked /\ ~gives)
        /\ job' = [k EXCEPT !.phase = "moving"]
    BY <1>3 DEF FrameWritten
  <2>2. Readable(t') /\ (Queues(t') => Queues(t) /\ ~gives)
    BY <2>1, ExternalQueues DEF SessionInv
  <2>3. Placed(k) /\ (Runs(k) => Runs(job) /\ ~gives)
    BY GivenUpTask DEF SessionInv
  <2>4. k.phase = "called"
    BY <1>1 DEF OvertakenTask, SessionInv, Placed
  <2> HIDE DEF k, gives, strange
  <2>5. Placed(job') /\ (Runs(job') => Runs(k)) /\ job'.phase = "moving"
    BY <2>1, <2>3, <2>4 DEF Placed, Runs
  <2> QED BY <1>1, <2>1, <2>2, <2>3, <2>5 DEF Kept, SessionInv, Owes, Calls, Live
<1> QED BY <1>2, <1>3

\* A movement is over.
LEMMA JobKept ==
    ASSUME SessionInv, JobReturns PROVE Kept
<1> PICK verdict \in {"fit", "unfit", "failed"} :
      /\ verdict = "failed" => job.phase # "none"
      /\ verdict # "failed" => Came
      /\ LET next == PumpOn(IF Void THEN t ELSE Settled(t, job, verdict))
         IN t' = next.talk /\ job' = next.task
  BY DEF JobReturns
<1> DEFINE u == IF Void THEN t ELSE Settled(t, job, verdict)
<1>1. outcome' = outcome /\ asked' = asked /\ t' = PumpOn(u).talk /\ job' = PumpOn(u).task
  BY DEF JobReturns
<1>2. job.phase # "none"
  BY DEF Came
<1>3. Readable(u)
  BY SettledReadable DEF SessionInv
<1>4. Queues(u) /\ Live => Owes(t, job)
  BY <1>2 DEF Owes, Runs, Void
<1> HIDE DEF u
<1>5. Readable(t') /\ Placed(job') /\ ~Queues(t')
      /\ (Runs(job') \/ job'.phase = "called" => Queues(u) /\ Live)
  BY <1>1, <1>3, PumpOnOwes
<1> QED BY <1>1, <1>4, <1>5 DEF Kept, SessionInv, Owes, Calls, Live

\* The stop verb.
LEMMA StopKept ==
    ASSUME SessionInv, AsyncStop PROVE Kept
<1> DEFINE interrupting == t.movement # "none"
<1>1. /\ outcome' = outcome
      /\ t' = IF interrupting THEN Overtaken(t) ELSE t
      /\ job' = IF interrupting THEN OvertakenTask(job) ELSE job
      /\ asked' = (asked /\ ~interrupting)
  BY DEF AsyncStop
<1>2. CASE interrupting
  <2>1. Readable(t') /\ Placed(job') /\ ~Owes(t', job')
    BY <1>1, <1>2, InterruptedQueuesNothing, GivenUpTask DEF SessionInv, Owes
  <2>2. ~Calls
    BY <1>1, <1>2, GivenUpTask DEF SessionInv, Calls
  <2> QED BY <2>1, <2>2 DEF Kept, SessionInv
<1>3. CASE ~interrupting
  BY <1>1, <1>3 DEF Kept, SessionInv, Owes, Calls, Live
<1> QED BY <1>2, <1>3

\* The shutter stops, by itself or by hand.
LEMMA ShutterStopsKept ==
    ASSUME SessionInv, outcome' = outcome, t' = StateStopped(t, job).talk,
           job' = StateStopped(t, job).task, asked' = (asked /\ ~StateStopped(t, job).given)
    PROVE  Kept
<1>1. /\ Readable(t') /\ Placed(job')
      /\ Owes(t', job') => Owes(t, job) /\ ~StateStopped(t, job).given
  BY StoppedOwes DEF SessionInv
<1>2. ~Calls
  BY GivenUpTask, StoppedOwes DEF SessionInv, Calls
<1> QED BY <1>1, <1>2 DEF Kept, SessionInv, Live

\* The shutter begins to move, by the switch or by a frame that was late.
LEMMA MovingKept ==
    ASSUME SessionInv, NEW dir, StateMoving(dir), outcome' = outcome PROVE Kept
<1> DEFINE strange == Live /\ t.movement # dir
<1>1. /\ outcome' = outcome
      /\ t' = IF strange THEN External(t) ELSE t
      /\ job' = IF strange /\ Measuring(t) THEN OvertakenTask(job) ELSE job
      /\ asked' = (asked /\ ~(strange /\ Measuring(t)))
  BY DEF StateMoving
<1>2. Readable(t') /\ (Queues(t') => Queues(t) /\ ~(strange /\ Measuring(t)))
  BY <1>1, ExternalQueues DEF SessionInv
<1>3. Placed(job') /\ (Runs(job') => Runs(job) /\ ~(strange /\ Measuring(t)))
  BY <1>1, GivenUpTask DEF SessionInv
<1>4. ~Calls
  BY <1>1, GivenUpTask DEF SessionInv, Calls
<1> QED BY <1>1, <1>2, <1>3, <1>4 DEF Kept, SessionInv, Owes, Live

\* A press that never came.
LEMMA PressExpiredKept ==
    ASSUME SessionInv, AsyncPressExpired PROVE Kept
<1>1. Readable(t') /\ ~Queues(t')
  BY DEF AsyncPressExpired, SessionInv, Readable, Queues, Overtaken, ShowProblem, NoJob
<1>2. Placed(job') /\ ~Runs(job') /\ ~Calls
  BY GivenUpTask DEF AsyncPressExpired, SessionInv, Calls
<1> QED BY <1>1, <1>2 DEF Kept, SessionInv, Owes

\* An end, at once or behind a last stop.
LEMMA EndKept ==
    ASSUME SessionInv, NEW reason, AsyncEnd(reason) PROVE Kept
<1>1. Readable(t') /\ ~Queues(t')
  BY FinishedQueuesNothing, GivenUpQueuesNothing DEF AsyncEnd, Finish, SessionInv
<1>2. Placed(job') /\ ~Runs(job') /\ ~Calls
  BY GivenUpTask DEF AsyncEnd, SessionInv, Calls
<1> QED BY <1>1, <1>2 DEF Kept, SessionInv, Owes

\* The stop verb's stop is written, or refused.
LEMMA StopReturnsKept ==
    ASSUME SessionInv, AsyncStopReturns PROVE Kept
<1> PICK refused \in BOOLEAN :
      LET stopped == StateStopped(t, Aborted(job))
          u == IF refused THEN t ELSE stopped.talk
      IN /\ motor' = IF refused THEN motor ELSE "still"
         /\ job' = IF refused THEN job ELSE stopped.task
         /\ asked' = (asked /\ (refused \/ ~stopped.given))
         /\ t' = IF awaiting.stop = "plain" THEN u
                 ELSE ShowProblem(Forgotten([u EXCEPT !.movement = "none", !.press = "none"]),
                                  IF refused THEN "problem_failed" ELSE "problem_interrupted")
  BY DEF AsyncStopReturns
<1> DEFINE stopped == StateStopped(t, Aborted(job))
           u == IF refused THEN t ELSE stopped.talk
           why == IF refused THEN "problem_failed" ELSE "problem_interrupted"
           shown == ShowProblem(Forgotten([u EXCEPT !.movement = "none", !.press = "none"]), why)
<1>1. /\ outcome' = outcome
      /\ job' = IF refused THEN job ELSE stopped.task
      /\ asked' = (asked /\ (refused \/ ~stopped.given))
      /\ t' = IF awaiting.stop = "plain" THEN u ELSE shown
  BY DEF AsyncStopReturns
<1>2. /\ Readable(stopped.talk) /\ Placed(stopped.task)
      /\ Owes(stopped.talk, stopped.task) => Owes(t, Aborted(job)) /\ ~stopped.given
      /\ stopped.task = Aborted(job) \/ stopped.task = OvertakenTask(Aborted(job))
  BY GivenUpTask, StoppedOwes DEF SessionInv
<1>3. Readable(u)
  BY <1>2 DEF SessionInv
<1>4. Readable(t') /\ (Queues(t') => Queues(u))
  <2>1. Readable(shown) /\ (Queues(shown) => Queues(u))
    BY <1>3 DEF Readable, Queues, ShowProblem, Forgotten
  <2> HIDE DEF shown
  <2> QED BY <1>1, <1>3, <2>1
<1>5. stopped.task.phase # "called"
  BY <1>2, GivenUpTask DEF SessionInv
<1>6. Owes(t, Aborted(job)) => Owes(t, job)
  BY GivenUpTask DEF SessionInv, Owes
<1> HIDE DEF shown, stopped
<1>7. CASE refused
  BY <1>1, <1>4, <1>7 DEF Kept, SessionInv, Owes, Calls, Live
<1>8. CASE ~refused
  <2>1. /\ job' = stopped.task /\ (asked /\ ~stopped.given => asked')
        /\ Queues(t') => Queues(stopped.talk)
    BY <1>1, <1>4, <1>8
  <2>2. ~Calls
    BY <1>5, <2>1 DEF Calls
  <2>3. Owes(t', job') => Owes(t, job) /\ ~stopped.given
    BY <1>2, <1>6, <2>1 DEF Owes
  <2> QED BY <1>1, <1>2, <1>4, <2>1, <2>2, <2>3 DEF Kept, SessionInv, Live
<1> QED BY <1>7, <1>8

\* The last stop of an end is written, or refused.
LEMMA EndReturnsKept ==
    ASSUME SessionInv, AsyncEndReturns PROVE Kept
<1>1. PICK refused \in BOOLEAN : job' = OvertakenTask(IF refused THEN job ELSE Aborted(job))
  BY DEF AsyncEndReturns
<1> DEFINE k == IF refused THEN job ELSE Aborted(job)
<1>2. Placed(k) /\ (k.phase = "called" => k = job)
  BY GivenUpTask DEF SessionInv
<1>3. job' = OvertakenTask(k)
  BY <1>1
<1> HIDE DEF k
<1>4. Placed(job') /\ ~Runs(job') /\ ~Calls
  BY <1>2, <1>3, GivenUpTask DEF Calls
<1>5. CASE Live
  <2>1. Readable(t') /\ ~Queues(t')
    BY <1>5, FinishedQueuesNothing DEF AsyncEndReturns, Finish, SessionInv
  <2> QED BY <1>4, <2>1 DEF Kept, SessionInv, Owes
<1>6. CASE ~Live
  <2>1. t' = t /\ ~Live'
    BY <1>6 DEF AsyncEndReturns, Live
  <2> QED BY <1>4, <2>1 DEF Kept, SessionInv
<1> QED BY <1>5, <1>6

\* The record is on the disk, and the session ends.
LEMMA RecordSavedKept ==
    ASSUME SessionInv, RecordSaved PROVE Kept
<1>1. job' = job /\ asked' = asked
  BY DEF RecordSaved
<1>2. CASE Live
  <2>1. Readable(t') /\ ~Queues(t')
    BY <1>2, FinishedQueuesNothing DEF RecordSaved, Finish, SessionInv
  <2>2. Owes(t', job') => Owes(t, job)
    BY <1>1, <2>1 DEF Owes
  <2> QED BY <1>1, <1>2, <2>1, <2>2 DEF Kept, SessionInv, Calls
<1>3. CASE ~Live
  <2>1. t' = t /\ outcome' = outcome
    BY <1>3 DEF RecordSaved
  <2> QED BY <1>1, <2>1, StillOwes
<1> QED BY <1>2, <1>3

\* No step calls for what was given up.
LEMMA StepKept ==
    ASSUME SessionInv, [Next]_vars PROVE Kept
<1>1. CASE Verbs
  <2>1. CASE AsyncAct \/ AsyncSubmit
    BY <2>1, AnswersKept
  <2>2. CASE AsyncStop
    BY <2>2, StopKept
  <2>3. CASE AsyncCancel \/ Leave
    BY <2>3, EndKept DEF AsyncCancel, Leave
  <2>4. CASE AsyncSave
    BY <2>4, StillOwes DEF AsyncSave
  <2> QED BY <1>1, <2>1, <2>2, <2>3, <2>4 DEF Verbs
<1>2. CASE Pump
  BY <1>2, PumpTakesKept, FirstStopKept, FrameKept, JobKept DEF Pump
<1>3. CASE Answered
  <2>1. CASE AsyncStopReturns
    BY <2>1, StopReturnsKept
  <2>2. CASE AsyncEndReturns
    BY <2>2, EndReturnsKept
  <2>3. CASE ProfileSaved
    BY <2>3, StillOwes DEF ProfileSaved
  <2>4. CASE RecordSaved
    BY <2>4, RecordSavedKept
  <2> QED BY <1>3, <2>1, <2>2, <2>3, <2>4 DEF Answered
<1>4. CASE Timers \/ AsyncUnload
  BY <1>4, PressExpiredKept, EndKept DEF Timers, AsyncLeaseExpired, AsyncUnload
<1>5. CASE Shutter
  <2>1. CASE MotorArrives \/ SwitchStops
    BY <2>1, ShutterStopsKept DEF MotorArrives, SwitchStops
  <2>2. ASSUME NEW dir \in Directions, SwitchMoves(dir) PROVE Kept
    BY <2>2, MovingKept DEF SwitchMoves
  <2>3. CASE LateFrame
    BY <2>3, MovingKept, StillOwes DEF LateFrame
  <2> QED BY <1>5, <2>1, <2>2, <2>3 DEF Shutter
<1>6. CASE WalkAway
  BY <1>6, StillOwes DEF WalkAway
<1>7. CASE UNCHANGED vars
  BY <1>7, StillOwes DEF vars
<1> QED BY <1>1, <1>2, <1>3, <1>4, <1>5, <1>6, <1>7 DEF Next

\* A session is born with nothing queued.
LEMMA BornQuiet ==
    ASSUME Init PROVE SessionInv
<1>1. PICK way \in Openings, own \in BOOLEAN : t = Opened(way, own)
  BY DEF Init
<1>2. Readable(NewTalk) /\ ~Queues(NewTalk)
  BY DEF Readable, Queues, NewTalk, NoJob
<1>3. Readable(t) /\ ~Queues(t)
  <2>1. CASE way = "any"
    BY <1>1, <1>2, <2>1 DEF Opened
  <2>2. CASE way = "corrected"
    <3> DEFINE u == [NewTalk EXCEPT !.path = "path_c"]
               v == CorrectThisProfile(u, own)
    <3>1. Readable(u) /\ ~Queues(u)
      BY <1>2 DEF Readable, Queues
    <3> HIDE DEF u
    <3>2. Readable(v) /\ ~Queues(v)
      BY <3>1 DEF Readable, Queues, CorrectThisProfile
    <3> HIDE DEF v
    <3>3. Readable(Show(v, "refine_scope")) /\ ~Queues(Show(v, "refine_scope"))
      BY <3>2 DEF Readable, Queues, Show
    <3> QED BY <1>1, <2>2, <3>3 DEF Opened, u, v
  <2>3. CASE way \notin {"any", "corrected"}
    <3> DEFINE u == [NewTalk EXCEPT !.path = way]
    <3>1. Readable(u) /\ ~Queues(u)
      BY <1>2 DEF Readable, Queues
    <3> HIDE DEF u
    <3>2. Readable(Show(u, way)) /\ ~Queues(Show(u, way))
      BY <3>1 DEF Readable, Queues, Show
    <3> QED BY <1>1, <2>3, <3>2 DEF Opened, u
  <2> QED BY <2>1, <2>2, <2>3
<1>4. Placed(job) /\ ~Runs(job)
  BY DEF Init, NoTask, Placed, Runs
<1> QED BY <1>3, <1>4 DEF SessionInv, Owes

-----------------------------------------------------------------------------
(* What was given up is not called for.                                    *)

(* No movement is called for once the session has given it up by a stop,   *)
(* an interruption, a press that never came or an end, unless an answer    *)
(* was accepted since: the counter that async_act, async_stop and _end     *)
(* raise is looked at wherever the task goes on (_pump, _run_one).         *)
THEOREM OnlyWhatWasAskedHolds == Spec => OnlyWhatWasAsked
<1>1. Init => SessionInv
  BY BornQuiet
<1>2. SessionInv /\ [Next]_vars => SessionInv'
  BY StepKept DEF Kept
<1>3. SessionInv /\ [Next]_vars => [Calls => asked']_vars
  BY StepKept DEF Kept
<1> QED BY <1>1, <1>2, <1>3, PTL DEF Spec, OnlyWhatWasAsked
-----------------------------------------------------------------------------
(* Where the shutter stands.  A screen that carries out a movement takes   *)
(* no answer; an end stop the session believes in is left only behind one; *)
(* and a run that must start from its end stop is queued only there.       *)

SilentSteps ==
    {"home_closed", "open_timed", "open_start", "lift_stop", "open_home_again",
     "open_full_start", "height_read", "close_timed", "close_start",
     "half_down", "half_up", "quarter_down", "three_quarter_down", "quarter_up",
     "three_quarter_up", "verify", "verify_b", "tape_run"}
\* A screen that waits for the press that ends a run.
Pressing(step) == Screens[step].actions \cap {"stopped_open", "stopped_closed"} # {}

\* A conversation whose fields can be read.
TalkFields == {"step", "stale", "at", "movement", "press", "queued", "run", "after"}
Talks(u) ==
    /\ TalkFields \subseteq DOMAIN u
    /\ u.after # "tape_run"
    /\ u.stale => u.step \notin SilentSteps

\* What a homing goes on to when it is over.
Fits(q, run) ==
    /\ q.job = "home" => q.done \notin DOMAIN PressSteps
    /\ q.done = "tape_run" => q.job = "home" /\ q.dir = OtherEnd(run.dir)
Leaves(q) == q.job \in {"start", "fraction"}
Waits(end) == place = end /\ motor = "still"
AtItsStart(q) == Leaves(q) /\ ~ours /\ ~astray => Waits(OtherEnd(q.dir))

(* The end stop the session believes in; lost says that the homing behind  *)
(* the belief had not arrived, and then nothing is known of the shutter.   *)
Trusts(u, lost) ==
    u.at # "none" =>
      IF u.movement = "none" THEN lost \/ Waits(u.at)
      ELSE u.step \in SilentSteps /\ u.press = "none"
Believes(u) == Trusts(u, astray)

\* The movement that is queued, and the one the task has taken up.
QueueIsSound(u) ==
    /\ u.queued # NoJob => u.step \in SilentSteps
    /\ Queues(u) => /\ Fits(u.queued, u.run) /\ AtItsStart(u.queued)
                    /\ Leaves(u.queued) => u.at # "none"
TaskIsSound(u, k) ==
    /\ k.phase # "none" => u.at = "none" /\ ~Pressing(u.step)
    /\ Runs(k) => /\ u.step \in SilentSteps /\ u.queued = NoJob /\ Fits(k, u.run)
                  /\ {"job", "dir", "done"} \subseteq DOMAIN k
    /\ Runs(k) /\ k.phase \in {"stopping", "called"} => AtItsStart(k)
StopIsSound(u, k) ==
    awaiting.stop \notin {"none", "plain"} => u.queued = NoJob /\ ~Runs(k)

WhereInv ==
    /\ Talks(t) /\ "stop" \in DOMAIN awaiting
    /\ Live => Believes(t) /\ QueueIsSound(t) /\ TaskIsSound(t, job) /\ StopIsSound(t, job)

-----------------------------------------------------------------------------
(* What an answer may do to a conversation: show another screen, or send   *)
(* the shutter somewhere behind a silent one.                              *)

From(u) == Talks(u) /\ u.step \notin SilentSteps
Tweaked(u, v) ==
    /\ Talks(v) /\ v.at = u.at /\ v.queued = u.queued /\ v.step = u.step
    /\ v.movement \in {u.movement, "none"}
Rests(u, v) ==
    /\ v.queued = u.queued /\ v.movement \in {u.movement, "none"}
    /\ v.step \notin SilentSteps
    /\ Pressing(v.step) => Pressing(u.step)
Sends(u, v) ==
    /\ v.step \in SilentSteps /\ v.press = "none"
    /\ v.queued # NoJob /\ Fits(v.queued, v.run)
    /\ Leaves(v.queued) => u.at = OtherEnd(v.queued.dir)
Goes(u, v) == Talks(v) /\ v.at = u.at /\ (Rests(u, v) \/ Sends(u, v))

\* The screens of a movement take no answer.
LEMMA SilentScreens ==
    ASSUME NEW step \in SilentSteps
    PROVE  /\ Screens[step].state \in {"running", "positioning"}
           /\ Screens[step].actions = {} /\ ~Screens[step].form
<1> DEFINE Quiet(s) == s.state \in {"running", "positioning"} /\ s.actions = {} /\ ~s.form
<1>1. Quiet(Moving) /\ Quiet(Screen("running", {}))
  BY DEF Moving, Screen
<1>2. /\ \A s \in {"open_start", "lift_stop", "open_full_start", "close_start"} :
           Screens[s] = Screen("running", {})
      /\ \A s \in SilentSteps \ {"open_start", "lift_stop", "open_full_start", "close_start"} :
           Screens[s] = Moving
  BY DEF Screens, SilentSteps
<1>3. Quiet(Screens[step])
  BY <1>1, <1>2
<1> QED BY <1>3

(* The screens that answers and homings lead to: none is silent, and none  *)
(* waits for the press that ends a run.                                    *)
AnswerSteps ==
    {"path_a", "path_b", "path_c", "refine_scope", "home_closed_done", "open_brief",
     "open_full_brief", "closed_again", "lift_gap", "lift_early", "open_result",
     "height", "height_result", "close_brief", "close_result", "tape_brief", "tape_result",
     "verify_result", "verify_offer", "profile_name", "summary_basic", "summary_short",
     "summary_correction", "summary_precise", "problem_failed", "problem_bad_point",
     "problem_timeout", "problem_interrupted"}

LEMMA AnswerScreens ==
    ASSUME NEW step \in AnswerSteps PROVE step \notin SilentSteps /\ ~Pressing(step)
<1>1. step \notin SilentSteps
  BY DEF AnswerSteps, SilentSteps
<1>2. /\ \A state, actions : Screen(state, actions).actions = actions
      /\ \A state : Form(state).actions = {}
      /\ Problem.actions = {"repeat_step"}
  BY DEF Screen, Form, Problem
<1>3. \A s \in {"path_a", "path_b", "path_c", "refine_scope",
            "home_closed_done", "open_brief", "open_full_brief"} : ~Pressing(s)
  BY <1>2 DEF Pressing, Screens
<1>4. \A s \in {"closed_again", "lift_gap", "lift_early", "open_result",
            "height", "height_result", "close_brief"} : ~Pressing(s)
  BY <1>2 DEF Pressing, Screens
<1>5. \A s \in {"close_result", "tape_brief", "tape_result", "verify_result",
            "verify_offer", "profile_name", "summary_basic"} : ~Pressing(s)
  BY <1>2 DEF Pressing, Screens
<1>6. \A s \in {"summary_short", "summary_correction", "summary_precise", "problem_failed",
            "problem_bad_point", "problem_timeout", "problem_interrupted"} : ~Pressing(s)
  BY <1>2 DEF Pressing, Screens
<1> QED BY <1>1, <1>3, <1>4, <1>5, <1>6 DEF AnswerSteps

\* Fields set before a screen is shown.
LEMMA TweakedGoes ==
    ASSUME NEW u, NEW v, NEW w, From(u), Tweaked(u, v)
    PROVE  From(v) /\ (Goes(v, w) => Goes(u, w))
  BY DEF From, Tweaked, Goes, Rests, Sends

\* A conversation that stays where it is.
LEMMA StayGoes ==
    ASSUME NEW u, From(u) PROVE Goes(u, u) /\ Tweaked(u, u)
  BY DEF From, Goes, Rests, Tweaked

\* Showing a screen that is not silent.
LEMMA ShowGoes ==
    ASSUME NEW u, NEW step, From(u), step \notin SilentSteps, ~Pressing(step)
    PROVE  Goes(u, Show(u, step)) /\ Goes(u, ShowProblem(u, step))
  BY DEF From, Talks, TalkFields, Goes, Rests, Show, ShowProblem

\* Queueing a movement behind a silent one.
LEMMA MovementGoes ==
    ASSUME NEW u, NEW step, NEW d, NEW j, NEW done, From(u), step \in SilentSteps, j # "none",
           j = "home" => done \notin DOMAIN PressSteps,
           done = "tape_run" => j = "home" /\ d = OtherEnd(u.run.dir),
           j \in {"start", "fraction"} => u.at = OtherEnd(d)
    PROVE  Goes(u, BeginMovement(u, step, d, j, done))
<1> DEFINE v == BeginMovement(u, step, d, j, done)
           q == [job |-> j, dir |-> d, done |-> done, overtaken |-> FALSE]
<1>1. /\ v.step = step /\ v.press = "none" /\ v.queued = q /\ v.at = u.at /\ v.run = u.run
      /\ v.stale = FALSE /\ v.after = u.after /\ TalkFields \subseteq DOMAIN v
  BY DEF BeginMovement, Show, From, Talks, TalkFields
<1>2. q # NoJob
  BY DEF NoJob
<1>3. Fits(q, u.run) /\ (Leaves(q) => u.at = OtherEnd(q.dir))
  BY DEF Fits, Leaves
<1> HIDE DEF v, q
<1>4. Talks(v)
  BY <1>1 DEF From, Talks
<1>5. Sends(u, v)
  BY <1>1, <1>2, <1>3 DEF Sends
<1> QED BY <1>1, <1>4, <1>5 DEF Goes, v

\* The screens a homing goes on to.
Arrivals == {"home_closed_done", "open_brief", "height", "close_brief", "tape_run", "closed_again"}

\* A homing, made or left out.
LEMMA HomingGoes ==
    ASSUME NEW u, NEW step, NEW d, NEW done, From(u), step \in SilentSteps,
           done \in Arrivals, done = "tape_run" => d = OtherEnd(u.run.dir), u.after # "tape_run"
    PROVE  Goes(u, BeginHoming(u, step, d, done))
<1> DEFINE v == [u EXCEPT !.movement = "none", !.press = "none"]
           w == [u EXCEPT !.homeAnyway = FALSE]
<1>1. Tweaked(u, v) /\ v.run = u.run /\ v.after = u.after
  BY DEF Tweaked, From, Talks, TalkFields
<1>2. Tweaked(u, w) /\ w.run = u.run
  BY DEF Tweaked, From, Talks, TalkFields
<1>3. done \notin DOMAIN PressSteps
      /\ (done # "tape_run" => done \notin SilentSteps /\ ~Pressing(done))
  BY AnswerScreens DEF Arrivals, PressSteps, AnswerSteps
<1>4. "tape_run" \in SilentSteps
  BY DEF SilentSteps
<1> HIDE DEF v, w
<1>5. From(v) /\ From(w)
  BY <1>1, <1>2, TweakedGoes
<1>6. Goes(u, BeginMovement(w, step, d, "home", done))
  <2>1. Goes(w, BeginMovement(w, step, d, "home", done))
    BY <1>2, <1>3, <1>5, MovementGoes
  <2> QED BY <1>2, <2>1, TweakedGoes
<1>7. ASSUME u.at = d PROVE Goes(u, GoOn(v, done))
  <2>1. CASE done = "tape_run"
    <3>1. v.at = OtherEnd(v.run.dir) /\ v.after # "tape_run"
      BY <1>1, <1>7, <2>1 DEF Tweaked
    <3>2. Goes(v, BeginMovement(v, done, v.run.dir, "fraction", v.after))
      BY <1>4, <1>5, <2>1, <3>1, MovementGoes
    <3> QED BY <1>1, <2>1, <3>2, TweakedGoes DEF GoOn
  <2>2. CASE done # "tape_run"
    BY <1>1, <1>3, <1>5, <2>2, ShowGoes, TweakedGoes DEF GoOn
  <2> QED BY <2>1, <2>2
<1> QED BY <1>6, <1>7 DEF BeginHoming, v, w

\* A tape stage.
LEMMA FractionGoes ==
    ASSUME NEW u, NEW stage, NEW d, NEW done, From(u), stage \in SilentSteps, done # "tape_run"
    PROVE  Goes(u, FractionStage(u, stage, d, done))
<1> DEFINE v == [u EXCEPT !.run = [dir |-> d, reading |-> stage], !.after = done,
                         !.tapeTarget = "none", !.check = FALSE]
<1>1. Tweaked(u, v) /\ v.run.dir = d /\ v.after = done
  BY DEF Tweaked, From, Talks, TalkFields
<1> HIDE DEF v
<1>2. Goes(v, BeginHoming(v, stage, OtherEnd(d), "tape_run"))
  <2>1. "tape_run" \in Arrivals
    BY DEF Arrivals
  <2> QED BY <1>1, <2>1, HomingGoes, TweakedGoes
<1> QED BY <1>1, <1>2, TweakedGoes DEF FractionStage, v

\* The attempts that may be thrown away.
LEMMA ForgettingTweaks ==
    ASSUME NEW u, From(u)
    PROVE  /\ Tweaked(u, ForgetTheAscent(u)) /\ Tweaked(u, ForgetTheTravel(u))
           /\ Tweaked(u, ForgetTheReading(u))
  BY DEF Tweaked, From, Talks, TalkFields, ForgetTheAscent, ForgetTheTravel, ForgetTheReading

\* A stage of the plan.
LEMMA StageGoes ==
    ASSUME NEW u, NEW verdict, From(u) PROVE Goes(u, StageOf(u, verdict))
<1> DEFINE stage == u.plan[u.index]
<1>1. u.after # "tape_run"
  BY DEF From, Talks
<1>2. {"home_closed_done", "open_brief", "height", "close_brief"} \subseteq Arrivals \ {"tape_run"}
  BY DEF Arrivals
<1>3. {"home_closed", "open_timed", "height_read", "close_timed", "verify", "verify_b"}
        \cup Descents \cup Ascents \subseteq SilentSteps
  BY DEF SilentSteps, Descents, Ascents
<1>4. \A s \in {"tape_brief", "verify_offer", "profile_name", "problem_bad_point",
                "summary_precise", "summary_basic", "summary_correction", "summary_short"} :
        s \notin SilentSteps /\ ~Pressing(s)
  BY AnswerScreens DEF AnswerSteps
<1>5. Goes(u, Show(OrderTheTapePhase(u), "tape_brief"))
  <2>1. Tweaked(u, OrderTheTapePhase(u))
    BY DEF Tweaked, From, Talks, TalkFields, OrderTheTapePhase
  <2> QED BY <1>4, <2>1, ShowGoes, TweakedGoes
<1>6. Goes(u, VerifyB(u, verdict))
  BY <1>3, <1>4, ShowGoes, FractionGoes DEF VerifyB
<1>7. Goes(u, Summary(u, verdict))
  <2> DEFINE shown == Show(u, Variant(u))
  <2>1. Goes(u, shown) /\ shown.step = Variant(u)
    <3>1. Variant(u) \notin SilentSteps /\ ~Pressing(Variant(u))
      BY <1>4 DEF Variant
    <3>2. shown.step = Variant(u)
      BY DEF Show, From, Talks, TalkFields
    <3> QED BY <3>1, <3>2, ShowGoes
  <2> HIDE DEF shown
  <2>2. Goes(u, [shown EXCEPT !.review = TRUE])
    BY <2>1 DEF Goes, Rests, Sends, Talks, TalkFields
  <2>3. Goes(u, ShowProblem(u, "problem_bad_point"))
    BY <1>4, ShowGoes
  <2> QED BY <2>2, <2>3 DEF Summary, shown
<1>8. ASSUME NEW s \in SilentSteps, NEW d, NEW done \in Arrivals \ {"tape_run"}
      PROVE  Goes(u, BeginHoming(u, s, d, done))
  BY <1>1, HomingGoes
<1>9. /\ Goes(u, BeginHoming(ForgetTheAscent(u), "open_timed", "close", "open_brief"))
      /\ Goes(u, BeginHoming(ForgetTheTravel(u), "height_read", "open", "height"))
  <2>1. ASSUME NEW v, Tweaked(u, v), NEW s \in SilentSteps, NEW d, NEW done \in Arrivals \ {"tape_run"}
        PROVE  Goes(u, BeginHoming(v, s, d, done))
    <3>1. From(v) /\ v.after # "tape_run"
      BY <2>1, TweakedGoes DEF From, Talks
    <3> QED BY <2>1, <3>1, HomingGoes, TweakedGoes
  <2> QED BY <1>2, <1>3, <2>1, ForgettingTweaks
<1>10. ASSUME NEW s \in SilentSteps, NEW d, NEW done, done # "tape_run"
       PROVE  Goes(u, FractionStage(u, s, d, done))
  BY <1>10, FractionGoes
<1> HIDE DEF stage
<1>11. CASE stage = "home_closed"
  <2>1. StageOf(u, verdict) = BeginHoming(u, "home_closed", "close", "home_closed_done")
    BY <1>11 DEF StageOf, stage, Descents, Ascents
  <2> QED BY <1>2, <1>3, <1>8, <2>1
<1>12. CASE stage = "open_timed"
  BY <1>9, <1>12 DEF StageOf, stage, Descents, Ascents
<1>13. CASE stage = "height_read"
  <2>1. Goes(u, BeginHoming(u, "height_read", "open", "height"))
    BY <1>2, <1>3, <1>8
  <2> QED BY <1>9, <1>13, <2>1 DEF StageOf, stage, Descents, Ascents
<1>14. CASE stage = "close_timed"
  <2>1. StageOf(u, verdict) = BeginHoming(u, "close_timed", "open", "close_brief")
    BY <1>14 DEF StageOf, stage, Descents, Ascents
  <2> QED BY <1>2, <1>3, <1>8, <2>1
<1>15. CASE stage \in {"tape_brief", "verify_offer", "profile_name"}
  <2>1. Goes(u, Show(u, "verify_offer")) /\ Goes(u, Show(u, "profile_name"))
    BY <1>4, ShowGoes
  <2> QED BY <1>5, <1>15, <2>1 DEF StageOf, stage, Descents, Ascents
<1>16. /\ stage \in Descents => Goes(u, StageOf(u, verdict))
       /\ stage \in Ascents => Goes(u, StageOf(u, verdict))
       /\ stage \in {"verify", "verify_b", "summary"} => Goes(u, StageOf(u, verdict))
  BY <1>3, <1>6, <1>7, <1>10 DEF StageOf, stage, Descents, Ascents
<1>17. stage \notin {"home_closed", "open_timed", "height_read", "close_timed", "tape_brief",
                     "verify_offer", "profile_name", "verify", "verify_b", "summary"}
                    \cup Descents \cup Ascents => Goes(u, StageOf(u, verdict))
  BY StayGoes DEF StageOf, stage, Descents, Ascents
<1> QED BY <1>11, <1>12, <1>13, <1>14, <1>15, <1>16, <1>17

\* Entering the stage the pointer is at.
LEMMA EnterGoes ==
    ASSUME NEW u, NEW verdict, From(u) PROVE Goes(u, Enter(u, verdict))
<1> DEFINE v == [u EXCEPT !.report = FALSE, !.review = FALSE]
<1>1. Tweaked(u, v)
  BY DEF Tweaked, From, Talks, TalkFields
<1> HIDE DEF v
<1>2. Goes(u, v) /\ Goes(u, StageOf(v, verdict))
  BY <1>1, TweakedGoes, StayGoes, StageGoes
<1> QED BY <1>2 DEF Enter, v

\* Entering it with fields set before, advancing to it, starting a plan.
LEMMA TweakedEnters ==
    ASSUME NEW u, NEW v, NEW verdict, From(u), Tweaked(u, v) PROVE Goes(u, Enter(v, verdict))
  BY TweakedGoes, EnterGoes

LEMMA PlanGoes ==
    ASSUME NEW u, NEW v, NEW plan, NEW verdict, From(u), Tweaked(u, v)
    PROVE  Goes(u, Advance(v, verdict)) /\ Goes(u, StartPlan(v, plan, verdict))
<1>1. /\ Tweaked(v, [v EXCEPT !.index = @ + 1])
      /\ Tweaked(v, [v EXCEPT !.plan = plan, !.index = 1])
  BY DEF Tweaked, From, Talks, TalkFields
<1> QED BY <1>1, TweakedGoes, TweakedEnters DEF Advance, StartPlan

\* The thorough readings, as a plan or as the tail of one.
LEMMA ThoroughGoes ==
    ASSUME NEW u, NEW v, NEW fromHere, NEW verdict, From(u), Tweaked(u, v)
    PROVE  Goes(u, StartThorough(v, fromHere, verdict))
<1> DEFINE w == [v EXCEPT !.m.precise = TRUE]
           x == [w EXCEPT !.plan = SubSeq(@, 1, w.index - 1) \o ThoroughPlan(w)]
<1>1. Tweaked(u, w)
  BY DEF Tweaked, From, Talks, TalkFields
<1>2. Tweaked(u, x)
  BY <1>1 DEF Tweaked, From, Talks, TalkFields
<1> HIDE DEF w
<1>3. Goes(u, StartPlan(w, ThoroughPlan(w), verdict)) /\ Goes(u, Enter(x, verdict))
  BY <1>1, <1>2, PlanGoes, TweakedEnters
<1> QED BY <1>3 DEF StartThorough, w

\* A screen shown with fields set before.
LEMMA TweakedShows ==
    ASSUME NEW u, NEW v, NEW step, From(u), Tweaked(u, v),
           step \notin SilentSteps, ~Pressing(step)
    PROVE  Goes(u, Show(v, step)) /\ Goes(u, ShowProblem(v, step))
  BY TweakedGoes, ShowGoes

\* The screen that is shown, shown again.
LEMMA SameShown ==
    ASSUME NEW u, From(u) PROVE Goes(u, Show(u, u.step))
  BY DEF From, Talks, TalkFields, Goes, Rests, Show

\* The second homing of the ascent.
LEMMA AgainGoes ==
    ASSUME NEW u, From(u) PROVE Goes(u, Goto(u, "open_home_again"))
<1>1. /\ "open_home_again" \in SilentSteps /\ "open_home_again" \notin DOMAIN PressSteps
      /\ "closed_again" \in Arrivals /\ u.after # "tape_run"
  BY DEF SilentSteps, PressSteps, Arrivals, From, Talks
<1>2. Goes(u, BeginHoming(u, "open_home_again", "close", "closed_again"))
  BY <1>1, HomingGoes
<1> QED BY <1>1, <1>2 DEF Goto

\* The choices of a path and of what to correct.
LEMMA ChoiceGoes ==
    ASSUME NEW u, NEW a, From(u),
           a \in {"path_a", "path_b", "path_c", "begin", "times_only", "times_and_rolls", "points_only"}
    PROVE  /\ a \in {"path_a", "path_b", "path_c", "begin"} => Goes(u, ChoosePath(u, a))
           /\ Goes(u, ChooseScope(u, a))
<1>1. /\ Tweaked(u, [u EXCEPT !.path = a])
      /\ Tweaked(u, [u EXCEPT !.path = a, !.check = FALSE])
      /\ Tweaked(u, [u EXCEPT !.path = "path_a", !.m = NoMeasurement])
      /\ Tweaked(u, AdoptTheModelInUse(u)) /\ Tweaked(u, u)
  BY DEF Tweaked, From, Talks, TalkFields, AdoptTheModelInUse
<1>2. a \in {"path_a", "path_b", "path_c", "begin"} => Goes(u, ChoosePath(u, a))
  BY <1>1, AnswerScreens, TweakedShows, PlanGoes DEF AnswerSteps, ChoosePath
<1>3. Goes(u, ChooseScope(u, a))
  BY <1>1, PlanGoes, ThoroughGoes DEF ChooseScope
<1> QED BY <1>2, <1>3

\* A stage again, with or without a stop before it, and the offered check.
LEMMA RepeatGoes ==
    ASSUME NEW u, NEW v, NEW verdict, From(u), Tweaked(u, v)
    PROVE  /\ Goes(u, Repeat(v, verdict)) /\ Goes(u, NotRight(v, verdict))
           /\ Goes(u, VerifyNow(v, verdict))
<1>1. /\ Tweaked(u, [v EXCEPT !.homeAnyway = TRUE])
      /\ Tweaked(u, [v EXCEPT !.stopFirst = TRUE, !.homeAnyway = TRUE])
      /\ Tweaked(u, [v EXCEPT !.plan = SubSeq(@, 1, v.index) \o PlanVerifyB
                                         \o SubSeq(@, v.index + 1, Len(@))])
  BY DEF Tweaked, From, Talks, TalkFields
<1> QED BY <1>1, TweakedEnters, PlanGoes DEF Repeat, NotRight, VerifyNow

\* The presses that start a run: from its end stop, or by a homing first.
LEMMA TimedRunGoes ==
    ASSUME NEW u, NEW brief, NEW step, NEW d, NEW homing, NEW done, From(u),
           step \in SilentSteps, homing \in SilentSteps,
           brief \notin DOMAIN PressSteps, brief # "tape_run", done # "tape_run"
    PROVE  Goes(u, TimedRun(u, brief, step, d, homing, done))
<1>1. Goes(u, BeginMovement(u, homing, OtherEnd(d), "home", brief))
  BY MovementGoes
<1>2. u.at = OtherEnd(d) => Goes(u, BeginMovement(u, step, d, "start", done))
  BY MovementGoes
<1> QED BY <1>1, <1>2 DEF TimedRun

LEMMA RunGoes ==
    ASSUME NEW u, NEW a, From(u) PROVE Goes(u, StartARun(u, a))
<1>1. /\ {"open_start", "open_full_start", "close_start", "open_timed", "open_home_again",
          "close_timed"} \subseteq SilentSteps
      /\ {"open_brief", "open_full_brief", "close_brief"} \cap DOMAIN PressSteps = {}
  BY DEF SilentSteps, PressSteps
<1>2. /\ Goes(u, TimedRun(u, "open_brief", "open_start", "open", "open_timed", "open_lift"))
      /\ Goes(u, TimedRun(u, "open_full_brief", "open_full_start", "open", "open_home_again",
                          "open_top"))
      /\ Goes(u, TimedRun(u, "close_brief", "close_start", "close", "close_timed", "close_bottom"))
  BY <1>1, TimedRunGoes
<1> QED BY <1>2 DEF StartARun

\* The lift-off, in time or too late.
LEMMA LiftedGoes ==
    ASSUME NEW u, NEW verdict, From(u) PROVE Goes(u, LiftedOff(u, verdict))
<1>1. Goes(u, BeginMovement(u, "lift_stop", "open", "stop_lift", "lift_measured"))
  <2>1. "lift_stop" \in SilentSteps
    BY DEF SilentSteps
  <2> QED BY <2>1, MovementGoes
<1> QED BY <1>1, AnswerScreens, ShowGoes DEF AnswerSteps, LiftedOff

(* The press that ends a run: as an answer that changes nothing, or the    *)
(* shutter is at the end stop the press is about.                          *)
Ends(u, v, end) ==
    /\ Talks(v) /\ v.at = end /\ v.movement = "none" /\ v.queued = u.queued
    /\ v.step \notin SilentSteps /\ ~Pressing(v.step)

LEMMA StoppedGoes ==
    ASSUME NEW u, NEW verdict, From(u)
    PROVE  /\ Goes(u, StoppedOpen(u, verdict)) \/ Ends(u, StoppedOpen(u, verdict), "open")
           /\ Goes(u, StoppedClosed(u, verdict)) \/ Ends(u, StoppedClosed(u, verdict), "close")
<1> DEFINE v == [u EXCEPT !.press = "none", !.movement = "none", !.at = "open",
                         !.m.opening = "timed"]
           w == [u EXCEPT !.press = "none", !.movement = "none", !.at = "close", !.m.closing = TRUE]
<1>1. Ends(u, Show(v, "open_result"), "open") /\ Ends(u, Show(w, "close_result"), "close")
  BY AnswerScreens DEF AnswerSteps, Ends, Show, From, Talks, TalkFields
<1>2. Tweaked(u, [u EXCEPT !.press = "none"])
  BY DEF Tweaked, From, Talks, TalkFields
<1>3. /\ Goes(u, ShowProblem(u, "problem_timeout"))
      /\ Goes(u, ShowProblem([u EXCEPT !.press = "none"], "problem_bad_point"))
  BY <1>2, AnswerScreens, ShowGoes, TweakedShows DEF AnswerSteps
<1> HIDE DEF v, w
<1> QED BY <1>1, <1>3 DEF StoppedOpen, StoppedClosed, v, w

\* An action.
LEMMA ActGoes ==
    ASSUME NEW u, NEW a, NEW verdict, From(u)
    PROVE  \/ Goes(u, Act(u, a, verdict))
           \/ a = "stopped_open" /\ Ends(u, Act(u, a, verdict), "open")
           \/ a = "stopped_closed" /\ Ends(u, Act(u, a, verdict), "close")
<1>1. Tweaked(u, u) /\ Goes(u, u) /\ Tweaked(u, ForgetTheReading(u)) /\ Tweaked(u, ForgetTheTravel(u))
  BY StayGoes, ForgettingTweaks
<1>2. CASE a \in {"path_a", "path_b", "path_c", "begin", "times_only", "times_and_rolls",
                  "points_only"}
  BY <1>2, ChoiceGoes DEF Act
<1>3. CASE a \in {"refine", "verify_now", "skip_verify", "confirm_closed", "accept_step",
                  "tape_start", "repeat_step", "not_right", "lift_too_early"}
  BY <1>1, <1>3, ThoroughGoes, RepeatGoes, PlanGoes, EnterGoes DEF Act
<1>4. CASE a \in {"confirm_closed_again", "lift_accept", "lift_gap", "repeat_measure"}
  BY <1>1, <1>4, AnswerScreens, ShowGoes, TweakedShows, AgainGoes DEF AnswerSteps, Act
<1>5. CASE a \in {"open_start", "open_full_start", "close_start", "lifted_off"}
  BY <1>5, RunGoes, LiftedGoes DEF Act
<1>6. CASE a \in {"stopped_open", "stopped_closed"}
  BY <1>6, StoppedGoes DEF Act
<1>7. CASE a \in {"repeat_tape", "tape_not_right"}
  BY <1>1, <1>7, TweakedEnters, RepeatGoes DEF Act
<1>8. CASE a \notin {"path_a", "path_b", "path_c", "begin", "times_only", "times_and_rolls",
                     "points_only", "refine", "verify_now", "skip_verify", "confirm_closed",
                     "accept_step", "tape_start", "repeat_step", "not_right", "lift_too_early",
                     "confirm_closed_again", "lift_accept", "lift_gap", "repeat_measure",
                     "open_start", "open_full_start", "close_start", "lifted_off",
                     "stopped_open", "stopped_closed", "repeat_tape", "tape_not_right"}
  BY <1>1, <1>8 DEF Act
<1> QED BY <1>2, <1>3, <1>4, <1>5, <1>6, <1>7, <1>8

\* A form.
LEMMA SubmitGoes ==
    ASSUME NEW u, NEW verdict, NEW own, From(u) PROVE Goes(u, Submit(u, verdict, own))
<1>1. /\ Tweaked(u, [u EXCEPT !.m.height = "tape"]) /\ Tweaked(u, [u EXCEPT !.m.gap = TRUE])
      /\ Tweaked(u, [u EXCEPT !.named = TRUE])
      /\ Tweaked(u, [u EXCEPT !.m.descent = Append(@, u.run.reading), !.tapeTarget = "descent"])
      /\ Tweaked(u, [u EXCEPT !.m.ascent = Append(@, u.run.reading), !.tapeTarget = "ascent"])
      /\ Tweaked(u, [u EXCEPT !.m.deviation = verdict, !.tapeTarget = "none", !.check = TRUE])
      /\ Tweaked(u, [u EXCEPT !.profile = TRUE, !.m = NoMeasurement])
      /\ Tweaked(u, CorrectThisProfile(u, own))
  BY DEF Tweaked, From, Talks, TalkFields, CorrectThisProfile
<1>2. Goes(u, SubmitHeight(u, verdict))
  BY <1>1, AnswerScreens, ShowGoes, TweakedShows DEF AnswerSteps, SubmitHeight
<1>3. Goes(u, SubmitGap(u, verdict))
  <2>1. Goes(u, Goto([u EXCEPT !.m.gap = TRUE], "open_home_again"))
    BY <1>1, AgainGoes, TweakedGoes
  <2> QED BY <2>1, AgainGoes, AnswerScreens, ShowGoes DEF AnswerSteps, SubmitGap
<1>4. Goes(u, SubmitReading(u, verdict))
  <2>1. Goes(u, Verified(u, verdict))
    BY <1>1, AnswerScreens, ShowGoes, TweakedShows DEF AnswerSteps, Verified
  <2> QED BY <1>1, <2>1, AnswerScreens, SameShown, TweakedShows DEF AnswerSteps, SubmitReading
<1>5. Goes(u, SubmitName(u, verdict))
  BY <1>1, SameShown, PlanGoes DEF SubmitName
<1>6. Goes(u, SubmitProfile(u, own))
  BY <1>1, AnswerScreens, TweakedShows, PlanGoes DEF AnswerSteps, SubmitProfile
<1>7. Goes(u, u)
  BY StayGoes
<1> QED BY <1>2, <1>3, <1>4, <1>5, <1>6, <1>7 DEF Submit

-----------------------------------------------------------------------------
(* What giving up, stopping and going on do to it.                         *)

\* The silent screens are none of those that wait for the end of a run.
LEMMA SilentIsNoPress ==
    ASSUME NEW step \in SilentSteps PROVE ~Pressing(step)
  BY SilentScreens DEF Pressing

\* An interrupted conversation believes in nothing and queues nothing.
LEMMA InterruptedStands ==
    ASSUME NEW u, Talks(u)
    PROVE  /\ Talks(Interrupted(u)) /\ Interrupted(u).at = "none"
           /\ Interrupted(u).queued = NoJob /\ Interrupted(u).step = "problem_interrupted"
  BY AnswerScreens DEF AnswerSteps, Talks, TalkFields, Interrupted, Overtaken, Forgotten, ShowProblem

\* A movement of somebody else's: it is forgotten where the shutter stands.
LEMMA ExternalStands ==
    ASSUME NEW u, Talks(u)
    PROVE  /\ Talks(External(u)) /\ External(u).at = "none"
           /\ u.step \in SilentSteps => Measuring(u)
           /\ Measuring(u) => External(u).queued = NoJob /\ External(u).step = "problem_interrupted"
           /\ ~Measuring(u) => External(u).queued = u.queued /\ External(u).step = u.step
<1>1. u.step \in SilentSteps => Measuring(u)
  BY SilentScreens DEF Measuring
<1>2. CASE Measuring(u)
  BY <1>1, <1>2, InterruptedStands DEF External
<1>3. CASE ~Measuring(u)
  <2>1. /\ Talks(Forgotten(u)) /\ Forgotten(u).at = "none"
        /\ Forgotten(u).queued = u.queued /\ Forgotten(u).step = u.step
    BY DEF Talks, TalkFields, Forgotten
  <2> DEFINE v == [Forgotten(u) EXCEPT !.stale = TRUE]
  <2>2. /\ Talks(v) /\ v.at = "none" /\ v.queued = u.queued /\ v.step = u.step
    BY <1>1, <1>3, <2>1 DEF Talks, TalkFields
  <2> HIDE DEF v
  <2>3. External(u) = v \/ External(u) = Forgotten(u)
    BY <1>3 DEF External, v
  <2> QED BY <1>1, <1>3, <2>1, <2>2, <2>3
<1> QED BY <1>2, <1>3

\* Going on with what is queued, or with nothing.
LEMMA PumpKeeps ==
    ASSUME NEW v, Talks(v), "stop" \in DOMAIN awaiting,
           t' = PumpOn(v).talk, job' = PumpOn(v).task, UNCHANGED <<outcome, awaiting, place>>,
           motor' \in {motor, "still"},
           Live => Trusts(v, astray') /\ (v.queued # NoJob => v.step \in SilentSteps),
           Live /\ Queues(v) =>
             /\ Fits(v.queued, v.run) /\ awaiting.stop \in {"none", "plain"}
             /\ Leaves(v.queued) /\ ~ours' /\ ~astray' => Waits(OtherEnd(v.queued.dir))
    PROVE  WhereInv'
<1>1. CASE v.queued # NoJob /\ ~v.queued.overtaken /\ Live
  <2> DEFINE u == [Forgotten(Overtaken(v)) EXCEPT !.stopFirst = FALSE]
             phase == IF v.stopFirst THEN "stopping" ELSE "called"
             k == Taken(v.queued, phase)
  <2>1. t' = u /\ job' = k
    BY <1>1 DEF PumpOn
  <2>2. Talks(u) /\ u.at = "none" /\ u.queued = NoJob /\ u.step = v.step /\ u.run = v.run
    BY DEF Talks, TalkFields, Forgotten, Overtaken
  <2>3. /\ Fits(k, u.run) /\ (Leaves(k) <=> Leaves(v.queued)) /\ k.dir = v.queued.dir
        /\ {"job", "dir", "done"} \subseteq DOMAIN k
    BY <1>1, <2>2 DEF Fits, Leaves, Taken, Queues
  <2>4. v.step \in SilentSteps /\ ~Pressing(v.step)
    BY <1>1, SilentIsNoPress
  <2>5. Leaves(k) /\ ~ours' /\ ~astray' => Waits(OtherEnd(k.dir))'
    BY <1>1, <2>3 DEF Queues, Waits
  <2> HIDE DEF u, k
  <2>6. Believes(t)' /\ QueueIsSound(t)' /\ TaskIsSound(t, job)' /\ StopIsSound(t, job)'
    BY <1>1, <2>1, <2>2, <2>3, <2>4, <2>5
       DEF Believes, Trusts, Waits, QueueIsSound, Queues, TaskIsSound, AtItsStart, StopIsSound
  <2> QED BY <2>1, <2>2, <2>6 DEF WhereInv
<1>2. CASE ~(v.queued # NoJob /\ ~v.queued.overtaken /\ Live)
  <2>1. t' = Overtaken(v) /\ job' = NoTask
    BY <1>2 DEF PumpOn
  <2>2. /\ Talks(t') /\ t'.at = v.at /\ t'.queued = NoJob /\ t'.step = v.step
        /\ t'.movement = v.movement /\ t'.press = v.press
    BY <2>1 DEF Talks, TalkFields, Overtaken
  <2>3. job'.phase = "none"
    BY <2>1 DEF NoTask
  <2>4. Live' => Believes(t)' /\ QueueIsSound(t)' /\ TaskIsSound(t, job)' /\ StopIsSound(t, job)'
    BY <2>2, <2>3 DEF Live, Believes, Trusts, Waits, QueueIsSound, Queues, TaskIsSound, Runs,
                      StopIsSound
  <2> QED BY <2>2, <2>4 DEF WhereInv
<1> QED BY <1>1, <1>2

-----------------------------------------------------------------------------
(* The actions, when no answer is accepted while a stop is being written.  *)

\* A step that leaves all of it alone.
LEMMA StillThere ==
    ASSUME WhereInv, UNCHANGED <<t, job, outcome, motor, place, ours, astray>>,
           awaiting'.stop = awaiting.stop, "stop" \in DOMAIN awaiting'
    PROVE  WhereInv'
  BY DEF WhereInv, Live, Believes, Trusts, Waits, QueueIsSound, Queues, TaskIsSound, Runs,
         AtItsStart, StopIsSound

\* A step after which the session is not live any more.
LEMMA OverThere ==
    ASSUME Talks(t'), "stop" \in DOMAIN awaiting', ~Live' PROVE WhereInv'
  BY DEF WhereInv

\* An answer.
LEMMA AnswerStands ==
    ASSUME WhereInv, Live, awaiting.stop = "none", t.step \notin SilentSteps,
           UNCHANGED <<job, awaiting, outcome, motor, place, ours, astray>>,
           \/ Goes(t, t')
           \/ Ends(t, t', place) /\ motor = "still" /\ job.phase = "none"
    PROVE  WhereInv'
<1>1. /\ t.queued = NoJob /\ ~Runs(job)
      /\ t.at # "none" => t.movement = "none" /\ (astray \/ Waits(t.at))
  BY DEF WhereInv, Believes, Trusts, QueueIsSound, TaskIsSound
<1>2. CASE Goes(t, t')
  <2>1. Believes(t)'
    BY <1>1, <1>2 DEF Goes, Rests, Sends, Believes, Trusts, Waits
  <2>2. QueueIsSound(t)'
    <3>1. CASE Rests(t, t')
      BY <1>1, <3>1 DEF QueueIsSound, Queues, Rests
    <3>2. CASE Sends(t, t')
      <4>1. Leaves(t'.queued) => t.at # "none" /\ (astray \/ Waits(OtherEnd(t'.queued.dir)))
        BY <1>1, <3>2 DEF Sends, OtherEnd
      <4> QED BY <1>2, <3>2, <4>1 DEF QueueIsSound, AtItsStart, Waits, Sends, Goes
    <3> QED BY <1>2, <3>1, <3>2 DEF Goes
  <2>3. TaskIsSound(t, job)'
    BY <1>1, <1>2, SilentIsNoPress DEF WhereInv, TaskIsSound, Runs, Goes, Rests, Sends
  <2> QED BY <1>2, <2>1, <2>2, <2>3 DEF WhereInv, StopIsSound, Goes
<1>3. CASE Ends(t, t', place) /\ motor = "still" /\ job.phase = "none"
  BY <1>1, <1>3 DEF Ends, WhereInv, Believes, Trusts, Waits, QueueIsSound, Queues, TaskIsSound,
                    Runs, StopIsSound
<1> QED BY <1>2, <1>3

\* The answers.
LEMMA AnswersStand ==
    ASSUME ~Hasty, WhereInv, AsyncAct \/ AsyncSubmit PROVE WhereInv'
<1>1. /\ Live /\ awaiting.stop = "none"
      /\ UNCHANGED <<job, awaiting, outcome, motor, place, ours, astray>>
  BY DEF AsyncAct, AsyncSubmit, Accepted, World
<1>2. Talks(t)
  BY DEF WhereInv
<1>3. CASE AsyncAct
  <2>1. PICK a \in Offered(t) : \E verdict \in Answers(a) : Truthful(a) /\ t' = Act(t, a, verdict)
    BY <1>3 DEF AsyncAct
  <2>2. t.step \notin SilentSteps
    <3>1. "verify_result" \notin SilentSteps
      BY DEF SilentSteps
    <3> QED BY <1>2, <2>1, <3>1, SilentScreens DEF Offered, Talks
  <2>3. From(t)
    BY <1>2, <2>2 DEF From
  <2>4. a \in {"stopped_open", "stopped_closed"} => job.phase = "none"
    <3>1. ASSUME a \in {"stopped_open", "stopped_closed"} PROVE Pressing(t.step)
      <4>1. a \in Screens[t.step].actions
        BY <2>1, <3>1 DEF Offered
      <4> QED BY <3>1, <4>1 DEF Pressing
    <3> QED BY <1>1, <3>1 DEF WhereInv, TaskIsSound
  <2>5. \/ Goes(t, t')
        \/ Ends(t, t', place) /\ motor = "still" /\ job.phase = "none"
    BY <2>1, <2>3, <2>4, ActGoes DEF Truthful
  <2> QED BY <1>1, <2>2, <2>5, AnswerStands
<1>4. CASE AsyncSubmit
  <2>1. t.step \notin SilentSteps
    BY <1>4, SilentScreens DEF AsyncSubmit
  <2>2. Goes(t, t')
    BY <1>2, <1>4, <2>1, SubmitGoes DEF AsyncSubmit, From
  <2> QED BY <1>1, <2>1, <2>2, AnswerStands
<1> QED BY <1>3, <1>4

\* A stop of the shutter, as the conversation and the task see it.
LEMMA StoppedStands ==
    ASSUME NEW k, WhereInv, Placed(k), TaskIsSound(t, k) \/ ~Live, StopIsSound(t, k) \/ ~Live,
           outcome' = outcome, t' = StateStopped(t, k).talk, job' = StateStopped(t, k).task,
           awaiting'.stop \in {awaiting.stop, "none"}, "stop" \in DOMAIN awaiting',
           UNCHANGED <<ours, astray>>, motor' = "still",
           place' = place \/ (place' = motor /\ motor # "still")
    PROVE  WhereInv'
<1>1. CASE StateStopped(t, k).given
  <2>1. t' = Interrupted(t) /\ job' = OvertakenTask(k)
    BY <1>1 DEF StateStopped
  <2>2. Talks(t') /\ t'.at = "none" /\ t'.queued = NoJob /\ ~Pressing(t'.step) /\ ~Runs(job')
    BY <2>1, InterruptedStands, GivenUpTask, AnswerScreens DEF WhereInv, AnswerSteps
  <2> QED BY <2>2 DEF WhereInv, Believes, Trusts, Waits, QueueIsSound, Queues, TaskIsSound,
                      StopIsSound
<1>2. CASE ~StateStopped(t, k).given
  <2>1. t' = t /\ job' = k
    BY <1>2 DEF StateStopped
  <2>2. Live' => Believes(t)' /\ QueueIsSound(t)' /\ TaskIsSound(t, job)' /\ StopIsSound(t, job)'
    BY <2>1 DEF WhereInv, Live, Believes, Trusts, Waits, QueueIsSound, Queues, TaskIsSound, Runs,
                AtItsStart,
                StopIsSound
  <2> QED BY <2>1, <2>2 DEF WhereInv
<1> QED BY <1>1, <1>2

\* The shutter arrives, or is stopped by hand.
LEMMA ShutterStands ==
    ASSUME SessionInv, WhereInv, MotorArrives \/ SwitchStops PROVE WhereInv'
<1>1. /\ t' = StateStopped(t, job).talk /\ job' = StateStopped(t, job).task
      /\ UNCHANGED <<outcome, awaiting, ours, astray>> /\ motor' = "still"
      /\ place' = place \/ (place' = motor /\ motor # "still")
  BY DEF MotorArrives, SwitchStops
<1>2. Placed(job) /\ (TaskIsSound(t, job) \/ ~Live) /\ (StopIsSound(t, job) \/ ~Live)
  BY DEF SessionInv, WhereInv
<1> QED BY <1>1, <1>2, StoppedStands DEF WhereInv

\* The shutter begins to move, by the switch or by a frame that was late.
LEMMA MovingStands ==
    ASSUME SessionInv, WhereInv, NEW dir, dir # "none", StateMoving(dir),
           ours' = (ours \/ t.movement = dir), UNCHANGED <<outcome, awaiting, astray>>
    PROVE  WhereInv'
<1> DEFINE strange == Live /\ t.movement # dir
<1>1. /\ t' = IF strange THEN External(t) ELSE t
      /\ job' = IF strange /\ Measuring(t) THEN OvertakenTask(job) ELSE job
  BY DEF StateMoving
<1>2. CASE strange
  <2>1. /\ t' = External(t)
        /\ job' = IF Measuring(t) THEN OvertakenTask(job) ELSE job
    BY <1>1, <1>2
  <2>2. Talks(t') /\ t'.at = "none" /\ t'.queued = NoJob /\ ~Runs(job') /\ "stop" \in DOMAIN awaiting'
    BY <1>1, <1>2, <2>1, ExternalStands, GivenUpTask
       DEF SessionInv, WhereInv, QueueIsSound, TaskIsSound
  <2>3. job'.phase # "none" => ~Pressing(t'.step)
    <3>1. job'.phase # "none" => job.phase # "none"
      BY <2>1, GivenUpTask DEF SessionInv
    <3>2. Measuring(t) => ~Pressing(t'.step)
      BY <2>1, ExternalStands, AnswerScreens DEF WhereInv, AnswerSteps
    <3>3. ~Measuring(t) => t'.step = t.step
      BY <2>1, ExternalStands DEF WhereInv
    <3> QED BY <1>2, <3>1, <3>2, <3>3 DEF WhereInv, TaskIsSound
  <2> QED BY <2>2, <2>3 DEF WhereInv, Believes, Trusts, Waits, QueueIsSound, Queues, TaskIsSound,
                            StopIsSound
<1>3. CASE ~strange
  <2>1. t' = t /\ job' = job
    BY <1>1, <1>3
  <2>2. Live => t.movement = dir /\ ours' /\ dir # "none"
    BY <1>3
  <2>3. Live' => Believes(t)' /\ QueueIsSound(t)' /\ TaskIsSound(t, job)' /\ StopIsSound(t, job)'
    BY <1>1, <2>1, <2>2 DEF WhereInv, Live, Believes, Trusts, Waits, QueueIsSound, Queues,
                            TaskIsSound, Runs,
                            AtItsStart, StopIsSound
  <2> QED BY <1>1, <2>1, <2>3 DEF WhereInv
<1> QED BY <1>2, <1>3

\* The frame of a homing that did not wait for it.
LEMMA LateStands ==
    ASSUME SessionInv, WhereInv, LateFrame PROVE WhereInv'
<1>1. UNCHANGED <<outcome, awaiting, astray>> /\ late # "none"
  BY DEF LateFrame
<1>2. CASE StateMoving(late) /\ ours' = (ours \/ t.movement = late)
  BY <1>1, <1>2, MovingStands
<1>3. CASE UNCHANGED <<motor, place, t, job, asked, ours>>
  BY <1>1, <1>3, StillThere DEF WhereInv
<1> QED BY <1>2, <1>3 DEF LateFrame

\* A press that never came.
LEMMA PressExpiredStands ==
    ASSUME SessionInv, WhereInv, AsyncPressExpired PROVE WhereInv'
<1> DEFINE v == [Overtaken(t) EXCEPT !.press = "none", !.movement = "none"]
<1>1. Talks(v) /\ v.at = t.at /\ v.queued = NoJob /\ v.movement = "none"
  BY DEF WhereInv, Talks, TalkFields, Overtaken
<1>2. t' = ShowProblem(v, "problem_timeout")
  BY DEF AsyncPressExpired
<1> HIDE DEF v
<1>3. /\ Talks(t') /\ t'.at = t.at /\ t'.queued = NoJob /\ t'.movement = "none"
      /\ t'.step = "problem_timeout"
  BY <1>1, <1>2, AnswerScreens DEF Talks, TalkFields, ShowProblem, AnswerSteps
<1>4. ~Runs(job') /\ (job'.phase # "none" => job.phase # "none") /\ ~Pressing("problem_timeout")
  BY GivenUpTask, AnswerScreens DEF AsyncPressExpired, SessionInv, AnswerSteps
<1>5. UNCHANGED <<awaiting, outcome, motor, place, astray>> /\ Live /\ t.press # "none"
  BY DEF AsyncPressExpired, World
<1> QED BY <1>3, <1>4, <1>5 DEF WhereInv, Believes, Trusts, Waits, QueueIsSound, Queues,
                                TaskIsSound, StopIsSound

\* The stop verb, and what it leaves when the stop is written or refused.
LEMMA StopStands ==
    ASSUME SessionInv, WhereInv, AsyncStop PROVE WhereInv'
<1>1. /\ UNCHANGED <<outcome, motor, place, ours, astray>>
      /\ awaiting' = [awaiting EXCEPT !.stop = IF t.movement # "none" THEN "interrupting" ELSE "plain"]
  BY DEF AsyncStop, World
<1>2. "stop" \in DOMAIN awaiting'
      /\ awaiting'.stop = IF t.movement # "none" THEN "interrupting" ELSE "plain"
  BY <1>1 DEF WhereInv
<1>3. CASE t.movement # "none"
  <2>1. t' = Overtaken(t) /\ job' = OvertakenTask(job)
    BY <1>3 DEF AsyncStop
  <2>2. /\ Talks(t') /\ t'.at = t.at /\ t'.queued = NoJob /\ t'.movement = t.movement
        /\ t'.step = t.step /\ t'.press = t.press
    BY <2>1 DEF WhereInv, Talks, TalkFields, Overtaken
  <2>3. ~Runs(job') /\ (job'.phase # "none" => job.phase # "none")
    BY <2>1, GivenUpTask DEF SessionInv
  <2> QED BY <1>1, <1>2, <2>2, <2>3
          DEF WhereInv, Live, Believes, Trusts, Waits, QueueIsSound, Queues, TaskIsSound,
              StopIsSound
<1>4. CASE t.movement = "none"
  <2>1. t' = t /\ job' = job /\ awaiting'.stop = "plain"
    BY <1>2, <1>4 DEF AsyncStop
  <2> QED BY <1>1, <1>2, <2>1
          DEF WhereInv, Live, Believes, Trusts, Waits, QueueIsSound, Queues, TaskIsSound, Runs,
              AtItsStart, StopIsSound
<1> QED BY <1>3, <1>4

LEMMA StopReturnsStands ==
    ASSUME SessionInv, WhereInv, AsyncStopReturns PROVE WhereInv'
<1> PICK refused \in BOOLEAN :
      LET stopped == StateStopped(t, Aborted(job))
          u == IF refused THEN t ELSE stopped.talk
      IN /\ motor' = IF refused THEN motor ELSE "still"
         /\ job' = IF refused THEN job ELSE stopped.task
         /\ t' = IF awaiting.stop = "plain" THEN u
                 ELSE ShowProblem(Forgotten([u EXCEPT !.movement = "none", !.press = "none"]),
                                  IF refused THEN "problem_failed" ELSE "problem_interrupted")
  BY DEF AsyncStopReturns
<1> DEFINE stopped == StateStopped(t, Aborted(job))
           u == IF refused THEN t ELSE stopped.talk
           why == IF refused THEN "problem_failed" ELSE "problem_interrupted"
<1>1. /\ motor' = IF refused THEN motor ELSE "still"
      /\ job' = IF refused THEN job ELSE stopped.task
      /\ t' = IF awaiting.stop = "plain" THEN u
              ELSE ShowProblem(Forgotten([u EXCEPT !.movement = "none", !.press = "none"]), why)
      /\ UNCHANGED <<outcome, place, ours, astray>>
      /\ awaiting' = [awaiting EXCEPT !.stop = "none"]
      /\ awaiting.stop # "none"
  BY DEF AsyncStopReturns
<1>2. "stop" \in DOMAIN awaiting' /\ awaiting'.stop = "none"
  BY <1>1 DEF WhereInv
<1>3. Placed(Aborted(job)) /\ (TaskIsSound(t, Aborted(job)) \/ ~Live)
      /\ (StopIsSound(t, Aborted(job)) \/ ~Live)
  BY DEF SessionInv, Placed, WhereInv, TaskIsSound, StopIsSound, Aborted, Runs, Fits
<1>4. CASE awaiting.stop = "plain"
  <2>1. CASE refused
    BY <1>1, <1>2, <1>4, <2>1 DEF WhereInv, Live, Believes, Trusts, Waits, QueueIsSound, Queues,
                                  TaskIsSound, Runs,
                                  AtItsStart, StopIsSound
  <2>2. CASE ~refused
    BY <1>1, <1>2, <1>3, <1>4, <2>2, StoppedStands
  <2> QED BY <2>1, <2>2
<1>5. CASE awaiting.stop # "plain"
  <2>1. Talks(u) /\ (u.queued = t.queued \/ u.queued = NoJob)
    BY InterruptedStands DEF WhereInv, StateStopped
  <2>2. /\ job'.phase # "none" => job.phase # "none"
        /\ Runs(job') => Runs(job)
    <3> DEFINE k == Aborted(job)
    <3>1. Placed(k) /\ (Runs(k) => Runs(job)) /\ (k.phase # "none" => job.phase # "none")
      BY GivenUpTask DEF SessionInv, Placed, Aborted
    <3> HIDE DEF k
    <3>2. StateStopped(t, k).task = k \/ StateStopped(t, k).task = OvertakenTask(k)
      BY DEF StateStopped
    <3>3. ~Runs(OvertakenTask(k)) /\ OvertakenTask(k).phase = k.phase
      BY <3>1, GivenUpTask
    <3>4. job' = job \/ job' = k \/ job' = OvertakenTask(k)
      BY <1>1, <3>2 DEF k
    <3> QED BY <3>1, <3>3, <3>4
  <2> DEFINE v == Forgotten([u EXCEPT !.movement = "none", !.press = "none"])
  <2> HIDE DEF u
  <2>3. Talks(v) /\ v.at = "none" /\ v.queued = u.queued
    BY <2>1 DEF Talks, TalkFields, Forgotten
  <2>4. t' = ShowProblem(v, why)
    BY <1>1, <1>5 DEF u
  <2> HIDE DEF v
  <2>5. Talks(t') /\ t'.at = "none" /\ t'.queued = u.queued /\ ~Pressing(t'.step)
    BY <2>3, <2>4, AnswerScreens DEF Talks, TalkFields, ShowProblem, AnswerSteps
  <2> QED BY <1>1, <1>2, <1>5, <2>1, <2>2, <2>5
          DEF WhereInv, Live, Believes, Trusts, Waits, QueueIsSound, Queues, TaskIsSound,
              StopIsSound
<1> QED BY <1>4, <1>5

\* The task takes up a movement.
LEMMA PumpTakesStands ==
    ASSUME WhereInv, PumpTakes PROVE WhereInv'
<1>1. /\ t' = PumpOn(t).talk /\ job' = PumpOn(t).task
      /\ UNCHANGED <<outcome, awaiting, place, motor, ours, astray>>
  BY DEF PumpTakes, World
<1>2. Live /\ Queues(t) => Fits(t.queued, t.run) /\ awaiting.stop \in {"none", "plain"}
                           /\ AtItsStart(t.queued)
  BY DEF WhereInv, QueueIsSound, StopIsSound, Queues
<1> QED BY <1>1, <1>2, PumpKeeps DEF WhereInv, Believes, QueueIsSound, AtItsStart

\* The first stop of a movement returns.
LEMMA FirstStopStands ==
    ASSUME SessionInv, WhereInv, FirstStopReturns PROVE WhereInv'
<1> PICK taken \in BOOLEAN :
      LET stopped == StateStopped(t, job)
          seen == taken /\ stopped.given
          void == Void \/ seen
          u == IF seen THEN stopped.talk ELSE t
      IN /\ motor' = IF taken THEN "still" ELSE motor
         /\ t' = IF void THEN PumpOn(u).talk ELSE u
         /\ job' = IF void THEN PumpOn(u).task ELSE [job EXCEPT !.phase = "called"]
  BY DEF FirstStopReturns
<1> DEFINE stopped == StateStopped(t, job)
           seen == taken /\ stopped.given
           u == IF seen THEN stopped.talk ELSE t
<1>1. /\ UNCHANGED <<outcome, awaiting, place, ours, astray>> /\ job.phase = "stopping"
      /\ motor' \in {motor, "still"}
      /\ t' = IF Void \/ seen THEN PumpOn(u).talk ELSE u
      /\ job' = IF Void \/ seen THEN PumpOn(u).task ELSE [job EXCEPT !.phase = "called"]
  BY DEF FirstStopReturns
<1>2. u = t \/ u = Interrupted(t)
  BY DEF StateStopped
<1>3. CASE Void \/ seen
  <2>1. t' = PumpOn(u).talk /\ job' = PumpOn(u).task
    BY <1>1, <1>3
  <2> HIDE DEF u, seen
  <2>2. Talks(u) /\ (u = t \/ (u.at = "none" /\ u.queued = NoJob))
    BY <1>2, InterruptedStands DEF WhereInv
  <2>3. Live => Trusts(u, astray') /\ (u.queued # NoJob => u.step \in SilentSteps)
    BY <1>1, <2>2 DEF WhereInv, Believes, Trusts, Waits, QueueIsSound
  <2>4. Live /\ Queues(u) => /\ Fits(u.queued, u.run) /\ awaiting.stop \in {"none", "plain"}
                             /\ ~Leaves(u.queued)
    BY <1>1, <2>2 DEF WhereInv, QueueIsSound, StopIsSound, TaskIsSound, Queues
  <2>5. "stop" \in DOMAIN awaiting
    BY DEF WhereInv
  <2> QED BY <1>1, <2>1, <2>2, <2>3, <2>4, <2>5, PumpKeeps
<1>4. CASE ~(Void \/ seen)
  <2>1. t' = t /\ job' = [job EXCEPT !.phase = "called"]
    BY <1>1, <1>4 DEF u
  <2>2. Live /\ Runs(job)
    BY <1>1, <1>4 DEF Void, Runs
  <2>3. /\ job'.phase = "called" /\ job'.overtaken = job.overtaken /\ DOMAIN job' = DOMAIN job
        /\ job'.job = job.job /\ job'.dir = job.dir /\ job'.done = job.done
    BY <2>1, <2>2 DEF SessionInv, Placed, WhereInv, TaskIsSound
  <2> HIDE DEF u, seen
  <2>4. Believes(t)' /\ QueueIsSound(t)' /\ StopIsSound(t, job)'
    BY <1>1, <2>1, <2>2 DEF WhereInv, Believes, Trusts, Waits, QueueIsSound, Queues, TaskIsSound,
                            StopIsSound
  <2>5. TaskIsSound(t, job)'
    BY <1>1, <2>1, <2>2, <2>3 DEF WhereInv, TaskIsSound, Runs, Fits, Leaves, AtItsStart, Waits
  <2> QED BY <1>1, <2>1, <2>4, <2>5 DEF WhereInv
<1> QED BY <1>3, <1>4

\* The frame of a movement is written.
LEMMA FrameStands ==
    ASSUME SessionInv, WhereInv, FrameWritten PROVE WhereInv'
<1>1. UNCHANGED <<outcome, awaiting, ours, astray>> /\ job.phase = "called"
  BY DEF FrameWritten
<1>2. Live => t.at = "none" /\ ~Pressing(t.step)
              /\ (t.queued # NoJob => t.step \in SilentSteps)
              /\ (Queues(t) => ~Leaves(t.queued) /\ Fits(t.queued, t.run))
              /\ (Runs(job) => /\ t.step \in SilentSteps /\ t.queued = NoJob /\ Fits(job, t.run)
                               /\ {"job", "dir", "done"} \subseteq DOMAIN job)
  BY <1>1 DEF WhereInv, TaskIsSound, QueueIsSound, Queues
<1>3. CASE t' = t /\ job' = [job EXCEPT !.phase = "moving"]
  <2>1. /\ job'.phase = "moving" /\ job'.overtaken = job.overtaken /\ DOMAIN job' = DOMAIN job
        /\ {"job", "dir", "done"} \subseteq DOMAIN job =>
             job'.job = job.job /\ job'.dir = job.dir /\ job'.done = job.done
    BY <1>3 DEF SessionInv, Placed
  <2>2. Live => Believes(t)' /\ QueueIsSound(t)' /\ TaskIsSound(t, job)'
    BY <1>1, <1>2, <1>3, <2>1
       DEF Believes, Trusts, Waits, QueueIsSound, Queues, TaskIsSound, Runs, Fits, AtItsStart
  <2>3. Live => StopIsSound(t, job)'
    BY <1>1, <1>3, <2>1 DEF WhereInv, StopIsSound, Runs
  <2> QED BY <1>1, <1>3, <2>2, <2>3 DEF WhereInv, Live
<1>4. CASE Live /\ t' = External(t)
           /\ job' = [(IF Measuring(t) THEN OvertakenTask(job) ELSE job) EXCEPT !.phase = "moving"]
  <2> DEFINE k == IF Measuring(t) THEN OvertakenTask(job) ELSE job
  <2>1. Placed(k) /\ (Measuring(t) => k.overtaken) /\ (~Measuring(t) => k = job)
    BY <1>1, GivenUpTask DEF SessionInv
  <2>2. job' = [k EXCEPT !.phase = "moving"]
    BY <1>4
  <2> HIDE DEF k
  <2>3. job'.overtaken = k.overtaken
    BY <2>1, <2>2 DEF Placed
  <2>4. Talks(t') /\ t'.at = "none" /\ t'.queued = NoJob /\ ~Pressing(t'.step)
    BY <1>2, <1>4, ExternalStands, AnswerScreens DEF WhereInv, AnswerSteps
  <2>5. ~Runs(job')
    BY <1>1, <1>2, <1>4, <2>1, <2>3, ExternalStands DEF WhereInv, Runs
  <2> QED BY <1>1, <2>4, <2>5 DEF WhereInv, Believes, Trusts, Waits, QueueIsSound, Queues,
                                  TaskIsSound, StopIsSound
<1>5. \/ t' = t /\ job' = [job EXCEPT !.phase = "moving"]
      \/ /\ Live /\ t' = External(t)
         /\ job' = [(IF Measuring(t) THEN OvertakenTask(job) ELSE job) EXCEPT !.phase = "moving"]
  BY DEF FrameWritten
<1> QED BY <1>3, <1>4, <1>5

-----------------------------------------------------------------------------
(* A movement that is over.                                                *)

\* What a movement hands over to: nothing queued, or queued where it must start.
Arrived(v, lost) ==
    /\ Talks(v) /\ Trusts(v, lost)
    /\ v.queued # NoJob => v.step \in SilentSteps
    /\ Queues(v) => /\ Fits(v.queued, v.run)
                    /\ Leaves(v.queued) => lost \/ Waits(OtherEnd(v.queued.dir))

\* The conversation a movement comes back to.
Sure(u, lost) ==
    /\ Talks(u) /\ u.queued = NoJob
    /\ u.at # "none" => u.movement = "none" /\ (lost \/ Waits(u.at))

\* A screen shown, a problem shown, a press waited for.
LEMMA ShownArrives ==
    ASSUME NEW u, NEW lost, NEW step, NEW press, Sure(u, lost)
    PROVE  /\ Arrived(Show(u, step), lost)
           /\ step \notin SilentSteps => Arrived(ShowProblem(u, step), lost)
           /\ u.at = "none" => Arrived([Show(u, step) EXCEPT !.press = press], lost)
  BY DEF Sure, Arrived, Talks, TalkFields, Trusts, Queues, Show, ShowProblem

\* Another movement queued.
LEMMA MovementArrives ==
    ASSUME NEW u, NEW lost, NEW step, NEW d, NEW j, NEW done, Sure(u, lost), step \in SilentSteps,
           j = "home" => done \notin DOMAIN PressSteps,
           done = "tape_run" => j = "home" /\ d = OtherEnd(u.run.dir),
           j \in {"start", "fraction"} => lost \/ Waits(OtherEnd(d))
    PROVE  Arrived(BeginMovement(u, step, d, j, done), lost)
<1> DEFINE v == BeginMovement(u, step, d, j, done)
           q == [job |-> j, dir |-> d, done |-> done, overtaken |-> FALSE]
<1>1. /\ v.step = step /\ v.press = "none" /\ v.queued = q /\ v.at = u.at /\ v.run = u.run
      /\ v.stale = FALSE /\ v.after = u.after /\ TalkFields \subseteq DOMAIN v
  BY DEF BeginMovement, Show, Sure, Talks, TalkFields
<1>2. Fits(q, u.run) /\ (Leaves(q) => lost \/ Waits(OtherEnd(q.dir)))
  BY DEF Fits, Leaves
<1> HIDE DEF v, q
<1>3. Talks(v) /\ Trusts(v, lost)
  BY <1>1 DEF Sure, Talks, Trusts
<1> QED BY <1>1, <1>2, <1>3 DEF Arrived, v

\* Where a movement hands over to.
LEMMA GotoArrives ==
    ASSUME NEW u, NEW lost, NEW step, Sure(u, lost),
           step \in DOMAIN PressSteps => u.at = "none",
           step = "tape_run" => lost \/ Waits(OtherEnd(u.run.dir))
    PROVE  Arrived(Goto(u, step), lost)
<1>1. CASE step \in DOMAIN PressSteps
  <2>1. Goto(u, step) = [Show(u, step) EXCEPT !.press = PressSteps[step]]
    BY <1>1 DEF Goto, PressSteps
  <2>2. Arrived([Show(u, step) EXCEPT !.press = PressSteps[step]], lost)
    BY <1>1, ShownArrives, Zenon
  <2> QED BY <2>1, <2>2
<1>2. CASE step = "open_home_again"
  <2> DEFINE v == [u EXCEPT !.movement = "none", !.press = "none"]
             w == [u EXCEPT !.homeAnyway = FALSE]
  <2>1. Sure(v, lost) /\ Sure(w, lost)
    BY DEF Sure, Talks, TalkFields
  <2> HIDE DEF v, w
  <2>2. Arrived(Show(v, "closed_again"), lost)
    BY <2>1, ShownArrives
  <2>3. Arrived(BeginMovement(w, "open_home_again", "close", "home", "closed_again"), lost)
    <3>1. "open_home_again" \in SilentSteps /\ "closed_again" \notin DOMAIN PressSteps
      BY DEF SilentSteps, PressSteps
    <3> QED BY <2>1, <3>1, MovementArrives
  <2>4. Goto(u, step) = BeginHoming(u, step, "close", "closed_again")
    BY <1>2 DEF Goto, PressSteps
  <2> QED BY <1>2, <2>2, <2>3, <2>4 DEF BeginHoming, GoOn, v, w
<1>3. CASE step = "tape_run"
  <2>1. "tape_run" \in SilentSteps /\ "tape_run" \notin DOMAIN PressSteps
        /\ u.after # "tape_run"
    BY DEF SilentSteps, PressSteps, Sure, Talks
  <2>2. Arrived(BeginMovement(u, step, u.run.dir, "fraction", u.after), lost)
    BY <1>3, <2>1, MovementArrives
  <2> QED BY <1>3, <2>1, <2>2 DEF Goto, GoOn
<1>4. CASE step \notin DOMAIN PressSteps \cup {"open_home_again", "tape_run"}
  BY <1>4, ShownArrives DEF Goto, GoOn
<1> QED BY <1>1, <1>2, <1>3, <1>4

\* A movement of the session's own comes back.
LEMMA SettledArrives ==
    ASSUME SessionInv, WhereInv, Live, Runs(job), NEW verdict, NEW lost,
           Homed(verdict) => lost \/ Waits(job.dir),
           job.job = "home" => verdict \in {"fit", "failed"}
    PROVE  Arrived(Settled(t, job, verdict), lost)
<1> DEFINE u == [t EXCEPT !.movement =
                   IF job.done \in DOMAIN PressSteps /\ verdict # "failed" THEN @ ELSE "none"]
<1>1. /\ t.at = "none" /\ t.queued = NoJob /\ Fits(job, t.run) /\ Talks(t)
  BY DEF WhereInv, TaskIsSound, Runs
<1>2. /\ Talks(u) /\ u.at = "none" /\ u.queued = NoJob /\ u.run = t.run /\ u.after = t.after
      /\ job.done \notin DOMAIN PressSteps => u.movement = "none"
  BY <1>1 DEF Talks, TalkFields
<1>3. Sure(u, lost)
  BY <1>2 DEF Sure
<1>4. Settled(t, job, verdict) =
        CASE verdict = "failed" -> ShowProblem(u, "problem_failed")
          [] verdict # "failed" /\ job.done = "lift_measured" -> LiftMeasured(Settle(u, job), verdict)
          [] OTHER -> Goto(Settle(u, job), job.done)
  BY DEF Settled
<1> HIDE DEF u
<1>5. CASE verdict = "failed"
  <2>1. "problem_failed" \notin SilentSteps
    BY AnswerScreens DEF AnswerSteps
  <2> QED BY <1>3, <1>4, <1>5, <2>1, ShownArrives
<1>6. CASE verdict # "failed"
  <2> DEFINE w == Settle(u, job)
  <2>1. job.job = "home" => lost \/ Waits(job.dir)
    BY <1>6 DEF Homed
  <2>2. /\ Sure(w, lost) /\ w.run = t.run
        /\ w.at = IF job.job = "home" THEN job.dir ELSE "none"
    <3>1. CASE job.job = "home"
      <4>1. w = [u EXCEPT !.at = job.dir] /\ u.movement = "none"
        BY <1>1, <1>2, <3>1 DEF Settle, Fits
      <4> QED BY <1>2, <2>1, <3>1, <4>1 DEF Sure, Talks, TalkFields
    <3>2. CASE job.job # "home"
      <4>1. w = u \/ w = [u EXCEPT !.report = TRUE]
        BY <3>2 DEF Settle
      <4> QED BY <1>2, <3>2, <4>1 DEF Sure, Talks, TalkFields
    <3> QED BY <3>1, <3>2
  <2> HIDE DEF w
  <2>3. Arrived(Goto(w, job.done), lost)
    BY <1>1, <2>1, <2>2, GotoArrives DEF Fits
  <2>4. Arrived(LiftMeasured(w, verdict), lost)
    <3>1. Sure([w EXCEPT !.m.slat = TRUE], lost)
      BY <2>2 DEF Sure, Talks, TalkFields
    <3>2. "problem_bad_point" \notin SilentSteps
      BY AnswerScreens DEF AnswerSteps
    <3> QED BY <2>2, <3>1, <3>2, ShownArrives DEF LiftMeasured
  <2> QED BY <1>4, <1>6, <2>3, <2>4 DEF w
<1> QED BY <1>5, <1>6

\* A movement is over.
LEMMA JobStands ==
    ASSUME SessionInv, WhereInv, JobReturns PROVE WhereInv'
<1> PICK verdict \in {"fit", "unfit", "failed"} :
      /\ verdict = "failed" => job.phase # "none"
      /\ verdict # "failed" => Came
      /\ LET next == PumpOn(IF Void THEN t ELSE Settled(t, job, verdict))
         IN t' = next.talk /\ job' = next.task
      /\ verdict = "unfit" => job.job = "stop_lift"
      /\ astray' = (Homed(verdict) /\ ~Void
                      /\ ~(place = job.dir /\ motor = "still" /\ late' = "none"))
  BY DEF JobReturns
<1> DEFINE u == IF Void THEN t ELSE Settled(t, job, verdict)
<1>1. /\ UNCHANGED <<outcome, awaiting, place>> /\ motor' \in {motor, "still"}
      /\ t' = PumpOn(u).talk /\ job' = PumpOn(u).task
  BY DEF JobReturns
<1>2. job.phase # "none" /\ "stop" \in DOMAIN awaiting
  BY DEF Came, WhereInv
<1>3. Talks(u) /\ (Live => Trusts(u, astray') /\ (u.queued # NoJob => u.step \in SilentSteps))
      /\ (Live /\ Queues(u) =>
            /\ Fits(u.queued, u.run) /\ awaiting.stop \in {"none", "plain"}
            /\ Leaves(u.queued) => astray' \/ Waits(OtherEnd(u.queued.dir)))
  <2>1. CASE Void
    BY <1>2, <2>1 DEF WhereInv, Trusts, QueueIsSound, TaskIsSound, StopIsSound, Queues
  <2>2. CASE ~Void
    <3>1. Live /\ Runs(job)
      BY <1>2, <2>2 DEF Void, Runs
    <3>2. Arrived(u, astray')
      <4>1. Homed(verdict) => astray' \/ Waits(job.dir)
        BY <2>2 DEF Waits
      <4>2. job.job = "home" => verdict \in {"fit", "failed"}
        OBVIOUS
      <4> QED BY <2>2, <3>1, <4>1, <4>2, SettledArrives
    <3>3. awaiting.stop \in {"none", "plain"}
      BY <3>1 DEF WhereInv, StopIsSound
    <3> HIDE DEF u
    <3> QED BY <3>2, <3>3 DEF Arrived
  <2> QED BY <2>1, <2>2
<1> HIDE DEF u
<1> QED BY <1>1, <1>2, <1>3, PumpKeeps

-----------------------------------------------------------------------------
(* The end, the save and the beginning.                                    *)

\* An end leaves a conversation that can be read, and is not live.
LEMMA FinishStands ==
    ASSUME WhereInv, NEW reason, reason # "none", Finish(reason), "stop" \in DOMAIN awaiting'
    PROVE  WhereInv'
<1> DEFINE gone == Forgotten([Overtaken(t) EXCEPT !.movement = "none", !.press = "none"])
<1>1. Talks(gone)
  BY DEF WhereInv, Talks, TalkFields, Forgotten, Overtaken
<1> HIDE DEF gone
<1>2. Talks(Emptied(gone))
  BY <1>1 DEF Talks, TalkFields, Emptied
<1>3. Talks(t')
  BY <1>1, <1>2 DEF Finish, Finished, gone
<1>4. ~Live'
  BY DEF Finish, Live
<1> QED BY <1>3, <1>4, OverThere

\* An end, at once or behind a last stop.
LEMMA EndStands ==
    ASSUME SessionInv, WhereInv, NEW reason, reason # "none", AsyncEnd(reason) PROVE WhereInv'
<1>1. CASE Finish(reason) /\ UNCHANGED awaiting
  BY <1>1, FinishStands DEF WhereInv
<1>2. CASE /\ awaiting' = [awaiting EXCEPT !.end = reason] /\ t' = GivenUp(t)
           /\ UNCHANGED outcome
  <2>1. /\ Talks(t') /\ t'.at = t.at /\ t'.movement = t.movement /\ t'.step = t.step
        /\ t'.press = t.press /\ ~Queues(t') /\ (t.queued = NoJob => t'.queued = NoJob)
        /\ t'.queued # NoJob => t.queued # NoJob
    BY <1>2, GivenUpQueuesNothing DEF SessionInv, WhereInv, Talks, TalkFields, GivenUp
  <2>2. awaiting'.stop = awaiting.stop /\ "stop" \in DOMAIN awaiting'
    BY <1>2 DEF WhereInv
  <2>3. ~Runs(job') /\ (job'.phase # "none" => job.phase # "none")
    BY GivenUpTask DEF AsyncEnd, SessionInv
  <2>4. Live /\ UNCHANGED <<motor, place, astray>>
    BY DEF AsyncEnd, World
  <2>5. Believes(t)' /\ QueueIsSound(t)' /\ TaskIsSound(t, job)' /\ StopIsSound(t, job)'
    BY <2>1, <2>2, <2>3, <2>4 DEF WhereInv, Believes, Trusts, Waits, QueueIsSound, TaskIsSound,
                                  StopIsSound
  <2> QED BY <2>1, <2>2, <2>5 DEF WhereInv
<1> QED BY <1>1, <1>2 DEF AsyncEnd

LEMMA EndReturnsStands ==
    ASSUME WhereInv, AsyncEndReturns PROVE WhereInv'
<1>1. "stop" \in DOMAIN awaiting' /\ awaiting.end # "none"
  BY DEF AsyncEndReturns, WhereInv
<1>2. CASE Live
  BY <1>1, <1>2, FinishStands DEF AsyncEndReturns
<1>3. CASE ~Live
  BY <1>1, <1>3, OverThere DEF AsyncEndReturns, WhereInv, Live
<1> QED BY <1>2, <1>3

\* The save, written in one or two steps.
LEMMA SaveStands ==
    ASSUME WhereInv, AsyncSave \/ ProfileSaved \/ RecordSaved PROVE WhereInv'
<1>1. CASE AsyncSave \/ ProfileSaved
  <2>1. UNCHANGED <<t, job, outcome, motor, place, ours, astray>>
    BY <1>1 DEF AsyncSave, ProfileSaved, World
  <2>2. "stop" \in DOMAIN awaiting' /\ awaiting'.stop = awaiting.stop
    BY <1>1 DEF AsyncSave, ProfileSaved, WhereInv
  <2> QED BY <2>1, <2>2, StillThere
<1>2. CASE RecordSaved
  <2>1. "stop" \in DOMAIN awaiting' /\ awaiting'.stop = awaiting.stop
    BY <1>2 DEF RecordSaved, WhereInv
  <2>2. CASE Live
    BY <1>2, <2>1, <2>2, FinishStands DEF RecordSaved
  <2>3. CASE ~Live
    BY <1>2, <2>1, <2>3, OverThere DEF RecordSaved, WhereInv, Live
  <2> QED BY <2>2, <2>3
<1> QED BY <1>1, <1>2

\* No step loses the shutter.
LEMMA StepStands ==
    ASSUME ~Hasty, SessionInv, WhereInv, [Next]_vars PROVE WhereInv'
<1>1. CASE AsyncAct \/ AsyncSubmit
  BY <1>1, AnswersStand
<1>2. CASE AsyncStop \/ AsyncStopReturns
  BY <1>2, StopStands, StopReturnsStands
<1>3. CASE AsyncCancel \/ Leave \/ AsyncLeaseExpired \/ AsyncUnload
  BY <1>3, EndStands DEF AsyncCancel, Leave, AsyncLeaseExpired, AsyncUnload
<1>4. CASE AsyncEndReturns
  BY <1>4, EndReturnsStands
<1>5. CASE AsyncSave \/ ProfileSaved \/ RecordSaved
  BY <1>5, SaveStands
<1>6. CASE Pump
  BY <1>6, PumpTakesStands, FirstStopStands, FrameStands, JobStands DEF Pump
<1>7. CASE AsyncPressExpired
  BY <1>7, PressExpiredStands
<1>8. CASE Shutter
  <2>1. ASSUME NEW dir \in Directions, SwitchMoves(dir) PROVE WhereInv'
    <3>1. dir # "none"
      BY DEF Directions
    <3> QED BY <2>1, <3>1, MovingStands DEF SwitchMoves
  <2> QED BY <1>8, <2>1, ShutterStands, LateStands DEF Shutter
<1>9. CASE WalkAway \/ UNCHANGED vars
  <2>1. UNCHANGED <<t, job, awaiting, outcome, motor, place, ours, astray>>
    BY <1>9 DEF WalkAway, World, vars
  <2> QED BY <2>1, StillThere DEF WhereInv
<1> QED BY <1>1, <1>2, <1>3, <1>4, <1>5, <1>6, <1>7, <1>8, <1>9
       DEF Next, Verbs, Answered, Timers

\* A session is born without a belief.
LEMMA BornLost ==
    ASSUME Init PROVE WhereInv
<1> DEFINE Lost(u) == Talks(u) /\ u.at = "none" /\ u.queued = NoJob
<1>1. PICK way \in Openings, own \in BOOLEAN : t = Opened(way, own)
  BY DEF Init
<1>2. Lost(NewTalk)
  BY AnswerScreens DEF NewTalk, Talks, TalkFields
<1>3. ASSUME NEW u, NEW a, NEW step, Lost(u) PROVE Lost(Show([u EXCEPT !.path = a], step))
  BY <1>3 DEF Talks, TalkFields, Show
<1>4. Lost(t)
  <2>1. CASE way = "corrected"
    <3> DEFINE u == [NewTalk EXCEPT !.path = "path_c"]
               v == CorrectThisProfile(u, own)
    <3>1. Lost(u)
      BY <1>2 DEF Talks, TalkFields
    <3> HIDE DEF u
    <3>2. Lost(v)
      BY <3>1 DEF Talks, TalkFields, CorrectThisProfile
    <3> HIDE DEF v
    <3>3. Lost(Show(v, "refine_scope"))
      BY <3>2 DEF Talks, TalkFields, Show
    <3> QED BY <1>1, <2>1, <3>3 DEF Opened, u, v
  <2>2. CASE way # "corrected"
    BY <1>1, <1>2, <1>3, <2>2 DEF Opened
  <2> QED BY <2>1, <2>2
<1>5. job.phase = "none" /\ awaiting.stop = "none" /\ "stop" \in DOMAIN awaiting
  BY DEF Init, NoTask, Idle
<1> QED BY <1>4, <1>5 DEF WhereInv, Believes, Trusts, Waits, QueueIsSound, Queues, TaskIsSound,
                          Runs, StopIsSound

-----------------------------------------------------------------------------
(* So long as no answer is accepted while the stop verb's stop is being    *)
(* written, the session knows where the shutter stands: whatever the wall  *)
(* switch, the stops and the ends do in between, the end stop by which     *)
(* _begin_homing leaves a homing out is the one the shutter stands at.     *)
(* (An answer in that moment is the race of InterruptedIsAtRest.)          *)
THEOREM KnowsWhereItStands ==
    ASSUME ~Hasty PROVE Spec => []KnowsWhereItIs
<1>1. Init => SessionInv /\ WhereInv
  BY BornQuiet, BornLost
<1>2. SessionInv /\ WhereInv /\ [Next]_vars => (SessionInv /\ WhereInv)'
  BY StepKept, StepStands DEF Kept
<1>3. WhereInv => KnowsWhereItIs
  BY DEF WhereInv, Believes, Trusts, Waits, KnowsWhereItIs
<1> QED BY <1>1, <1>2, <1>3, PTL DEF Spec

(* Under the same condition a stopwatch starts, and a measured run is      *)
(* driven, from the end stop the run leaves, also after a first stop and   *)
(* with the switch used while the movement was queued (_timed_run,         *)
(* _begin_homing, _run_one); only a switch moved in the run's own          *)
(* direction before its frame goes unnoticed.                              *)
THEOREM RunsStartFromTheirEnd ==
    ASSUME ~Hasty PROVE Spec => []StartsFromItsEnd
<1>1. Init => SessionInv /\ WhereInv
  BY BornQuiet, BornLost
<1>2. SessionInv /\ WhereInv /\ [Next]_vars => (SessionInv /\ WhereInv)'
  BY StepKept, StepStands DEF Kept
<1>3. WhereInv => StartsFromItsEnd
  BY DEF WhereInv, TaskIsSound, AtItsStart, Waits, Leaves, Runs, Void, StartsFromItsEnd
<1> QED BY <1>1, <1>2, <1>3, PTL DEF Spec
=============================================================================
