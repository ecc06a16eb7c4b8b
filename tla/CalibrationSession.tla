------------------------- MODULE CalibrationSession -------------------------
(***************************************************************************)
(* The panel's calibration session (calibration_session.py) around the     *)
(* conversation of PanelConversation: the verbs that reach it over the     *)
(* websocket, the task that runs its movements, the stop, the save and the *)
(* end that each wait for somebody else, the timers, and a shutter that    *)
(* also answers to the wall switch.                                        *)
(*                                                                         *)
(* A verb runs to its first await in one step; what it does after the      *)
(* await is another.  The code tells an overtaken movement by comparing a  *)
(* counter with the one taken when it was queued; here raising the counter *)
(* marks whatever is queued or in flight.  Who of several clients holds    *)
(* the session, and the revision a verb must name, are left out: every     *)
(* answer is given on the screen that is shown.                            *)
(***************************************************************************)
EXTENDS PanelConversation

CONSTANTS
    Openings,   \* the ways the session is opened (a bound)
    Hasty,      \* whether an answer may come while a stop is still being written
    Touches     \* how many times the wall switch and the stop are used, or a homing comes
                \* back of itself before the shutter is there (a bound)

ASSUME SessionAssumption ==
    /\ Openings \subseteq {"any", "path_a", "path_b", "path_c", "corrected"}
    /\ Hasty \in BOOLEAN /\ Touches \in Nat

VARIABLES
    t,        \* the conversation; t.queued is the movement queued behind the screen
    job,      \* the movement the task is running, and how far it is
    awaiting, \* what each verb is waiting for: its stop, its write, its last stop
    outcome,  \* why the session ended, "none" while it is live
    motor,    \* what the motor is doing
    place,    \* where the shutter really stands
    late,     \* the direction of a homing's frame that is still to be written, or "none"
    written,  \* which halves of the result are in the store
    away,     \* the user will not come back to this session
    touched,  \* how many of these Touches there were
    asked,    \* (history) an answer was accepted since a movement was last given up
    ours,     \* (history) a touch of the switch was taken for the session's own movement
    astray    \* (history) the last homing came back with the shutter not, or not yet, there

vars == <<t, job, awaiting, outcome, motor, place, late, written, away, touched, asked, ours,
          astray>>

World == <<motor, place, late>>
User == <<away, touched>>

NoTask == [job |-> "none", dir |-> "none", done |-> "none", overtaken |-> FALSE, phase |-> "none"]
Idle == [stop |-> "none", save |-> "none", end |-> "none"]
Live == outcome = "none"

\* begin: the screen the session is born on.  Nothing moves.
Opened(way, own) ==
    CASE way = "any" -> NewTalk
      [] way = "corrected" ->
           Show(CorrectThisProfile([NewTalk EXCEPT !.path = "path_c"], own), "refine_scope")
      [] OTHER -> Show([NewTalk EXCEPT !.path = way], way)

Init ==
    /\ \E way \in Openings, own \in BOOLEAN : t = Opened(way, own)
    /\ job = NoTask /\ awaiting = Idle /\ outcome = "none"
    /\ motor = "still" /\ place \in {"close", "open", "between"} /\ late = "none"
    /\ written = [profile |-> FALSE, record |-> FALSE]
    /\ away = FALSE /\ touched = 0 /\ asked = FALSE /\ ours = FALSE
    /\ astray = FALSE

-----------------------------------------------------------------------------
(* Giving a movement up.                                                   *)

\* Mutant of OvertakenTask: only what is queued is given up.
StillCurrent(k) == k

Overtaken(u) == [u EXCEPT !.queued = NoJob]
OvertakenTask(k) == IF k.phase = "none" THEN k ELSE [k EXCEPT !.overtaken = TRUE]

Forgotten(u) == [u EXCEPT !.at = "none"]
Interrupted(u) ==
    ShowProblem(Forgotten([Overtaken(u) EXCEPT !.movement = "none", !.press = "none"]),
                "problem_interrupted")

(* A movement somebody else made, answered by where the session stands.    *)
Measuring(u) == Screens[u.step].state \in {"running", "positioning"}

\* Mutant of External: the session goes on believing where the shutter is.
ExternalUnnoticed(u) == IF Measuring(u) THEN Interrupted(u) ELSE u

External(u) ==
    CASE Measuring(u) -> Interrupted(u)
      [] ~Measuring(u) /\ u.step \in {"measure_descent", "measure_ascent", "measure_verify"} ->
           [Forgotten(u) EXCEPT !.stale = TRUE]
      [] OTHER -> Forgotten(u)

(* The shutter begins to move: a movement in the direction of the          *)
(* session's own is taken for it.  ends says whether the step was one that *)
(* is interrupted.                                                         *)
StateMoving(dir) ==
    LET strange == Live /\ t.movement # dir
    IN /\ t' = IF strange THEN External(t) ELSE t
       /\ job' = IF strange /\ Measuring(t) THEN OvertakenTask(job) ELSE job
       /\ asked' = (asked /\ ~(strange /\ Measuring(t)))

(* The shutter stops: before the press that measures the lift-off, that is *)
(* the end of the step.                                                    *)
StateStopped(u, k) ==
    LET interrupts == Live /\ motor # "still" /\ u.press = "lift_off"
    IN [talk |-> IF interrupts THEN Interrupted(u) ELSE u,
        task |-> IF interrupts THEN OvertakenTask(k) ELSE k,
        given |-> interrupts]

-----------------------------------------------------------------------------
(* The answers.  A press is truthful: the shutter is where the user says.  *)

Answers(a) ==
    CASE a = "lifted_off" -> {"fit", "late"}
      [] a \in {"stopped_open", "stopped_closed"} -> {"fit", "late", "unfit"}
      [] a \in {"accept_step", "skip_verify", "verify_now", "repeat_step"} -> {"fit", "unfit"}
      [] OTHER -> {"fit"}

Values(step) ==
    CASE step = "lift_gap" -> {"bad", "empty", "touching", "fit"}
      [] step = "measure_verify" -> {"bad", "near", "far", "unfit"}
      [] step \in {"path_b", "path_c"} -> {"fit"}
      [] OTHER -> {"bad", "fit"}

Truthful(a) ==
    /\ a = "stopped_open" => place = "open" /\ motor = "still"
    /\ a = "stopped_closed" => place = "close" /\ motor = "still"

Accepted == Live /\ ~away /\ (Hasty \/ awaiting.stop = "none")

AsyncAct ==
    /\ Accepted
    /\ \E a \in Offered(t) : \E verdict \in Answers(a) :
         /\ Truthful(a)
         /\ t' = Act(t, a, verdict)
    /\ asked' = TRUE
    /\ UNCHANGED <<job, awaiting, outcome, World, written, User, ours, astray>>

AsyncSubmit ==
    /\ Accepted /\ Screens[t.step].form
    /\ \E verdict \in Values(t.step), own \in BOOLEAN : t' = Submit(t, verdict, own)
    /\ asked' = TRUE
    /\ UNCHANGED <<job, awaiting, outcome, World, written, User, ours, astray>>

-----------------------------------------------------------------------------
(* The task that runs the movements, one after the other.  Whether a       *)
(* movement was overtaken is looked at when it is taken up, again after    *)
(* the stop that a "not right" asks for first, and when it is over.        *)

Taken(q, phase) == [job |-> q.job, dir |-> q.dir, done |-> q.done, overtaken |-> FALSE,
                    phase |-> phase]

\* What the task goes on to with nothing in between: the next queued, or nothing.
PumpOn(u) ==
    CASE u.queued # NoJob /\ ~u.queued.overtaken /\ Live ->
           [talk |-> [Forgotten(Overtaken(u)) EXCEPT !.stopFirst = FALSE],
            task |-> Taken(u.queued, IF u.stopFirst THEN "stopping" ELSE "called")]
      [] OTHER -> [talk |-> Overtaken(u), task |-> NoTask]

PumpTakes ==
    /\ job.phase = "none" /\ t.queued # NoJob
    /\ t' = PumpOn(t).talk /\ job' = PumpOn(t).task
    /\ UNCHANGED <<awaiting, outcome, World, written, User, asked, ours, astray>>

Void == job.overtaken \/ ~Live

(* Mutant of FirstStopReturns: what was overtaken meanwhile is driven.     *)
FirstStopThenDrives ==
    /\ job.phase = "stopping"
    /\ motor' = "still"
    /\ job' = [job EXCEPT !.phase = "called"]
    /\ UNCHANGED <<t, awaiting, outcome, place, late, written, User, asked, ours, astray>>

(* The stop of a "not right" has been written, or refused.                 *)
FirstStopReturns ==
    /\ job.phase = "stopping"
    /\ \E taken \in BOOLEAN :
         LET stopped == StateStopped(t, job)
             seen == taken /\ stopped.given
             void == Void \/ seen
             u == IF seen THEN stopped.talk ELSE t
         IN /\ taken => late = "none"
            /\ motor' = IF taken THEN "still" ELSE motor
            /\ asked' = (asked /\ ~seen)
            /\ t' = IF void THEN PumpOn(u).talk ELSE u
            /\ job' = IF void THEN PumpOn(u).task ELSE [job EXCEPT !.phase = "called"]
    /\ UNCHANGED <<awaiting, outcome, place, late, written, User, ours, astray>>

(* The frame of the movement is written.  A lift-off run is stopped by it. *)
FrameWritten ==
    /\ job.phase = "called" /\ late = "none"
    /\ IF job.job = "stop_lift"
         THEN /\ motor' = "still" /\ place' = place
              /\ job' = [job EXCEPT !.phase = "moving"]
              /\ UNCHANGED <<t, asked>>
         ELSE /\ motor' = job.dir /\ place' = "between"
              /\ LET strange == Live /\ t.movement # job.dir
                     gives == strange /\ Measuring(t)
                 IN /\ t' = IF strange THEN External(t) ELSE t
                    /\ asked' = (asked /\ ~gives)
                    /\ job' = [(IF gives THEN OvertakenTask(job) ELSE job)
                                 EXCEPT !.phase = "moving"]
    /\ UNCHANGED <<awaiting, outcome, late, written, User, ours, astray>>

(* The movement is over as the cover tells it: a free run under way, a     *)
(* measured run stopped by its own frame, and a homing whenever it ends or *)
(* takes too long - at its end stop, stopped or reversed on the way, still *)
(* under way, or with its frame dropped or not written yet.                *)
Came == job.phase = "moving" \/ (job.phase = "called" /\ job.job = "home")

(* A homing comes back before its frame is written, or the motor at rest.  *)
Homed(verdict) == job.job = "home" /\ verdict = "fit"
TooEarly(verdict) == Homed(verdict) /\ (job.phase = "called" \/ motor # "still")

JobReturns ==
    /\ \E verdict \in {"fit", "unfit", "failed"} :
         /\ verdict = "failed" => job.phase # "none"
         /\ verdict # "failed" => Came
         /\ verdict = "unfit" => job.job = "stop_lift"
         /\ LET next == PumpOn(IF Void THEN t ELSE Settled(t, job, verdict))
            IN t' = next.talk /\ job' = next.task
         /\ motor' = IF job.job = "fraction" /\ verdict # "failed" THEN "still" ELSE motor
         /\ touched' = touched + (IF TooEarly(verdict) THEN 1 ELSE 0) /\ touched' <= Touches
         /\ late' \in IF TooEarly(verdict) /\ job.phase = "called" /\ late = "none"
                      THEN {"none", job.dir} ELSE {late}
         /\ astray' = (Homed(verdict) /\ ~Void
                         /\ ~(place = job.dir /\ motor = "still" /\ late' = "none"))
    /\ ours' = FALSE
    /\ UNCHANGED <<awaiting, outcome, place, written, away, asked>>

(* The frame of a homing that did not wait for it is written, or dropped:  *)
(* before any frame that was sent after it.  There is one of them at most. *)
LateFrame ==
    /\ late # "none" /\ late' = "none"
    /\ \/ /\ motor' = late /\ place' = "between"
          /\ StateMoving(late)
          /\ ours' = (ours \/ t.movement = late)
       \/ UNCHANGED <<motor, place, t, job, asked, ours>>
    /\ UNCHANGED <<awaiting, outcome, written, User, astray>>

-----------------------------------------------------------------------------
(* The stop verb.  With a movement of the session under way the step is    *)
(* void; the screen says so when the stop has been written, or refused.    *)

Aborted(k) == IF k.phase \in {"called", "moving"} THEN [k EXCEPT !.phase = "aborted"] ELSE k

AsyncStop ==
    /\ Live /\ ~away /\ awaiting.stop = "none"
    /\ touched < Touches /\ touched' = touched + 1
    /\ LET interrupting == t.movement # "none"
       IN /\ awaiting' = [awaiting EXCEPT !.stop = IF interrupting THEN "interrupting" ELSE "plain"]
          /\ t' = IF interrupting THEN Overtaken(t) ELSE t
          /\ job' = IF interrupting THEN OvertakenTask(job) ELSE job
          /\ asked' = (asked /\ ~interrupting)
    /\ UNCHANGED <<outcome, World, written, away, ours, astray>>

AsyncStopReturns ==
    /\ awaiting.stop # "none"
    /\ \E refused \in BOOLEAN :
         LET stopped == StateStopped(t, Aborted(job))
             u == IF refused THEN t ELSE stopped.talk
         IN /\ refused \/ late = "none"
            /\ motor' = IF refused THEN motor ELSE "still"
            /\ job' = IF refused THEN job ELSE stopped.task
            /\ asked' = (asked /\ (refused \/ ~stopped.given))
            /\ t' = IF awaiting.stop = "plain" THEN u
                    ELSE ShowProblem(Forgotten([u EXCEPT !.movement = "none", !.press = "none"]),
                                     IF refused THEN "problem_failed" ELSE "problem_interrupted")
    /\ awaiting' = [awaiting EXCEPT !.stop = "none"]
    /\ UNCHANGED <<outcome, place, late, written, User, ours, astray>>

-----------------------------------------------------------------------------
(* The shutter on its own.                                                 *)

MotorArrives ==
    /\ motor # "still"
    /\ LET stopped == StateStopped(t, job)
       IN t' = stopped.talk /\ job' = stopped.task /\ asked' = (asked /\ ~stopped.given)
    /\ motor' = "still" /\ place' = motor
    /\ UNCHANGED <<awaiting, outcome, late, written, User, ours, astray>>

SwitchMoves(dir) ==
    /\ touched < Touches /\ touched' = touched + 1
    /\ motor # dir
    /\ motor' = dir /\ place' = "between"
    /\ StateMoving(dir)
    /\ ours' = (ours \/ t.movement = dir)
    /\ UNCHANGED <<awaiting, outcome, late, written, away, astray>>

SwitchStops ==
    /\ touched < Touches /\ touched' = touched + 1
    /\ motor # "still" /\ motor' = "still"
    /\ LET stopped == StateStopped(t, job)
       IN t' = stopped.talk /\ job' = stopped.task /\ asked' = (asked /\ ~stopped.given)
    /\ UNCHANGED <<awaiting, outcome, place, late, written, away, ours, astray>>

(* Nobody pressed anything for a minute and a half.                        *)
AsyncPressExpired ==
    /\ Live /\ t.press # "none"
    /\ t' = ShowProblem([Overtaken(t) EXCEPT !.press = "none", !.movement = "none"],
                        "problem_timeout")
    /\ job' = OvertakenTask(job)
    /\ asked' = FALSE
    /\ UNCHANGED <<awaiting, outcome, World, written, User, ours, astray>>

-----------------------------------------------------------------------------
(* The end.  Nothing queued survives it, and only a save keeps what was    *)
(* measured.                                                               *)

Emptied(u) ==
    [u EXCEPT !.m = NoMeasurement, !.plan = <<>>, !.index = 0, !.review = FALSE, !.check = FALSE]
Finished(u, reason) ==
    LET gone == Forgotten([Overtaken(u) EXCEPT !.movement = "none", !.press = "none"])
    IN IF reason = "saved" THEN gone ELSE Emptied(gone)

Finish(reason) == outcome' = reason /\ t' = Finished(t, reason)

GivenUp(u) == IF u.queued = NoJob THEN u ELSE [u EXCEPT !.queued.overtaken = TRUE]

(* The endings that happen to a session write a stop before they finish,   *)
(* if the cover shows a movement; one that has come back shows none.       *)
AsyncEnd(reason) ==
    /\ Live /\ awaiting.end = "none"
    /\ job' = OvertakenTask(job)
    /\ asked' = FALSE
    /\ \/ /\ motor # "still" /\ reason \in {"expired", "unloaded"}
          /\ awaiting' = [awaiting EXCEPT !.end = reason]
          /\ t' = GivenUp(t)
          /\ UNCHANGED outcome
       \/ /\ motor = "still" \/ reason \notin {"expired", "unloaded"} \/ astray
          /\ Finish(reason) /\ UNCHANGED awaiting
    /\ UNCHANGED <<World, written, User, ours, astray>>

AsyncEndReturns ==
    /\ awaiting.end # "none"
    /\ \E refused \in BOOLEAN :
         /\ refused \/ late = "none"
         /\ motor' = IF refused THEN motor ELSE "still"
         /\ job' = OvertakenTask(IF refused THEN job ELSE Aborted(job))
    /\ IF Live THEN Finish(awaiting.end) ELSE UNCHANGED <<t, outcome>>
    /\ awaiting' = [awaiting EXCEPT !.end = "none"]
    /\ asked' = FALSE
    /\ UNCHANGED <<place, late, written, User, ours, astray>>

AnythingMeasured ==
    \/ t.m.height = "tape" \/ t.m.opening # "none" \/ t.m.closing \/ t.m.slat
    \/ t.m.descent # <<>> \/ t.m.ascent # <<>> \/ t.m.deviation # "none" \/ t.named

(* Mutant of AsyncLeaseExpired: a session that waits for a press is kept.   *)
LeaseOnlyWhenNothingIsAwaited == t.press = "none" /\ AsyncEnd("expired")

AsyncCancel == ~away /\ AsyncEnd("cancelled")
Leave == ~away /\ ~AnythingMeasured /\ AsyncEnd("left")
AsyncLeaseExpired == AsyncEnd("expired")
AsyncUnload == AsyncEnd("unloaded")

-----------------------------------------------------------------------------
(* The save: the profile a first calibration measured, then the record.    *)
(* Each is on its way to the disk while other verbs are served.            *)

Targets(u) ==
    CASE u.path = "path_a" -> {"profile", "cover_only"}
      [] u.path = "path_b" -> {"profile"}
      [] OTHER -> {"cover_only"}

AsyncSave ==
    /\ Live /\ ~away /\ awaiting.save = "none"
    /\ Screens[t.step].state = "review" /\ t.review
    /\ \E target \in Targets(t) :
         LET first == target = "profile" /\ t.path = "path_a"
         IN /\ awaiting' = [awaiting EXCEPT !.save = IF first THEN "profile" ELSE "record"]
            /\ written' = IF first THEN [written EXCEPT !.profile = TRUE]
                          ELSE [written EXCEPT !.record = TRUE]
    /\ UNCHANGED <<t, job, outcome, World, User, asked, ours, astray>>

(* The record is built from the result the session holds now: with none    *)
(* the write fails.                                                        *)
ProfileSaved ==
    /\ awaiting.save = "profile"
    /\ awaiting' = [awaiting EXCEPT !.save = IF t.review THEN "record" ELSE "none"]
    /\ written' = IF t.review THEN [written EXCEPT !.record = TRUE] ELSE written
    /\ UNCHANGED <<t, job, outcome, World, User, asked, ours, astray>>

RecordSaved ==
    /\ awaiting.save = "record"
    /\ awaiting' = [awaiting EXCEPT !.save = "none"]
    /\ IF Live THEN Finish("saved") ELSE UNCHANGED <<t, outcome>>
    /\ UNCHANGED <<job, World, written, User, asked, ours, astray>>

-----------------------------------------------------------------------------
(* The user goes away for good, with a movement or a press still to come   *)
(* or with neither.                                                        *)
WalkAway ==
    /\ ~away /\ away' = TRUE
    /\ UNCHANGED <<t, job, awaiting, outcome, World, written, touched, asked, ours, astray>>

Verbs == AsyncAct \/ AsyncSubmit \/ AsyncStop \/ AsyncCancel \/ Leave \/ AsyncSave
Pump == PumpTakes \/ FirstStopReturns \/ FrameWritten \/ JobReturns
Answered == AsyncStopReturns \/ AsyncEndReturns \/ ProfileSaved \/ RecordSaved
Timers == AsyncPressExpired \/ AsyncLeaseExpired
Shutter == LateFrame \/ MotorArrives \/ SwitchStops \/ (\E dir \in Directions : SwitchMoves(dir))

Next == Verbs \/ Pump \/ Answered \/ Timers \/ AsyncUnload \/ Shutter \/ WalkAway

(* The task, the stores and the gateway answer, the motor gets to its end  *)
(* stop, and the lease runs out once nobody touches it any more.           *)
Fairness ==
    /\ WF_vars(Pump) /\ WF_vars(MotorArrives)
    /\ WF_vars(AsyncStopReturns) /\ WF_vars(AsyncEndReturns)
    /\ WF_vars(ProfileSaved) /\ WF_vars(RecordSaved)
    /\ WF_vars(away /\ AsyncLeaseExpired)

Spec == Init /\ [][Next]_vars
FairSpec == Spec /\ Fairness

-----------------------------------------------------------------------------
(* Properties.                                                             *)

(* No movement is called for once the session has given it up: a stop, an  *)
(* interruption, a press that never came or the end of the session reach   *)
(* every movement queued or taken up before them, also one that is waiting *)
(* for its own first stop, unless an answer was accepted since.            *)
Calls == job'.phase = "called" /\ (job.phase # "called" \/ (job' # job /\ ~job'.overtaken))
OnlyWhatWasAsked == [][Calls => asked']_vars

(* Whenever the session says at which end stop it has put the shutter, and *)
(* so leaves the next homing out, the shutter stands there, whatever the   *)
(* wall switch and the stops did in between - if the homing that put it    *)
(* there had arrived when it came back, which the session does not ask.    *)
KnowsWhereItIs ==
    Live /\ t.at # "none" /\ t.movement = "none" /\ ~astray => place = t.at /\ motor = "still"

(* A stopwatch starts, and a measured run is driven, from the end stop the *)
(* run leaves.  It can be elsewhere in two ways: the homing before it had  *)
(* not arrived, or the wall switch moved the shutter in the run's own      *)
(* direction before the frame went out, which the session takes for its    *)
(* own movement.                                                           *)
StartsFromItsEnd ==
    job.phase = "called" /\ ~Void /\ job.job \in {"start", "fraction"} /\ ~ours /\ ~astray
      => place = OtherEnd(job.dir) /\ motor = "still"

Once(seq, stages) == ToSet(seq) = stages /\ Len(seq) = Cardinality(stages)

(* A review is built from one reading of every tape stage walked to get    *)
(* there, none missing and none kept from a reading that was repeated or   *)
(* whose shutter somebody moved; from an ascent whose lift-off was timed in *)
(* the same attempt; and from the check, when the plan has one.            *)
ReviewIsComplete ==
    Live /\ Screens[t.step].state = "review" =>
      LET walked == {t.plan[i] : i \in 1 .. t.index}
      IN /\ t.review
         /\ Once(t.m.descent, walked \cap Descents)
         /\ Once(t.m.ascent, walked \cap Ascents)
         /\ "height_read" \in walked => t.m.height = "tape"
         /\ "open_timed" \in walked => t.m.opening = "timed" /\ t.m.slat
         /\ "close_timed" \in walked => t.m.closing
         /\ walked \cap {"verify", "verify_b"} # {} => t.m.deviation # "none"

(* A session whose user has gone away ends, and nothing of it goes on      *)
(* driving the shutter.                                                    *)
AbandonedSessionEnds == away ~> (~Live /\ job.phase = "none")

(* The screen that says a step was interrupted has no movement of the      *)
(* session behind it: "the screen becomes `problem_interrupted` at once    *)
(* and the job ... is left to finish into nothing" (async_stop).           *)
InterruptedIsAtRest ==
    Live /\ t.step = "problem_interrupted" =>
      t.queued = NoJob /\ (job.phase = "none" \/ job.overtaken)

(* A save of a first calibration writes "the profile *and* the assignment" *)
(* (the docstring of _async_store_the_result), whatever verb is accepted   *)
(* while the first of the two is being written.                            *)
SaveIsWhole == awaiting.save = "none" /\ written.profile => written.record
=============================================================================
