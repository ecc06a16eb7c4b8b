--------------------------- MODULE CoverMotion ---------------------------
(***************************************************************************)
(* The time-based estimate of a basic cover (cover.py, MyHOMECover with    *)
(* advanced = False and no slats): the movement clock and its re-bases on  *)
(* the delivery of the frame and on the actuator's own status, the         *)
(* end-of-run deadline with its generations, the stop of a timed run, the  *)
(* echo window, and the handling of bus frames; around it the command path *)
(* (in the order CommandPath shows for one device), the gateway, the motor *)
(* and somebody at the wall keypad.                                        *)
(*                                                                         *)
(* The unit of time is a tick and the unit of position is what the motor   *)
(* travels in one, so a travel time is a distance.  Instants are kept as   *)
(* ages; an age stops where nothing tells larger ones apart.               *)
(***************************************************************************)
EXTENDS Integers, Sequences

CONSTANTS Full,          \* opening_time = closing_time: the whole travel
          StartDelay,    \* start_delay
          StopLatency,   \* stop_latency
          EchoWindow,    \* STOP_ECHO_WINDOW_SEC = MOTOR_START_WINDOW_SEC
          MirrorWindow,  \* MOTOR_MIRROR_WINDOW_SEC
          RecheckDelay,  \* ECHO_RECHECK_DELAY_SEC
          MinStart,      \* the motor starts this long after its frame is written
          MaxStart,      \* ... at the earliest and at the latest
          MaxLag,        \* the gateway answers a write within this
          MaxFrames,     \* bound: frames the cover sends in a behaviour
          MaxPresses,    \* bound: operations of the keypad in a behaviour
          LostAnswers    \* whether a frame may be written and reported dropped

ASSUME MotionAssumption ==
    /\ Full \in Nat \ {0}
    /\ StartDelay \in Nat /\ StopLatency \in Nat
    /\ EchoWindow \in Nat \ {0} /\ MirrorWindow \in Nat /\ RecheckDelay \in Nat
    /\ MinStart \in Nat /\ MaxStart \in Nat /\ MinStart <= MaxStart
    /\ MaxLag \in Nat /\ MaxFrames \in Nat /\ MaxPresses \in Nat
    /\ LostAnswers \in BOOLEAN

VARIABLES
    cover,    \* the entity's fields (see CoverType)
    line,     \* its frames in the command path, oldest first
    wire,     \* the frame that was written and not answered yet
    nextId,   \* the number of the next frame
    motor,    \* what the motor does: "up", "down" or "none"
    shaft,    \* where the shutter really is
    starting, \* a direction the actuator has taken and not started yet
    stopping, \* ticks until the motor obeys a stop, or Off
    relay,    \* copies of the last frame the gateway may still put on the monitor
    asked,    \* a status request of the echo re-check is out
    presses,  \* operations of the keypad so far (history)
    slip,     \* how far the estimate may be off the motor by now (history)
    exact     \* nothing happened yet that the estimate cannot follow (history)

motionVars == <<cover, line, wire, nextId, motor, shaft, starting, stopping, relay,
                asked, presses, slip, exact>>
pathVars == <<line, wire, nextId>>
actuatorVars == <<motor, shaft, starting, stopping>>

Directions == {"up", "down"}
Off == -1         \* a timer that is not armed, an instant that is not set
Unknown == -1     \* no position yet
NoTarget == -1    \* a free run
NoStop == [frame |-> 0, interrupted |-> "none", frozen |-> 0, base |-> 0, age |-> 0, rebased |-> FALSE]
Idle == [id |-> 0, kind |-> "none", age |-> 0]
NotStarting == [dir |-> "none", age |-> 0]
Silent == [what |-> {}, left |-> 0]

Least(a, b) == IF a <= b THEN a ELSE b
Greatest(a, b) == IF a >= b THEN a ELSE b

\* No age of a run or of a stop beyond Horizon is told apart from it, and no age
\* of a frame of our own beyond Memory.
Horizon == Full + StartDelay + EchoWindow + MaxLag + 1
Memory == Greatest(StartDelay + EchoWindow, MirrorWindow) + 1

--------------------------------------------------------------------------
(* The model of one run *)

\* Mutant of Travel: the end stops are forgotten.
TravelUnclamped(dir, from, elapsed) == IF dir = "up" THEN from + elapsed ELSE from - elapsed

\* _travel: where `elapsed` of motor time leads.
Travel(dir, from, elapsed) ==
    IF dir = "up" THEN Least(from + elapsed, Full) ELSE Greatest(from - elapsed, 0)

\* _travel_time: the motor time between two positions.
TravelTime(dir, from, to) == IF dir = "up" THEN to - from ELSE from - to

EndStopOf(dir) == IF dir = "up" THEN Full ELSE 0

\* _estimate
Estimate(m, ahead) ==
    IF m.moving = "none" THEN m.pos
    ELSE Travel(m.moving, m.from, Greatest(0, m.clock + ahead))

\* _move_duration
Duration(m) == TravelTime(m.moving, m.from, m.end)

\* _stop_offset
StopOffset(m) == IF m.target = NoTarget THEN 0 ELSE StopLatency

\* How far the run is from the instant its deadline belongs at.
Remaining(m) == Duration(m) - StopOffset(m) - m.clock

\* A timer that has fired cannot be taken back: its generation is outdated.
Outdated(fired) == IF fired = {} THEN {} ELSE {"stale"}

\* _cancel_timers
CancelTimers(m) ==
    [m EXCEPT !.awaited = 0, !.stop = NoStop, !.timer = Off, !.recheck = Off,
              !.fired = Outdated(@)]

\* _arm_deadline_in, _arm_movement_deadline
ArmIn(m, delay) == [m EXCEPT !.timer = Greatest(0, delay), !.fired = Outdated(@)]
ArmDeadline(m) == ArmIn(m, Remaining(m))

\* _finish_movement
Finish(m, position) ==
    [CancelTimers(m) EXCEPT
        !.moving = "none", !.from = 0, !.clock = 0, !.target = NoTarget, !.end = 0,
        !.ownFreeRun = FALSE, !.afterRestart = FALSE,
        !.pos = IF position = Unknown THEN @ ELSE position]

\* _start_movement: frame # 0 is a movement of our own and the frame it waits for.
Start(m, dir, target, frame) ==
    LET now == Estimate(m, 0)
        begun == [CancelTimers(m) EXCEPT
            !.moving = dir,
            !.from = IF now # Unknown THEN now ELSE EndStopOf(IF dir = "up" THEN "down" ELSE "up"),
            !.clock = IF frame # 0 THEN -StartDelay ELSE 0,
            !.target = target,
            !.end = IF target = NoTarget THEN EndStopOf(dir) ELSE target,
            !.written = Off, !.started = FALSE,
            !.ownAt = IF frame # 0 THEN 0 ELSE Off,
            !.ownCommand = IF frame # 0 THEN dir ELSE "none",
            !.stoppedDir = "none",
            !.ownFreeRun = (frame # 0 /\ target = NoTarget),
            !.afterRestart = FALSE]
    IN  IF Duration(begun) <= 0
        THEN Finish(begun, begun.end)
        ELSE [ArmDeadline(begun) EXCEPT !.awaited = frame]

\* Mutant of ContinueToEndStop: the run goes on and its deadline is not put back.
ContinueUntimed(m) == [m EXCEPT !.target = NoTarget, !.end = EndStopOf(m.moving), !.ownFreeRun = TRUE]

\* _continue_to_end_stop: the stop of this run was refused or lost.
ContinueToEndStop(m) ==
    IF m.moving = "none" THEN m
    ELSE [Start(m, m.moving, NoTarget, 0) EXCEPT
            !.ownAt = m.ownAt, !.ownCommand = m.ownCommand,
            !.afterRestart = (m.ownAt # Off),
            !.ownFreeRun = TRUE]

--------------------------------------------------------------------------
(* What the gateway reports about a frame *)

\* Re-basing the clock: a stop that is out was planned against the old one.
Rebased(m, clock) ==
    [m EXCEPT !.clock = clock,
              !.stop = IF @ = NoStop THEN @ ELSE [@ EXCEPT !.rebased = TRUE]]

\* Mutant of MoveDelivered: the deadline is re-armed though a stop is out.
MoveDeliveredRearming(m, age) ==
    LET heard == [m EXCEPT !.awaited = 0, !.written = age,
                           !.ownAt = IF m.ownCommand # "none" /\ @ # Off THEN age ELSE @]
    IN  IF age - StartDelay >= m.clock THEN heard ELSE ArmDeadline(Rebased(heard, age - StartDelay))

\* _apply_movement_delivery, delivered: written `age` ago.
MoveDelivered(m, age) ==
    LET heard == [m EXCEPT !.awaited = 0, !.written = age,
                           !.ownAt = IF m.ownCommand # "none" /\ @ # Off THEN age ELSE @]
        rebased == Rebased(heard, age - StartDelay)
    IN  IF age - StartDelay >= m.clock THEN heard
        ELSE IF m.stop = NoStop THEN ArmDeadline(rebased) ELSE rebased

\* _apply_movement_delivery, dropped: nothing moved.
MoveDropped(m) ==
    [Finish(m, m.from) EXCEPT !.ownCommand = "none", !.ownAt = Off, !.stoppedDir = "none"]

\* _mark_own_stop
MarkOwnStop(m, interrupted, age) ==
    [m EXCEPT !.ownAt = age, !.ownCommand = "none", !.stoppedDir = interrupted]

\* Mutant of RestingPlace: the shutter is frozen where it was when the stop was queued.
RestingPlaceAsQueued(m, age) == m.stop.frozen

\* Where a stop written `age` ago leaves the shutter.
RestingPlace(m, age) ==
    LET delay == m.stop.age - age
        elapsed == IF m.stop.rebased THEN m.clock - age + StopLatency ELSE m.stop.base + delay
    IN  IF (delay > 0 \/ m.stop.rebased) /\ m.stop.interrupted # "none"
        THEN Travel(m.stop.interrupted, m.from, Greatest(0, elapsed))
        ELSE m.stop.frozen

\* _apply_stop_delivery
StopDelivered(m, age) ==
    MarkOwnStop(Finish(m, RestingPlace(m, age)), m.stop.interrupted, age)
StopDropped(m) == ContinueToEndStop([m EXCEPT !.stop = NoStop])

\* The report goes to whoever still waits for the frame, and to nobody else.
Delivered(m, id, age) ==
    IF id = m.awaited THEN MoveDelivered(m, age)
    ELSE IF id = m.stop.frame THEN StopDelivered(m, age) ELSE m

\* Mutant of NotDelivered: a dropped stop is only forgotten by the gateway.
NotDeliveredMoveOnly(m, id) == IF id = m.awaited THEN MoveDropped(m) ELSE m

NotDelivered(m, id) ==
    IF id = m.awaited THEN MoveDropped(m)
    ELSE IF id = m.stop.frame THEN StopDropped(m) ELSE m

--------------------------------------------------------------------------
(* handle_event *)

\* Mutant of MotorAnswers: the frame our gateway relays at the write counts.
MotorAnswersAtOnce(m) ==
    /\ ~m.started
    /\ m.written # Off
    /\ m.stop = NoStop
    /\ m.written <= StartDelay + EchoWindow

\* _apply_motor_start: is this "moving" status the motor answering our frame?
MotorAnswers(m) ==
    /\ ~m.started
    /\ m.written # Off
    /\ m.stop = NoStop
    /\ m.written <= StartDelay + EchoWindow
    /\ m.written >= MirrorWindow

MotorStart(m) ==
    IF MotorAnswers(m) THEN ArmDeadline([m EXCEPT !.started = TRUE, !.clock = 0]) ELSE m

\* _is_echo: frame can only be the gateway repeating our own command.
IsEcho(m, frame) ==
    /\ m.ownAt # Off
    /\ frame = (IF m.ownCommand # "none" THEN "stop" ELSE m.stoppedDir)
    /\ m.ownAt < EchoWindow \/ (m.ownCommand # "none" /\ m.awaited # 0)

\* What ignoring it changes: the window is closed unless our frame still waits,
\* and an ambiguous frame is asked about.
Ignore(m) ==
    LET waits == m.ownCommand # "none" /\ m.awaited # 0
    IN  [m EXCEPT !.ownAt = IF waits THEN @ ELSE Off,
                  !.recheck = IF waits \/ m.ownCommand = "none" \/ m.afterRestart
                              THEN RecheckDelay ELSE @]

\* _reached_end_stop: END_STOP_MIN_FRACTION of the run is behind us.
ReachedEndStop(m) == m.ownFreeRun /\ m.moving # "none" /\ 4 * m.clock >= 3 * Duration(m)

\* handle_event for "opening", "closing" and "stopped".
Handle(m, frame) ==
    CASE frame = m.moving -> MotorStart(m)
      [] frame # m.moving /\ IsEcho(m, frame) -> Ignore(m)
      [] frame \in Directions \ {m.moving} /\ ~IsEcho(m, frame) -> Start(m, frame, NoTarget, 0)
      [] frame = "stop" /\ ~IsEcho(m, frame) ->
            Finish(m, IF ReachedEndStop(m) THEN m.end ELSE Estimate(m, 0))

\* The actuator's "stopped" overtakes the report of our stop: the movement is over, the
\* pending stop forgotten, and the gateway's late copy of the movement is no echo.
StopOutrun == cover.stop # NoStop /\ cover'.stop = NoStop

\* The monitor session shows the frame to the cover, or loses it.
Sees(frame) == cover' = Handle(cover, frame) \/ UNCHANGED cover

--------------------------------------------------------------------------
(* Commands.  A refused direction command changes nothing: no action.      *)

Resting ==
    /\ cover.moving = "none" /\ motor = "none" /\ starting = NotStarting
    /\ line = <<>> /\ wire = Idle

\* ... and the gateway has nothing left to repeat or to answer.
Settled == Resting /\ relay.what = {} /\ ~asked

Queue(kind) ==
    /\ nextId <= MaxFrames
    /\ line' = Append(line, [id |-> nextId, kind |-> kind])
    /\ nextId' = nextId + 1
    /\ UNCHANGED wire

\* _async_send_direction, and the movement it starts.
SendDirection(dir, target) ==
    /\ Queue(dir)
    /\ cover' = Start(cover, dir, target, nextId)
    /\ exact' = (exact /\ Settled)
    /\ UNCHANGED <<actuatorVars, relay, asked, presses, slip>>

\* _async_send_stop taken by the command path.
StopQueued(m, frozen, base) ==
    [m EXCEPT !.timer = Off, !.fired = Outdated(@),
              !.stop = [frame |-> nextId, interrupted |-> m.moving, frozen |-> frozen,
                        base |-> base, age |-> 0, rebased |-> FALSE]]

\* A run continued before its motor is due loses its start_delay
\* (_continue_to_end_stop starts the clock at once).
Restartable == cover.moving # "none" => cover.clock >= 0

\* async_open_cover, async_close_cover
OpenOrClose == \E dir \in Directions : SendDirection(dir, NoTarget)

\* No other stop is out, and there is something to stop or nothing going on.
PlainStop == cover.stop = NoStop /\ (cover.moving # "none" \/ Settled)

\* async_stop_cover
StopCover ==
    /\ Queue("stop")
    /\ cover' = StopQueued(cover, Estimate(cover, StopLatency),
                           (IF cover.moving = "none" THEN 0 ELSE cover.clock) + StopLatency)
    /\ exact' = (exact /\ PlainStop)
    /\ UNCHANGED <<actuatorVars, relay, asked, presses, slip>>

\* async_set_cover_position short of the two ends, from a known position; the
\* other cases of it are OpenOrClose and StopCover.
SetPosition(target) ==
    LET current == Estimate(cover, 0)
    IN  /\ current # Unknown /\ target # current
        /\ SendDirection(IF target > current THEN "up" ELSE "down", target)

--------------------------------------------------------------------------
(* The end-of-run deadline *)

TimerFires ==
    /\ cover.timer = 0
    /\ cover' = [cover EXCEPT !.timer = Off, !.fired = @ \cup {"current"}]
    /\ UNCHANGED <<pathVars, actuatorVars, relay, asked, presses, slip, exact>>

DeadlineOutdated ==
    /\ "stale" \in cover.fired
    /\ cover' = [cover EXCEPT !.fired = @ \ {"stale"}]
    /\ UNCHANGED <<pathVars, actuatorVars, relay, asked, presses, slip, exact>>

\* The coroutine of the current generation runs.
DeadlineRuns == "current" \in cover.fired
Ran == [cover EXCEPT !.fired = @ \ {"current"}]

\* Our frame is still on its way, or the clock moved on: arm it again.
DeadlineTooEarly ==
    /\ DeadlineRuns
    /\ cover.awaited # 0 \/ Remaining(cover) > 0
    /\ cover' = IF cover.awaited # 0 THEN ArmIn(Ran, Duration(cover)) ELSE ArmDeadline(Ran)
    /\ UNCHANGED <<pathVars, actuatorVars, relay, asked, presses, slip, exact>>

RunIsOver == DeadlineRuns /\ cover.awaited = 0 /\ Remaining(cover) <= 0

DeadlineFreeRun ==
    /\ RunIsOver
    /\ cover.target = NoTarget
    /\ cover' = Finish(Ran, cover.end)
    /\ UNCHANGED <<pathVars, actuatorVars, relay, asked, presses, slip, exact>>

DeadlineStops ==
    /\ RunIsOver
    /\ cover.target # NoTarget
    /\ Queue("stop")
    /\ cover' = StopQueued(Ran, cover.end, Duration(cover))
    /\ UNCHANGED <<actuatorVars, relay, asked, presses, slip, exact>>

\* The command path refuses the stop: the shutter runs on.
DeadlineStopRefused ==
    /\ RunIsOver
    /\ cover.target # NoTarget
    /\ cover' = ContinueToEndStop(Ran)
    /\ exact' = (exact /\ Restartable)
    /\ UNCHANGED <<pathVars, actuatorVars, relay, asked, presses, slip>>

\* _async_echo_recheck: ask the actuator, unless the estimate is running.
EchoRecheck ==
    /\ cover.recheck = 0
    /\ cover' = [cover EXCEPT !.recheck = Off]
    /\ asked' = (asked \/ cover.moving = "none" \/ cover.afterRestart)
    /\ UNCHANGED <<pathVars, actuatorVars, relay, presses, slip, exact>>

--------------------------------------------------------------------------
(* The command path and the gateway *)

\* How far one start of the motor can be from the one the clock assumes.
Jitter == Greatest(MaxStart - StartDelay, StartDelay - MinStart)

\* A frame is written: the actuator takes it, and the gateway may relay it.
Write ==
    /\ wire = Idle /\ line # <<>>
    /\ LET kind == Head(line).kind
       IN  /\ wire' = [id |-> Head(line).id, kind |-> kind, age |-> 0]
           /\ line' = Tail(line)
           /\ IF kind = "stop"
              THEN /\ stopping' = IF motor # "none" THEN StopLatency ELSE Off
                   /\ starting' = NotStarting
                   /\ relay' = [what |-> {motor} \cap Directions, left |-> EchoWindow]
                   /\ slip' = IF starting # NotStarting THEN slip + StopLatency ELSE slip
                   /\ UNCHANGED motor
              ELSE /\ relay' = [what |-> {"stop", kind}, left |-> MirrorWindow]
                   /\ slip' = slip + Jitter
                   /\ stopping' = Off
                   /\ IF motor = kind /\ stopping = Off
                      THEN UNCHANGED <<motor, starting>>
                      ELSE motor' = "none" /\ starting' = [dir |-> kind, age |-> 0]
    /\ UNCHANGED <<cover, nextId, shaft, asked, presses, exact>>

\* on_delivered, with the instant of the write.
Report ==
    /\ wire # Idle
    /\ cover' = Delivered(cover, wire.id, wire.age)
    /\ wire' = Idle
    /\ UNCHANGED <<line, nextId, actuatorVars, relay, asked, presses, slip, exact>>

\* on_dropped for a frame that was never written.
Drop ==
    /\ wire = Idle /\ line # <<>>
    /\ cover' = NotDelivered(cover, Head(line).id)
    /\ line' = Tail(line)
    /\ exact' = (exact /\ (Head(line).id = cover.stop.frame => Restartable))
    /\ UNCHANGED <<wire, nextId, actuatorVars, relay, asked, presses, slip>>

\* on_dropped for a frame that was written and never answered.
DropWritten ==
    /\ LostAnswers /\ wire # Idle
    /\ cover' = NotDelivered(cover, wire.id)
    /\ wire' = Idle
    /\ exact' = FALSE
    /\ UNCHANGED <<line, nextId, actuatorVars, relay, asked, presses, slip>>

\* The gateway repeats our frame on the monitor session.
Relay ==
    \E frame \in relay.what :
        /\ relay.left > 0
        /\ relay' = [relay EXCEPT !.what = @ \ {frame}]
        /\ cover' = Handle(cover, frame)
        /\ UNCHANGED <<pathVars, actuatorVars, asked, presses, slip, exact>>

--------------------------------------------------------------------------
(* The actuator and the keypad *)

MotorStarts ==
    /\ starting # NotStarting /\ starting.age >= MinStart
    /\ motor' = starting.dir
    /\ starting' = NotStarting
    /\ Sees(starting.dir)
    /\ UNCHANGED <<pathVars, shaft, stopping, relay, asked, presses, slip, exact>>

MotorStops ==
    /\ stopping = 0
    /\ motor' = "none"
    /\ starting' = NotStarting
    /\ stopping' = Off
    /\ Sees("stop")
    /\ exact' = (exact /\ ~StopOutrun)
    /\ UNCHANGED <<pathVars, shaft, relay, asked, presses, slip>>

AtEndStop == motor \in Directions /\ shaft = EndStopOf(motor)

HitsEndStop ==
    /\ AtEndStop
    /\ motor' = "none"
    /\ stopping' = Off
    /\ Sees("stop")
    /\ exact' = (exact /\ ~StopOutrun)
    /\ UNCHANGED <<pathVars, shaft, starting, relay, asked, presses, slip>>

KeypadMoves(dir) ==
    /\ presses < MaxPresses
    /\ presses' = presses + 1
    /\ motor' = dir
    /\ starting' = NotStarting
    /\ stopping' = Off
    /\ Sees(dir)
    /\ exact' = FALSE
    /\ UNCHANGED <<pathVars, shaft, relay, asked, slip>>

KeypadStops ==
    /\ presses < MaxPresses
    /\ motor # "none"
    /\ presses' = presses + 1
    /\ motor' = "none"
    /\ starting' = NotStarting
    /\ stopping' = Off
    /\ Sees("stop")
    /\ exact' = FALSE
    /\ UNCHANGED <<pathVars, shaft, relay, asked, slip>>

\* What the actuator says of itself.
Status == IF motor = "none" THEN "stop" ELSE motor

StatusAnswer ==
    /\ asked
    /\ asked' = FALSE
    /\ Sees(Status)
    /\ UNCHANGED <<pathVars, actuatorVars, relay, presses, slip, exact>>

--------------------------------------------------------------------------
(* Time *)

\* Nothing that is due is late: timers fire, coroutines run, the gateway and
\* the motor keep their bounds.
Due ==
    \/ cover.timer = 0 \/ cover.fired # {} \/ cover.recheck = 0
    \/ wire # Idle /\ wire.age >= MaxLag
    \/ starting # NotStarting /\ starting.age >= MaxStart
    \/ stopping = 0 \/ AtEndStop

Down(t) == IF t = Off THEN Off ELSE t - 1
Older(t) == IF t = Off THEN Off ELSE Least(t + 1, Memory)
Waited(stop) == IF stop = NoStop THEN stop ELSE [stop EXCEPT !.age = Least(@ + 1, Horizon)]

Tick ==
    /\ ~Due
    /\ cover' = [cover EXCEPT
           !.clock = IF cover.moving = "none" THEN 0 ELSE Least(@ + 1, Horizon),
           !.timer = Down(@), !.recheck = Down(@),
           !.written = Older(@), !.ownAt = Older(@),
           !.stop = Waited(@)]
    /\ wire' = IF wire = Idle THEN Idle ELSE [wire EXCEPT !.age = @ + 1]
    /\ shaft' = IF motor = "none" THEN shaft ELSE Travel(motor, shaft, 1)
    /\ starting' = IF starting = NotStarting THEN starting ELSE [starting EXCEPT !.age = @ + 1]
    /\ stopping' = Down(stopping)
    /\ relay' = IF relay.left <= 1 THEN Silent ELSE [relay EXCEPT !.left = @ - 1]
    /\ UNCHANGED <<line, nextId, motor, asked, presses, slip, exact>>

--------------------------------------------------------------------------
CoverInit ==
    [moving |-> "none", from |-> 0, clock |-> 0, target |-> NoTarget, end |-> 0, pos |-> 0,
     ownAt |-> Off, ownCommand |-> "none", stoppedDir |-> "none",
     ownFreeRun |-> FALSE, afterRestart |-> FALSE,
     timer |-> Off, fired |-> {}, recheck |-> Off,
     awaited |-> 0, stop |-> NoStop, written |-> Off, started |-> FALSE]

\* Either the restored position is where the shutter is, or none is known.
MotionInit ==
    /\ shaft \in 0..Full
    /\ \E p \in {shaft, Unknown} : cover = [CoverInit EXCEPT !.pos = p] /\ exact = (p = shaft)
    /\ line = <<>> /\ wire = Idle /\ nextId = 1
    /\ motor = "none" /\ starting = NotStarting /\ stopping = Off
    /\ relay = Silent /\ asked = FALSE
    /\ presses = 0 /\ slip = 0

Command == OpenOrClose \/ StopCover \/ \E p \in 1..(Full - 1) : SetPosition(p)

Deadline ==
    \/ DeadlineOutdated \/ DeadlineTooEarly \/ DeadlineFreeRun
    \/ DeadlineStops \/ DeadlineStopRefused

Keypad == KeypadStops \/ \E dir \in Directions : KeypadMoves(dir)

MotionNext ==
    \/ Command \/ TimerFires \/ Deadline \/ EchoRecheck
    \/ Write \/ Report \/ Drop \/ DropWritten \/ Relay
    \/ MotorStarts \/ MotorStops \/ HitsEndStop \/ Keypad \/ StatusAnswer
    \/ Tick

MotionSpec == MotionInit /\ [][MotionNext]_motionVars

\* Time passes, the deadline and the re-check run, and the command path settles
\* every frame it took (EventuallyReported in CommandPath).
MotionFairness ==
    /\ WF_motionVars(Tick)
    /\ WF_motionVars(TimerFires \/ Deadline)
    /\ WF_motionVars(EchoRecheck)
    /\ WF_motionVars(Write \/ Report \/ Drop)
    /\ WF_motionVars(MotorStarts \/ MotorStops \/ HitsEndStop)

MotionFairSpec == MotionSpec /\ MotionFairness

--------------------------------------------------------------------------
(* Properties *)

CoverType ==
    [moving: Directions \cup {"none"}, from: 0..Full, clock: (-StartDelay)..Horizon,
     target: 0..Full \cup {NoTarget}, end: 0..Full, pos: 0..Full \cup {Unknown},
     ownAt: Nat \cup {Off}, ownCommand: Directions \cup {"none"},
     stoppedDir: Directions \cup {"none"}, ownFreeRun: BOOLEAN, afterRestart: BOOLEAN,
     timer: Nat \cup {Off}, fired: SUBSET {"current", "stale"}, recheck: Nat \cup {Off},
     awaited: Nat, written: Nat \cup {Off}, started: BOOLEAN,
     stop: [frame: Nat, interrupted: Directions \cup {"none"}, frozen: 0..Full \cup {Unknown},
            base: Int, age: Nat, rebased: BOOLEAN]]

\* The type invariant of the cover and of what surrounds it.
MotionTypeOK ==
    /\ cover \in CoverType
    /\ line \in Seq([id: Nat, kind: Directions \cup {"stop"}])
    /\ wire \in [id: Nat, kind: Directions \cup {"stop", "none"}, age: Nat]
    /\ nextId \in Nat
    /\ motor \in Directions \cup {"none"} /\ shaft \in 0..Full
    /\ starting \in [dir: Directions \cup {"none"}, age: Nat]
    /\ stopping \in Nat \cup {Off}
    /\ relay \in [what: SUBSET (Directions \cup {"stop"}), left: Nat]
    /\ asked \in BOOLEAN /\ presses \in Nat /\ slip \in Nat /\ exact \in BOOLEAN

Armed == cover.timer # Off \/ "current" \in cover.fired

\* No re-base, refusal, loss or restart leaves a movement without the thing that
\* ends it, and nothing ends it twice: while the entity shows a movement, either
\* its deadline is armed or its stop is out, never both; at rest no deadline is.
OneThingEndsARun ==
    /\ cover.moving # "none" => (Armed <=> cover.stop = NoStop)
    /\ cover.moving = "none" => ~Armed

\* A frame the cover waits for is still in the command path: no report can be
\* missed, and none is waited for that will never come.
InPath(id) == wire.id = id \/ \E i \in DOMAIN line : line[i].id = id
WaitsForLiveFrames ==
    /\ cover.awaited # 0 => InPath(cover.awaited)
    /\ cover.stop # NoStop => InPath(cover.stop.frame)

\* What the gateway repeats of our own commands never starts, ends or re-times a
\* movement, while nobody touches the keypad and every answer arrives.
EchoesChangeNothing ==
    [][Relay /\ exact => UNCHANGED <<cover.moving, cover.from, cover.clock, cover.pos>>]_motionVars

Apart(a, b) == Greatest(a - b, b - a)

\* Once everything has come to rest the position is the shutter's own: every run
\* adds at most the jitter of its start, and the coasting of a stop that caught
\* the motor before it turned; however long its frames and its stop waited, and
\* also when they were dropped or refused.
EstimateFollowsTheMotor ==
    exact /\ Resting => Apart(cover.pos, shaft) <= slip

\* Every movement the entity shows comes to an end.
EveryRunEnds == []<>(cover.moving = "none")
==========================================================================
