------------------------- MODULE CalibrationRuns -------------------------
(***************************************************************************)
(* The guided runner of cover.py: the primitives a calibration drives a    *)
(* basic cover with (async_calib_home, _start, _run_fraction, _stop), the  *)
(* service cover_calibration_run that is made of them, the lock of the     *)
(* gateway they take, the stop an aborted run owes, and the event a reload *)
(* waits for (config_flow.py).  The clients are a conversation, which      *)
(* marks a cover as calibrating while its dialog or screen is open, runs   *)
(* one primitive at a time, may stop beside it and may be closed in the    *)
(* middle of it, and the service.                                          *)
(*                                                                         *)
(* Places are kept to what a run distinguishes: the two end stops and      *)
(* between them.  Time is left out: a timer may expire whenever it is      *)
(* armed, except that a free run of the estimate does not end while the    *)
(* motor is on that very run (CoverMotion has the clocks).                 *)
(***************************************************************************)
EXTENDS Integers, Sequences, FiniteSets, Functions

CONSTANTS Covers,  \* the basic covers of one gateway
          Guide,   \* the conversation's job, a task
          Stopper, \* the stop beside it, a task
          Bounds   \* bounds of a behaviour, one of these records (see BoundType)

Prims == {"home", "start", "timed"}
Nobody == "nobody"

\* guided: the covers a conversation is opened on; served: those the service is
\* called for; prims: what the conversation asks for; commands: how often the two ask
\* for something; losses: frames that are refused or dropped; others: commands and
\* writes of others.
BoundType == [guided : SUBSET Covers, served : SUBSET Covers, prims : SUBSET Prims,
              commands : Nat, losses : Nat, others : Nat]

ASSUME RunsAssumption ==
    /\ Covers # {} /\ IsFiniteSet(Covers)
    /\ Guide \notin Covers /\ Stopper \notin Covers /\ Guide # Stopper
    /\ Nobody \notin Covers \cup {Guide, Stopper} /\ {"no", "done"} \cap Covers = {}
    /\ \A b \in Bounds : b \in BoundType

VARIABLES
    entity,   \* cover -> the fields of the entity a run reads (see EntityType)
    line,     \* cover -> its frames in the command path, oldest first
    motor,    \* cover -> what its motor does and where the shutter stands
    lock,     \* calibration_lock: who holds it and who waits for it
    talk,     \* the covers a conversation holds a calibration_session of
    task,     \* task -> the run it makes (see TaskType)
    settled,  \* cover -> _calib_settled
    reload,   \* "no", the cover whose run a reload waits for, or "done"
    writing,  \* the cover a write of the panel under way is about, or "no"
    bound,    \* the bounds of this behaviour, which do not change
    commands, \* what the conversation and the service asked for so far (history)
    losses,   \* frames refused or dropped so far (history)
    others,   \* commands and writes of others so far (history)
    owed,     \* cover -> an aborted run turned its motor and owes a stop (history)
    mixed     \* a run was reported that changed its model on the way, by a write that
              \* was not under way when it began (history)

runVars == <<entity, line, motor, lock, talk, task, settled, reload, writing, bound, commands,
             losses, others, owed, mixed>>
pathVars == <<line, losses>>

Tasks == Covers \cup {Guide, Stopper}   \* the service of a cover is named by it
Directions == {"up", "down"}
Ends == {"top", "bottom"}
EndOf(d) == IF d = "up" THEN "top" ELSE "bottom"
Opposite(d) == IF d = "up" THEN "down" ELSE "up"
AnyCover == CHOOSE c \in Covers : TRUE
Asleep == [prim |-> "none", pc |-> "idle", cover |-> AnyCover, dir |-> "up", sent |-> "none",
           stop |-> "none", shared |-> FALSE, newest |-> 0]

--------------------------------------------------------------------------
(* The entity: what CoverMotion details, as far as a run reads it          *)

\* _adopt_travel_model: what every next movement is timed by ...
AdoptTravelModel(e) == [e EXCEPT !.model = @ + 1]
\* ... and what a movement takes of it when it starts.
CurrentMovementModel(e) == e.model

\* async_apply_calibration: a movement in flight keeps its own model.
WithTheWrite(e) ==
    LET new == AdoptTravelModel(e)
    IN IF e.moving = "none" THEN [new EXCEPT !.run = CurrentMovementModel(new)] ELSE new

\* Mutant of Finish: the stop that is out is not forgotten.
FinishWithItsStop(e, place) ==
    [e EXCEPT !.moving = "none", !.place = place, !.from = place, !.awaited = FALSE, !.run = e.model]

\* _finish_movement: the next movement takes the model in force.
Finish(e, place) ==
    [e EXCEPT !.moving = "none", !.place = place, !.from = place, !.awaited = FALSE,
              !.pending = FALSE, !.run = CurrentMovementModel(e)]

\* _start_movement: the run takes the model as it stands and keeps it; one that
\* starts where it ends is over at once.
Start(e, d, ours) ==
    IF e.moving = "none" /\ e.place = EndOf(d)
    THEN [Finish(e, EndOf(d)) EXCEPT !.started = FALSE]
    ELSE [e EXCEPT !.moving = d, !.from = IF e.moving = "none" THEN e.place ELSE "between",
                   !.awaited = ours, !.pending = FALSE, !.started = FALSE,
                   !.run = CurrentMovementModel(e)]

\* _continue_to_end_stop
Continue(e) == IF e.moving = "none" THEN e ELSE Start(e, e.moving, FALSE)

--------------------------------------------------------------------------
(* The command path, the motor and the keypad                              *)

\* A task waits for its last direction frame and its last stop.
Forgotten(f, kind, by) ==
    IF f.by = by /\ (f.kind = "stop") = (kind = "stop") THEN [f EXCEPT !.by = Nobody] ELSE f

Queue(c, kind, by) ==
    /\ reload # "done"
    /\ line' = [d \in Covers |->
            [i \in DOMAIN line[d] |-> Forgotten(line[d][i], kind, by)]
                \o (IF d = c THEN <<[kind |-> kind, by |-> by]>> ELSE <<>>)]
    /\ UNCHANGED losses

Lose == losses < bound.losses /\ losses' = losses + 1

\* send() answers False; a gateway that is closed takes nothing.
Refuse ==
    /\ IF reload = "done" THEN UNCHANGED losses ELSE Lose
    /\ UNCHANGED line

\* What a frame does to the motor; it stands still against an end stop.
Obeys(m, kind) ==
    IF kind = "stop" \/ m.place = EndOf(kind) THEN [m EXCEPT !.turns = "none"]
    ELSE [turns |-> kind, place |-> "between"]

\* The entity listens to its last direction frame and its last stop only
\* (_apply_movement_delivery, _apply_stop_delivery); _direction_delivery is the
\* last direction frame.
Heard(e, kind, last, taken) ==
    LET fate == IF taken THEN "written" ELSE "dropped"
        known == IF last /\ kind # "stop" THEN [e EXCEPT !.direction = fate] ELSE e
    IN  CASE last /\ kind # "stop" /\ e.awaited /\ taken -> [known EXCEPT !.awaited = FALSE]
          [] last /\ kind # "stop" /\ e.awaited /\ ~taken -> Finish(known, e.from)
          [] last /\ kind = "stop" /\ e.pending /\ taken -> [Finish(known, "between") EXCEPT !.stopped = TRUE]
          [] last /\ kind = "stop" /\ e.pending /\ ~taken -> Continue([known EXCEPT !.pending = FALSE])
          [] OTHER -> known

\* The oldest frame of a cover is written and reported, or dropped: the entity and
\* the task that waits for it are told.
Decided(c, taken) ==
    LET f == Head(line[c])
        last == ~\E i \in 2..Len(line[c]) : (line[c][i].kind = "stop") = (f.kind = "stop")
        fate == IF taken THEN "written" ELSE "dropped"
    IN  /\ line' = [line EXCEPT ![c] = Tail(@)]
        /\ entity' = [entity EXCEPT ![c] = Heard(@, f.kind, last, taken)]
        /\ task' = IF f.by = Nobody \/ task[f.by].pc = "idle" THEN task
                   ELSE IF f.kind = "stop" THEN [task EXCEPT ![f.by].stop = fate]
                   ELSE [task EXCEPT ![f.by].sent = fate]

FrameTaken(c) ==
    /\ line[c] # <<>> /\ reload # "done"
    /\ Decided(c, TRUE)
    /\ motor' = [motor EXCEPT ![c] = Obeys(@, Head(line[c]).kind)]
    /\ UNCHANGED <<lock, talk, settled, reload, losses, others, owed, mixed, writing, bound, commands>>

FrameDropped(c) ==
    /\ line[c] # <<>>
    /\ Decided(c, FALSE)
    /\ IF reload = "done" THEN UNCHANGED losses ELSE Lose
    /\ UNCHANGED <<motor, lock, talk, settled, reload, others, owed, mixed, writing, bound, commands>>

MotorArrives(c) ==
    /\ motor[c].turns # "none"
    /\ motor' = [motor EXCEPT ![c] = [turns |-> "none", place |-> EndOf(@.turns)]]
    /\ UNCHANGED <<entity, pathVars, lock, talk, task, settled, reload, others, owed, mixed, writing, bound, commands>>

\* _apply_motor_start: the actuator says that the motor turns.
MotorReported(c) ==
    /\ motor[c].turns = entity[c].moving /\ entity[c].moving # "none"
    /\ ~entity[c].awaited /\ ~entity[c].pending /\ ~entity[c].started
    /\ entity' = [entity EXCEPT ![c].started = TRUE]
    /\ UNCHANGED <<pathVars, motor, lock, talk, task, settled, reload, others, owed, mixed, writing, bound, commands>>

\* The end of a free run: its deadline, or the actuator's own "stopped" there.
EstimateArrives(c) ==
    /\ entity[c].moving # "none" /\ ~entity[c].awaited /\ ~entity[c].pending
    /\ motor[c].turns # entity[c].moving
    /\ entity' = [entity EXCEPT ![c] = Finish(@, EndOf(@.moving))]
    /\ UNCHANGED <<pathVars, motor, lock, talk, task, settled, reload, others, owed, mixed, writing, bound, commands>>

\* Something this module does not drive: the keypad, the dashboard, the panel.
Other(c) ==
    /\ c \in bound.guided \cup bound.served
    /\ others < bound.others /\ others' = others + 1

\* Somebody at the wall keypad; the monitor shows it to the entity, or loses it.
Keypad(c, key) ==
    /\ Other(c)
    /\ motor' = [motor EXCEPT ![c] = Obeys(@, key)]
    /\ entity' \in {entity, [entity EXCEPT ![c] =
            IF key = @.moving THEN @
            ELSE IF key = "stop" THEN Finish(@, IF @.moving = "none" THEN @.place ELSE "between")
            ELSE Start(@, key, FALSE)]}
    /\ UNCHANGED <<pathVars, lock, talk, task, settled, reload, owed, mixed, writing, bound, commands>>

--------------------------------------------------------------------------
(* Commands for one cover                                                  *)

\* The task has work in hand inside a calibration_session of its cover.
InBlock(t) == task[t].pc \notin {"idle", "lock"}

\* Mutant of Calibrating: the primitives open no session of their own.
CalibratingByTalk(c) == c \in talk

\* calibrating: a conversation or a primitive has a session of the cover open.
Calibrating(c) == c \in talk \/ \E t \in Tasks : InBlock(t) /\ task[t].cover = c

\* _async_send_direction and the movement it starts; refused, the entity knows of
\* no direction frame any more.
DirectionQueued(c, d, by) ==
    /\ Queue(c, d, by)
    /\ entity' = [entity EXCEPT ![c] = [Start(@, d, TRUE) EXCEPT !.direction = "queued"]]
    /\ owed' = [owed EXCEPT ![c] = FALSE]

DirectionRefused(c) ==
    /\ Refuse
    /\ entity' = [entity EXCEPT ![c].direction = "none"]
    /\ UNCHANGED owed

\* async_stop_cover; refused, it only forgets the instant of the stop before.
StopQueued(c, by) ==
    /\ Queue(c, "stop", by)
    /\ entity' = [entity EXCEPT ![c].pending = TRUE, ![c].stopped = FALSE]
    /\ owed' = [owed EXCEPT ![c] = FALSE]

StopRefused(c) ==
    /\ Refuse
    /\ entity' = [entity EXCEPT ![c].stopped = FALSE]
    /\ owed' = [owed EXCEPT ![c] = FALSE]

\* Somebody opens or closes the cover in Home Assistant.
Dashboard(c, d) ==
    /\ Other(c)
    /\ DirectionQueued(c, d, Nobody) \/ DirectionRefused(c)
    /\ task' = [t \in Tasks |-> IF task[t].cover = c /\ InBlock(t)
                                THEN [task[t] EXCEPT !.shared = TRUE] ELSE task[t]]
    /\ UNCHANGED <<motor, lock, talk, settled, reload, mixed, writing, bound, commands>>

\* _refuse_if_busy, but for the cover whose own session is saving.
RefusedAsBusy(holder) == writing # "no" \/ \E d \in Covers \ holder : Calibrating(d)

\* async_write begins: a command of the panel, or the save of the conversation, which it
\* asks for on its review, when no run of its own is under way.
WriteBegins(c, holder) ==
    /\ holder = {} \/ (holder = talk /\ \A t \in Tasks : ~InBlock(t))
    /\ ~RefusedAsBusy(holder) /\ reload # "done"
    /\ Other(c)
    /\ writing' = c
    /\ UNCHANGED <<entity, pathVars, motor, lock, talk, task, settled, reload, owed, mixed, bound, commands>>

\* It has awaited its saves, and the signal reaches the covers that are still set up,
\* whatever has begun in the meantime; or it failed, or changed nothing of this cover.
ApplyCalibration(c) ==
    /\ writing = c /\ writing' = "no"
    /\ \/ UNCHANGED entity
       \/ reload # "done" /\ entity' = [entity EXCEPT ![c] = WithTheWrite(@)]
    /\ UNCHANGED <<pathVars, motor, lock, talk, task, settled, reload, others, owed, mixed, bound, commands>>

--------------------------------------------------------------------------
(* The lock and the beginning of a run                                     *)

Run(prim, pc, c, d) == [Asleep EXCEPT !.prim = prim, !.pc = pc, !.cover = c, !.dir = d]

\* Releasing it wakes who waits first; until that task runs, and takes itself off
\* the waiters, the lock is free.
Released(t) == IF lock.holder = t THEN [lock EXCEPT !.holder = Nobody] ELSE lock
Without(waiters, t) == IF waiters # <<>> /\ Head(waiters) = t THEN Tail(waiters) ELSE waiters

\* The newest model that is in force or, written already, on its way to the cover.
Newest(c) == entity[c].model + (IF writing = c THEN 1 ELSE 0)

\* The direction frame of the task's own run goes out, and the run waits at pc.
Sent(t, prim, pc, c, d, dir) ==
    /\ DirectionQueued(c, dir, t)
    /\ task' = [task EXCEPT ![t] =
            [Run(prim, pc, c, d) EXCEPT !.sent = "queued", !.newest = Newest(c)]]

\* _calib_idle_guard
AtRest(c) == entity[c].moving = "none"

\* A homing: the service homes to the end opposite to its run.
Homing(t, c, d, prim) ==
    /\ Sent(t, prim, "homing", c, d, IF prim = "service" THEN Opposite(d) ELSE d)
    /\ UNCHANGED settled

\* The direction frame of a measured run, which from here on has not settled.
Measuring(t, c, d, prim) ==
    /\ Sent(t, prim, "delivery", c, d, d)
    /\ settled' = [settled EXCEPT ![c] = FALSE]

\* async_calib_start, for the user to watch, and _async_calib_timed_run
FreeRun(t, c, d) == Measuring(t, c, d, "start")
TimedRun(t, c, d, prim) == Measuring(t, c, d, prim)

\* What a task does once it has the lock.  A run that finds the cover moving, or
\* whose frame is refused, is over at once (problem_busy, not_delivered).
Drive(t, c, d, prim) ==
    /\ \/ /\ prim = "home" \/ AtRest(c)
          /\ \/ /\ \/ prim \in {"home", "service"} /\ Homing(t, c, d, prim)
                   \/ prim = "start" /\ FreeRun(t, c, d)
                   \/ prim = "timed" /\ TimedRun(t, c, d, prim)
                /\ lock' = [holder |-> t, waiters |-> Without(lock.waiters, t)]
             \/ /\ DirectionRefused(c)
                /\ lock' = [lock EXCEPT !.waiters = Without(@, t)]
                /\ task' = [task EXCEPT ![t] = Asleep]
                /\ UNCHANGED settled
       \/ /\ prim # "home" /\ ~AtRest(c) /\ t \in Range(lock.waiters)
          /\ lock' = [lock EXCEPT !.waiters = Without(@, t)]
          /\ task' = [task EXCEPT ![t] = Asleep]
          /\ UNCHANGED <<entity, pathVars, settled, owed>>
    /\ UNCHANGED <<motor, talk, reload, others, mixed, writing, bound>>

\* async with lock: taken at once when nobody holds it and nobody waits for it.
Take(t, c, d, prim) ==
    \/ /\ lock.holder = Nobody /\ lock.waiters = <<>>
       /\ Drive(t, c, d, prim)
    \/ /\ lock.holder # Nobody \/ lock.waiters # <<>>
       /\ lock' = [lock EXCEPT !.waiters = Append(@, t)]
       /\ task' = [task EXCEPT ![t] = Run(prim, "lock", c, d)]
       /\ UNCHANGED <<entity, pathVars, motor, talk, settled, reload, others, owed, mixed, writing, bound>>

\* The lock wakes the one who waits longest.
Woken(t) ==
    /\ lock.holder = Nobody /\ lock.waiters # <<>> /\ Head(lock.waiters) = t
    /\ Drive(t, task[t].cover, task[t].dir, task[t].prim)
    /\ UNCHANGED commands

\* Something the conversation or the service asks for.
Command == commands < bound.commands /\ commands' = commands + 1

\* _calibration_claim: refused while another calibration drives a shutter of the
\* gateway (problem_busy), which changes nothing.
Claimable == lock.holder = Nobody

\* async_calib_home, async_calib_start, async_calib_run_fraction
GuideRuns(c, d, prim) ==
    /\ c \in talk /\ task[Guide].pc = "idle"
    /\ Claimable /\ Command
    /\ Take(Guide, c, d, prim)

\* async_calibration_run: refused while the cover is calibrating; then it waits.
ServiceCalled(c, d) ==
    /\ c \in bound.served /\ task[c].pc = "idle" /\ ~Calibrating(c) /\ reload # "done"
    /\ Command
    /\ Take(c, c, d, "service")

--------------------------------------------------------------------------
(* The end of a run *)

\* The wait of _async_calib_home: the movement ended, or `bound` has passed since
\* the call - which counts the time the frame spends in the command path, so the
\* shutter may be on its way.
Homed(t) == task[t].pc = "homing"

\* The task is done with the lock and with its cover.
Over(t) ==
    /\ task' = [task EXCEPT ![t] = Asleep]
    /\ lock' = Released(t)

HomeDone ==
    /\ Homed(Guide)
    /\ Over(Guide)
    /\ UNCHANGED <<entity, pathVars, motor, talk, settled, reload, others, owed, mixed, writing, bound, commands>>

\* The service goes on with its timed run.
ServiceHomed(c) ==
    /\ Homed(c)
    /\ \/ TimedRun(c, c, task[c].dir, "service") /\ UNCHANGED lock
       \/ DirectionRefused(c) /\ Over(c) /\ UNCHANGED settled
    /\ UNCHANGED <<motor, talk, reload, others, mixed, writing, bound, commands>>

\* _async_calibration_started: the frame was written ...
DeliveryKnown(t) ==
    /\ task[t].pc = "delivery" /\ task[t].sent = "written"
    /\ task' = [task EXCEPT ![t].pc = IF task[t].prim = "service" THEN "running" ELSE "echo"]
    /\ UNCHANGED <<entity, pathVars, motor, lock, talk, settled, reload, others, owed, mixed, writing, bound, commands>>

\* Mutant of EchoHeard: a free run that goes on has not settled.
EchoHeardUnsettled(t) ==
    /\ task[t].pc = "echo" /\ entity[task[t].cover].started
    /\ IF task[t].prim = "start" THEN Over(t)
       ELSE task' = [task EXCEPT ![t].pc = "running"] /\ UNCHANGED lock
    /\ UNCHANGED <<entity, pathVars, motor, talk, settled, reload, others, owed, mixed, writing, bound, commands>>

\* _async_wait_for_motor_start: a free run is handed to the user, a timed one sleeps.
EchoHeard(t) ==
    LET c == task[t].cover
    IN  /\ task[t].pc = "echo" /\ entity[c].started
        /\ IF task[t].prim = "start"
           THEN Over(t) /\ settled' = [settled EXCEPT ![c] = TRUE]
           ELSE task' = [task EXCEPT ![t].pc = "running"] /\ UNCHANGED <<settled, lock>>
        /\ UNCHANGED <<entity, pathVars, motor, talk, reload, others, owed, mixed, writing, bound, commands>>

\* Past its direction frame and before a stop of its own.
Underway(t) == task[t].pc \in {"delivery", "echo", "running"}

\* Mutant of OwesAStop: an error is taken for a run that never began.
OwesAStopIfCancelled(t, why) ==
    /\ Underway(t) /\ entity[task[t].cover].direction = "written" /\ why = "cancelled"

\* The `finally` of both measured runs: the frame of the run was written.
OwesAStop(t, why) == Underway(t) /\ entity[task[t].cover].direction = "written"

\* Mutant of Abort: the lock is free before the stop is out.
AbortUnlocked(t, why) ==
    LET c == task[t].cover
    IN  /\ task' = [task EXCEPT ![t] = IF OwesAStop(t, why) THEN [@ EXCEPT !.pc = "tidying"] ELSE Asleep]
        /\ lock' = Released(t)
        /\ settled' = [settled EXCEPT ![c] = IF OwesAStop(t, why) \/ task[t].pc = "homing" THEN @ ELSE TRUE]
        /\ owed' = [owed EXCEPT ![c] = Underway(t) /\ task[t].sent = "written" /\ ~task[t].shared]
        /\ UNCHANGED <<entity, pathVars, motor, others, losses, mixed, writing, bound, commands>>

\* A run ends without its result: by an error or by a cancellation.
Abort(t, why) ==
    LET c == task[t].cover
    IN  /\ IF OwesAStop(t, why)
           THEN /\ task' = [task EXCEPT ![t].pc = "tidying"]
                /\ UNCHANGED <<lock, settled>>
           ELSE /\ Over(t)
                /\ settled' = [settled EXCEPT ![c] = IF task[t].pc = "homing" THEN @ ELSE TRUE]
        /\ owed' = [owed EXCEPT ![c] = Underway(t) /\ task[t].sent = "written"
                                       /\ ~task[t].shared]
        /\ UNCHANGED <<entity, pathVars, motor, others, losses, mixed, writing, bound, commands>>

\* not_delivered, no_echo
NotDelivered(t) ==
    /\ task[t].pc = "delivery" /\ task[t].sent = "dropped"
    /\ Abort(t, "not_delivered") /\ UNCHANGED <<talk, reload>>

NoEcho(t) ==
    /\ task[t].pc = "echo" /\ ~entity[task[t].cover].started
    /\ Abort(t, "no_echo") /\ UNCHANGED <<talk, reload>>

\* _async_stop_a_run_that_failed: with the stop queued, or refused, the run has
\* settled; the aborted coroutine waits for this to its end.
TidyUp(t) ==
    LET c == task[t].cover
    IN  /\ task[t].pc = "tidying"
        /\ StopQueued(c, Nobody) \/ StopRefused(c)
        /\ settled' = [settled EXCEPT ![c] = TRUE]
        /\ Over(t)
        /\ UNCHANGED <<motor, talk, reload, others, mixed, writing, bound, commands>>

\* async_stop_cover of task t, whose outcome it waits for: its own frame or, when
\* that is refused, a stop that is out already.
Stops(t, c, next) ==
    \/ StopQueued(c, t) /\ task' = [task EXCEPT ![t] = [next EXCEPT !.stop = "queued"]]
    \/ StopRefused(c) /\ task' = [task EXCEPT ![t] = next]

\* The sleep of a timed run is over, whatever the shutter did meanwhile.
RunElapsed(t) ==
    /\ task[t].pc = "running"
    /\ Stops(t, task[t].cover, [task[t] EXCEPT !.pc = "stopping"])
    /\ UNCHANGED <<motor, lock, talk, settled, reload, others, mixed, writing, bound, commands>>

\* async_calib_stop of the conversation, beside its job.
GuideStops(c) ==
    /\ c \in talk /\ task[Stopper].pc = "idle"
    /\ Command
    /\ Stops(Stopper, c, Run("stop", "stopping", c, "up"))
    /\ UNCHANGED <<motor, lock, talk, settled, reload, others, mixed, writing, bound>>

\* Mutant of Stopped: a stop that is dropped is waited for, too.
StoppedWhenWritten(t) ==
    LET c == task[t].cover
    IN  /\ task[t].pc = "stopping" /\ task[t].stop = "written"
        /\ Over(t)
        /\ settled' = IF t = Stopper THEN settled ELSE [settled EXCEPT ![c] = TRUE]
        /\ UNCHANGED <<entity, pathVars, motor, talk, reload, others, owed, mixed, writing, bound, commands>>

\* _async_calibration_stopped: a stop that was written ends a run that is measured;
\* otherwise it is not_stopped.
Stopped(t) ==
    LET c == task[t].cover
    IN  /\ task[t].pc = "stopping"
        /\ task[t].stop \in {"written", "dropped"} \/ (task[t].stop = "none" /\ ~entity[c].pending)
        /\ Over(t)
        /\ settled' = IF t = Stopper THEN settled ELSE [settled EXCEPT ![c] = TRUE]
        /\ mixed' = (mixed \/ (t # Stopper /\ entity[c].stopped /\ entity[c].model > task[t].newest))
        /\ UNCHANGED <<entity, pathVars, motor, talk, reload, others, owed, writing, bound, commands>>

--------------------------------------------------------------------------
(* The conversation *)

\* It opens on a cover that nothing calibrates, and may close when nothing runs.
OpenTalk(c) ==
    /\ c \in bound.guided /\ reload = "no" /\ talk = {} /\ ~Calibrating(c)
    /\ talk' = {c}
    /\ UNCHANGED <<entity, pathVars, motor, lock, task, settled, reload, others, owed, mixed, writing, bound, commands>>

CloseTalk ==
    /\ talk # {} /\ task[Guide].pc = "idle" /\ task[Stopper].pc = "idle"
    /\ talk' = {}
    /\ UNCHANGED <<entity, pathVars, motor, lock, task, settled, reload, others, owed, mixed, writing, bound, commands>>

\* _async_session_expired: nobody has touched the dialog for a long time.  The cover is
\* given back before the stop of a free run that is still under way.
DialogExpires ==
    /\ talk # {} /\ task[Guide].pc = "idle" /\ task[Stopper].pc = "idle"
    /\ talk' = {}
    /\ \E c \in talk :
        IF AtRest(c) THEN UNCHANGED <<entity, pathVars, task, owed>>
        ELSE Stops(Stopper, c, Run("stop", "stopping", c, "up"))
    /\ UNCHANGED <<motor, lock, settled, reload, others, mixed, writing, bound, commands>>

\* The dialog is closed in the middle of a run: the flow manager cancels the job,
\* and async_remove wants a reload when the dialog has stored something before.
CloseDialog ==
    /\ talk # {} /\ task[Guide].pc \notin {"idle", "lock", "tidying"}
    /\ Abort(Guide, "cancelled")
    /\ talk' = {}
    /\ \/ UNCHANGED reload
       \/ reload = "no" /\ reload' = task[Guide].cover

\* async_calib_settled: the reload waits for it ...
CalibSettled(c) == settled[c]

\* _async_reload_after_the_tidying_up: the gateway is closed, and what it has not
\* written is dropped.
GatewayReloaded ==
    /\ reload' = "done"
    /\ UNCHANGED <<entity, pathVars, motor, lock, talk, task, settled, others, owed, mixed, writing, bound, commands>>

\* ... but not for ever.
Reload == reload \in Covers /\ CalibSettled(reload) /\ GatewayReloaded
ReloadAnyway == reload \in Covers /\ ~CalibSettled(reload) /\ GatewayReloaded

--------------------------------------------------------------------------
StandsAt(place) ==
    [moving |-> "none", place |-> place, from |-> place, direction |-> "none", awaited |-> FALSE,
     pending |-> FALSE, stopped |-> FALSE, started |-> FALSE, model |-> 0, run |-> 0]

Init ==
    /\ entity = [c \in Covers |-> StandsAt("bottom")]
    /\ motor = [c \in Covers |-> [turns |-> "none", place |-> "bottom"]]
    /\ line = [c \in Covers |-> <<>>]
    /\ lock = [holder |-> Nobody, waiters |-> <<>>]
    /\ talk = {} /\ task = [t \in Tasks |-> Asleep]
    /\ settled = [c \in Covers |-> TRUE] /\ reload = "no" /\ writing = "no"
    /\ bound \in Bounds /\ commands = 0 /\ losses = 0 /\ others = 0
    /\ owed = [c \in Covers |-> FALSE] /\ mixed = FALSE

Physics(c) == FrameTaken(c) \/ FrameDropped(c) \/ MotorArrives(c) \/ MotorReported(c) \/ EstimateArrives(c)

Progress(t) ==
    \/ Woken(t) \/ DeliveryKnown(t) \/ NotDelivered(t) \/ EchoHeard(t) \/ NoEcho(t)
    \/ TidyUp(t) \/ RunElapsed(t) \/ Stopped(t)

Next ==
    \/ \E c \in Covers : Physics(c) \/ ServiceHomed(c) \/ ApplyCalibration(c) \/ OpenTalk(c) \/ GuideStops(c)
    \/ \E c \in Covers, holder \in {{}, talk} : WriteBegins(c, holder)
    \/ \E c \in Covers, d \in Directions : Dashboard(c, d) \/ ServiceCalled(c, d)
    \/ \E c \in Covers, key \in Directions \cup {"stop"} : Keypad(c, key)
    \/ \E c \in Covers, d \in Directions, prim \in bound.prims : GuideRuns(c, d, prim)
    \/ \E t \in Tasks : Progress(t)
    \/ HomeDone \/ CloseTalk \/ DialogExpires \/ CloseDialog \/ Reload \/ ReloadAnyway

\* The event loop runs what is ready, timers expire, and the gateway writes or
\* drops every frame (CommandPath); nobody has to press or to ask anything.
RunsFairness ==
    /\ \A c \in Covers :
        /\ WF_runVars(FrameTaken(c) \/ FrameDropped(c)) /\ WF_runVars(MotorArrives(c))
        /\ WF_runVars(EstimateArrives(c)) /\ WF_runVars(ServiceHomed(c))
    /\ \A t \in Tasks : WF_runVars(Progress(t))
    /\ WF_runVars(HomeDone) /\ WF_runVars(Reload \/ ReloadAnyway)

RunsSpec == Init /\ [][Next]_runVars /\ RunsFairness

--------------------------------------------------------------------------
(* Types *)

EntityType ==
    [moving : Directions \cup {"none"}, place : Ends \cup {"between"}, from : Ends \cup {"between"},
     direction : {"none", "queued", "written", "dropped"}, awaited : BOOLEAN, pending : BOOLEAN,
     stopped : BOOLEAN, started : BOOLEAN, model : 0..bound.others, run : 0..bound.others]

TaskType ==
    [prim : {"none", "home", "start", "timed", "stop", "service"},
     pc : {"idle", "lock", "homing", "delivery", "echo", "running", "stopping", "tidying"},
     cover : Covers, dir : Directions, sent : {"none", "queued", "written", "dropped"},
     stop : {"none", "queued", "written", "dropped"}, shared : BOOLEAN, newest : 0..bound.others]

\* Every variable has its type; the entity waits for a frame only while the command
\* path has it.
RunsTypeOK ==
    /\ entity \in [Covers -> EntityType]
    /\ task \in [Tasks -> TaskType]
    /\ line \in [Covers -> Seq([kind : Directions \cup {"stop"}, by : Tasks \cup {Nobody}])]
    /\ \A c \in Covers :
        /\ entity[c].awaited => \E i \in DOMAIN line[c] : line[c][i].kind = entity[c].moving
        /\ entity[c].pending => \E i \in DOMAIN line[c] : line[c][i].kind = "stop"
    /\ lock.holder \in Tasks \cup {Nobody} /\ lock.waiters \in Seq(Tasks)
    /\ talk \in SUBSET Covers /\ reload \in Covers \cup {"no", "done"}
    /\ writing \in Covers \cup {"no"}
    /\ settled \in [Covers -> BOOLEAN] /\ owed \in [Covers -> BOOLEAN] /\ mixed \in BOOLEAN

--------------------------------------------------------------------------
(* Properties *)

\* "Every way out of this function has to write a stop" (_async_calib_timed_run,
\* _async_calib_start): when a cover has settled, no run that was cut short by an
\* error or by the closing of the dialog after its frame had turned the motor is
\* still without a stop of ours - unless somebody else commanded the cover meanwhile.
AbortedRunsAreStopped == \A c \in Covers : settled[c] => ~owed[c]

\* "... cannot interleave their runs on one motor" (_calibration_claim): one task at a
\* time drives the shutters of a gateway, and it keeps the others out until a run
\* that was cut short has sent its stop.
OneDriver ==
    \A t, u \in Tasks \ {Stopper} : InBlock(t) /\ InBlock(u) => t = u

\* A run that is reported as measured ends on the travel model it was planned with: the
\* panel takes no write while it is on its way (_refuse_if_busy).  A write taken before it
\* began lands when its saves are done, without asking again, and is the one exception:
\* then the run ends on the model of that write or on its own, and on no third.
OneModelPerRun == ~mixed

\* A reload is not kept waiting for a cover that nothing drives: _calib_settled is
\* cleared only while a measured run of the cover is on its way to its end.
UnsettledIsBusy ==
    \A c \in Covers : ~settled[c] =>
        \E t \in Tasks : task[t].cover = c /\ task[t].pc \in {"delivery", "echo", "running", "stopping", "tidying"}

\* Whoever drives a cover, gets to the end of it: no refusal, drop, missing echo,
\* keypad or cancellation leaves a run - and with it the gateway's lock - hanging,
\* and a caller that waits for the lock gets it.
RunsEnd == []<>(\A t \in Tasks : task[t].pc = "idle")
===========================================================================
