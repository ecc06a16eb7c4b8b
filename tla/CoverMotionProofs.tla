------------------------ MODULE CoverMotionProofs ------------------------
(***************************************************************************)
(* What TLAPS proves of CoverMotion, for every travel, window and bound:   *)
(* one thing ends a run, no report is waited for in vain, every field      *)
(* keeps its type; where the copies of a frame come before the motor can   *)
(* have started on it, those copies change nothing; and where the gateway  *)
(* also answers before a run begins, the estimate ends where the motor     *)
(* does.                                                                   *)
(***************************************************************************)
EXTENDS CoverMotion, TLAPS

Frames == Directions \cup {"stop"}

Fields == {"moving", "from", "clock", "target", "end", "pos", "ownAt", "ownCommand",
           "stoppedDir", "ownFreeRun", "afterRestart", "timer", "fired", "recheck",
           "awaited", "stop", "written", "started"}

StopFields == {"frame", "interrupted", "frozen", "base", "age", "rebased"}

\* The fields that the end of a run depends on are there and of their kind.
Shaped(m) ==
    /\ DOMAIN m = Fields
    /\ m.moving \in Directions \cup {"none"}
    /\ m.from \in Int /\ m.clock \in Int /\ m.target \in Int /\ m.end \in Int
    /\ m.pos \in Int /\ m.timer \in Int /\ m.awaited \in Nat
    /\ DOMAIN m.stop = StopFields
    /\ m.stop.frame \in Nat /\ m.stop.frozen \in Int /\ m.stop.base \in Int /\ m.stop.age \in Int

IsArmed(m) == m.timer # Off \/ "current" \in m.fired

\* The frames whose reports the cover waits for.
Waiting(m) == {m.awaited, m.stop.frame} \ {0}

\* OneThingEndsARun of a record, and two frames are two frames.
Sound(m) ==
    /\ Shaped(m)
    /\ m.moving # "none" => (IsArmed(m) <=> m.stop = NoStop)
    /\ m.moving = "none" => ~IsArmed(m)
    /\ m.stop # NoStop => m.stop.frame # 0
    /\ m.awaited # 0 => m.moving # "none" /\ m.awaited # m.stop.frame

\* Nothing is armed and nothing is waited for.
Quiet(m) == Shaped(m) /\ ~IsArmed(m) /\ m.stop = NoStop /\ m.awaited = 0

\* The part of MotionAssumption that the arithmetic needs.
LEMMA Constants == Full \in Nat /\ StartDelay \in Nat /\ StopLatency \in Nat
  BY MotionAssumption DEF MotionAssumption

\* A free run's target is an integer, and no frame has the number zero.
LEMMA NoTargetIsInt == NoTarget \in Int /\ 0 \in Nat
  BY SMT DEF NoTarget

--------------------------------------------------------------------------
(* The arithmetic stays in the integers *)

\* A position reached by travelling is an integer.
LEMMA TravelIsInt ==
  ASSUME NEW dir, NEW from \in Int, NEW elapsed \in Int PROVE Travel(dir, from, elapsed) \in Int
  BY Constants, SMT DEF Travel, Least, Greatest

\* So is the estimate, now or a while ahead.
LEMMA EstimateIsInt == ASSUME NEW m, Shaped(m), NEW ahead \in Int PROVE Estimate(m, ahead) \in Int
<1>1. Greatest(0, m.clock + ahead) \in Int
  BY SMT DEF Greatest, Shaped
<1> QED
  BY <1>1, TravelIsInt, SMT DEF Estimate, Shaped

\* So are the length of a run and what remains of it.
LEMMA DurationIsInt == ASSUME NEW m, Shaped(m) PROVE Duration(m) \in Int /\ Remaining(m) \in Int
  BY Constants, SMT DEF Duration, Remaining, StopOffset, TravelTime, Shaped

--------------------------------------------------------------------------
(* What the operators do to a record *)

\* The record that stands for no stop names no frame.
LEMMA NoStopShape ==
  DOMAIN NoStop = StopFields /\ NoStop.frame = 0 /\ NoStop.frozen = 0 /\ NoStop.base = 0 /\ NoStop.age = 0
  BY SMT DEF NoStop, StopFields

\* Cancelling leaves nothing armed and nothing waited for.
LEMMA CancelTimersQuiets == ASSUME NEW m, Shaped(m)
  PROVE Quiet(CancelTimers(m)) /\ CancelTimers(m).from = m.from /\ CancelTimers(m).pos = m.pos
  BY NoStopShape, SMT DEF Quiet, Shaped, IsArmed, CancelTimers, Outdated, Off, Fields, Waiting

\* A finished movement is at rest and quiet.
LEMMA FinishEnds == ASSUME NEW m, Shaped(m), NEW p \in Int
  PROVE Quiet(Finish(m, p)) /\ Sound(Finish(m, p)) /\ Finish(m, p).moving = "none"
<1>1. Quiet(CancelTimers(m))
  BY CancelTimersQuiets
<1>2. Quiet(Finish(m, p)) /\ Finish(m, p).moving = "none"
  BY <1>1, SMT DEF Quiet, Shaped, IsArmed, Finish, Fields, NoTarget
<1> QED
  BY <1>2, NoStopShape DEF Quiet, Sound

\* Arming arms the deadline and touches nothing else that matters.
LEMMA ArmingArms == ASSUME NEW m, Shaped(m), NEW d \in Int
  PROVE LET a == ArmIn(m, d)
        IN  /\ Shaped(a) /\ IsArmed(a)
            /\ a.moving = m.moving /\ a.stop = m.stop /\ a.awaited = m.awaited
  BY SMT DEF ArmIn, Shaped, IsArmed, Greatest, Off, Fields

\* Re-arming a movement that has no stop out is always sound.
LEMMA ArmDeadlineSound == ASSUME NEW m, Shaped(m), m.moving # "none", m.stop = NoStop
  PROVE LET a == ArmDeadline(m)
        IN  Sound(a) /\ a.moving = m.moving /\ a.stop = NoStop /\ a.awaited = m.awaited
<1>1. Remaining(m) \in Int
  BY DurationIsInt
<1> QED
  BY <1>1, ArmingArms, NoStopShape DEF ArmDeadline, Sound

\* A new movement waits for its own frame and for no stop.
LEMMA StartSound ==
  ASSUME NEW m, Shaped(m), NEW dir \in Directions, NEW target \in Int, NEW frame \in Nat
  PROVE LET s == Start(m, dir, target, frame)
        IN  Sound(s) /\ s.stop = NoStop /\ s.awaited \in {0, frame}
<1> DEFINE now == Estimate(m, 0)
           idle == CancelTimers(m)
           from == IF now # Unknown THEN now ELSE EndStopOf(IF dir = "up" THEN "down" ELSE "up")
           clock == IF frame # 0 THEN -StartDelay ELSE 0
           end == IF target = NoTarget THEN EndStopOf(dir) ELSE target
           own == IF frame # 0 THEN 0 ELSE Off
           command == IF frame # 0 THEN dir ELSE "none"
           free == (frame # 0 /\ target = NoTarget)
           begun == [idle EXCEPT
            !.moving = dir, !.from = from, !.clock = clock, !.target = target, !.end = end,
            !.written = Off, !.started = FALSE,
            !.ownAt = own, !.ownCommand = command, !.stoppedDir = "none",
            !.ownFreeRun = free,
            !.afterRestart = FALSE]
           armed == ArmDeadline(begun)
<1>1. now \in Int
  BY EstimateIsInt
<1>2. \A d : EndStopOf(d) \in Int
  BY Constants DEF EndStopOf
<1>3. Shaped(begun) /\ begun.stop = NoStop /\ begun.moving = dir /\ begun.awaited = 0
  <2>1. Quiet(idle)
    BY CancelTimersQuiets
  <2>2. from \in Int /\ end \in Int
    BY <1>1, <1>2
  <2>3. clock \in Int
    BY Constants, SMT
  <2> HIDE DEF idle, from, clock, end, own, command, free
  <2>4. DOMAIN begun = Fields
    BY <2>1, Zenon DEF Shaped, Quiet
  <2>5. /\ begun.moving = dir /\ begun.stop = NoStop /\ begun.awaited = 0
        /\ begun.from = from /\ begun.clock = clock /\ begun.target = target
        /\ begun.end = end /\ begun.pos = idle.pos /\ begun.timer = idle.timer
    BY <2>1, SMT DEF Shaped, Quiet, Fields
  <2> HIDE DEF begun
  <2> QED
    BY <2>1, <2>2, <2>3, <2>4, <2>5, SMT DEF Shaped, Quiet
<1>4. Start(m, dir, target, frame)
        = IF Duration(begun) <= 0 THEN Finish(begun, begun.end) ELSE [armed EXCEPT !.awaited = frame]
  BY DEF Start
<1> HIDE DEF begun
<1>5. CASE Duration(begun) <= 0
  <2>1. begun.end \in Int
    BY <1>3 DEF Shaped
  <2> QED
    BY <1>3, <1>4, <1>5, <2>1, FinishEnds DEF Quiet
<1>6. CASE ~(Duration(begun) <= 0)
  <2>1. Sound(armed) /\ armed.moving = dir /\ armed.stop = NoStop /\ armed.awaited = 0
    BY <1>3, ArmDeadlineSound DEF Directions
  <2> HIDE DEF armed
  <2> QED
    BY <1>4, <1>6, <2>1, NoStopShape, SMT DEF Sound, Shaped, IsArmed, Fields, Directions
<1> QED
  BY <1>5, <1>6

\* A run that goes on ends at its new deadline; nothing is waited for.
LEMMA ContinueSound == ASSUME NEW m, Shaped(m), m.moving # "none"
  PROVE LET s == ContinueToEndStop(m)
        IN  Sound(s) /\ s.stop = NoStop /\ s.awaited = 0
<1> DEFINE begun == Start(m, m.moving, NoTarget, 0)
<1>1. Sound(begun) /\ begun.stop = NoStop /\ begun.awaited = 0
  <2>1. m.moving \in Directions /\ Shaped(m)
    BY DEF Shaped
  <2>2. Start(m, m.moving, NoTarget, 0).awaited \in {0, 0}
    BY <2>1, NoTargetIsInt, StartSound
  <2> QED
    BY <2>1, <2>2, NoTargetIsInt, StartSound
<1>2. ContinueToEndStop(m) = [begun EXCEPT
            !.ownAt = m.ownAt, !.ownCommand = m.ownCommand,
            !.afterRestart = (m.ownAt # Off), !.ownFreeRun = TRUE]
  BY DEF ContinueToEndStop
<1> HIDE DEF begun
<1> QED
  BY <1>1, <1>2, SMT DEF Sound, Shaped, IsArmed, Fields

--------------------------------------------------------------------------
(* Reports *)

\* A delivered movement frame is not waited for any more; a stop that is out stays the only end.
LEMMA MoveDeliveredSound ==
  ASSUME NEW m, Sound(m), NEW age \in Int, m.awaited # 0
  PROVE LET d == MoveDelivered(m, age)
        IN  Sound(d) /\ d.awaited = 0 /\ d.stop.frame = m.stop.frame
<1> DEFINE heard == [m EXCEPT !.awaited = 0, !.written = age,
                           !.ownAt = IF m.ownCommand # "none" /\ @ # Off THEN age ELSE @]
           rebased == Rebased(heard, age - StartDelay)
<1>1. Sound(heard) /\ heard.awaited = 0 /\ heard.stop = m.stop /\ heard.moving = m.moving
  BY SMT DEF Sound, Shaped, IsArmed, Fields
<1>2. MoveDelivered(m, age) = IF age - StartDelay >= m.clock THEN heard
                              ELSE IF m.stop = NoStop THEN ArmDeadline(rebased) ELSE rebased
  BY DEF MoveDelivered
<1> HIDE DEF heard
<1>3. Shaped(rebased) /\ rebased.awaited = 0 /\ rebased.moving = heard.moving
      /\ rebased.timer = heard.timer /\ rebased.fired = heard.fired
  BY <1>1, Constants, SMT DEF Rebased, Sound, Shaped, Fields, StopFields
<1>4. m.stop = NoStop => rebased.stop = NoStop
  BY <1>1, SMT DEF Rebased, Sound, Shaped, Fields
<1>5. rebased.stop.frame = m.stop.frame
  BY <1>1, SMT DEF Rebased, Sound, Shaped, Fields, StopFields
<1>6. (m.stop # NoStop => rebased.stop # NoStop)
  BY <1>1, <1>5, NoStopShape, SMT DEF Sound
<1> HIDE DEF rebased
<1>7. CASE age - StartDelay >= m.clock
  BY <1>1, <1>2, <1>7
<1>8. CASE ~(age - StartDelay >= m.clock) /\ m.stop = NoStop
  <2>1. Sound(ArmDeadline(rebased)) /\ ArmDeadline(rebased).awaited = 0
        /\ ArmDeadline(rebased).stop = NoStop
    BY <1>1, <1>3, <1>4, <1>8, ArmDeadlineSound DEF Sound
  <2> QED
    BY <1>2, <1>8, <2>1
<1>9. CASE ~(age - StartDelay >= m.clock) /\ m.stop # NoStop
  <2>1. Sound(rebased)
    BY <1>1, <1>3, <1>5, <1>6, <1>9, SMT DEF Sound, IsArmed
  <2> QED
    BY <1>2, <1>3, <1>5, <1>9, <2>1
<1> QED
  BY <1>7, <1>8, <1>9

\* A dropped movement frame ends the movement.
LEMMA MoveDroppedQuiet == ASSUME NEW m, Shaped(m)
  PROVE Quiet(MoveDropped(m)) /\ Sound(MoveDropped(m))
<1> DEFINE over == Finish(m, m.from)
<1>1. Quiet(over) /\ Sound(over)
  BY FinishEnds DEF Shaped
<1> HIDE DEF over
<1> QED
  BY <1>1, SMT DEF MoveDropped, over, Quiet, Sound, Shaped, IsArmed, Fields

\* A delivered stop ends the movement.
LEMMA StopDeliveredQuiet == ASSUME NEW m, Shaped(m), NEW age \in Int
  PROVE Quiet(StopDelivered(m, age)) /\ Sound(StopDelivered(m, age))
<1> DEFINE place == RestingPlace(m, age)
           over == Finish(m, place)
<1>1. place \in Int
  <2>1. /\ m.from \in Int /\ m.clock - age + StopLatency \in Int
        /\ m.stop.base + (m.stop.age - age) \in Int /\ m.stop.frozen \in Int
    BY Constants, SMT DEF Shaped
  <2>2. \A e \in Int : Greatest(0, e) \in Int
    BY SMT DEF Greatest
  <2> QED
    BY <2>1, <2>2, TravelIsInt DEF RestingPlace
<1>2. Quiet(over) /\ Sound(over)
  BY <1>1, FinishEnds
<1> HIDE DEF over, place
<1> QED
  BY <1>2, SMT DEF StopDelivered, MarkOwnStop, over, place, Quiet, Sound, Shaped, IsArmed, Fields

\* A dropped stop hands the run back to a deadline.
LEMMA StopDroppedSound == ASSUME NEW m, Sound(m), m.stop # NoStop
  PROVE Sound(StopDropped(m)) /\ StopDropped(m).stop = NoStop
        /\ Waiting(StopDropped(m)) \subseteq {m.awaited} \ {0}
<1> DEFINE cleared == [m EXCEPT !.stop = NoStop]
<1>1. Shaped(cleared) /\ cleared.stop = NoStop /\ cleared.moving = m.moving
      /\ cleared.awaited = m.awaited /\ (IsArmed(cleared) <=> IsArmed(m))
  BY NoStopShape, SMT DEF Sound, Shaped, IsArmed, Fields
<1> HIDE DEF cleared
<1>2. CASE m.moving = "none"
  BY <1>1, <1>2, NoStopShape DEF StopDropped, ContinueToEndStop, cleared, Sound, Waiting
<1>3. CASE m.moving # "none"
  BY <1>1, <1>3, NoStopShape, ContinueSound DEF StopDropped, cleared, Waiting
<1> QED
  BY <1>2, <1>3

\* A report leaves the record sound, and nobody waits for it a second time.
LEMMA DeliveredSound == ASSUME NEW m, Sound(m), NEW id \in Nat \ {0}, NEW age \in Int
  PROVE Sound(Delivered(m, id, age)) /\ Waiting(Delivered(m, id, age)) \subseteq Waiting(m) \ {id}
<1>1. CASE id = m.awaited
  BY <1>1, MoveDeliveredSound DEF Delivered, Waiting, Sound
<1>2. CASE id # m.awaited /\ id = m.stop.frame
  BY <1>2, StopDeliveredQuiet, NoStopShape DEF Delivered, Waiting, Sound, Quiet
<1>3. CASE id # m.awaited /\ id # m.stop.frame
  BY <1>3 DEF Delivered, Waiting
<1> QED
  BY <1>1, <1>2, <1>3

\* The same of a drop.
LEMMA NotDeliveredSound == ASSUME NEW m, Sound(m), NEW id \in Nat \ {0}
  PROVE Sound(NotDelivered(m, id)) /\ Waiting(NotDelivered(m, id)) \subseteq Waiting(m) \ {id}
<1>1. CASE id = m.awaited
  BY <1>1, MoveDroppedQuiet, NoStopShape DEF NotDelivered, Waiting, Sound, Quiet
<1>2. CASE id # m.awaited /\ id = m.stop.frame
  <2>1. m.stop # NoStop
    BY <1>2, NoStopShape
  <2> QED
    BY <1>2, <2>1, StopDroppedSound DEF NotDelivered, Waiting
<1>3. CASE id # m.awaited /\ id # m.stop.frame
  BY <1>3 DEF NotDelivered, Waiting
<1> QED
  BY <1>1, <1>2, <1>3

--------------------------------------------------------------------------
(* Bus frames *)

\* The actuator's start re-arms the deadline only without a stop out.
LEMMA MotorStartSound == ASSUME NEW m, Sound(m), m.moving # "none"
  PROVE Sound(MotorStart(m)) /\ Waiting(MotorStart(m)) \subseteq Waiting(m)
<1> DEFINE begun == [m EXCEPT !.started = TRUE, !.clock = 0]
<1>1. Shaped(begun) /\ begun.moving = m.moving /\ begun.stop = m.stop /\ begun.awaited = m.awaited
  BY SMT DEF Sound, Shaped, Fields
<1> HIDE DEF begun
<1>2. MotorAnswers(m) => m.stop = NoStop
  BY DEF MotorAnswers
<1>3. m.stop = NoStop => LET a == ArmDeadline(begun)
        IN Sound(a) /\ a.stop = NoStop /\ a.awaited = m.awaited
  BY <1>1, ArmDeadlineSound
<1> QED
  BY <1>2, <1>3 DEF MotorStart, begun, Waiting

\* An ignored echo changes nothing that ends a run.
LEMMA IgnoreSound == ASSUME NEW m, Sound(m)
  PROVE Sound(Ignore(m)) /\ Waiting(Ignore(m)) = Waiting(m)
  BY SMT DEF Ignore, Sound, Shaped, IsArmed, Fields, Waiting

\* No bus frame, in any state, leaves the record unsound.
LEMMA HandleSound == ASSUME NEW m, Sound(m), NEW frame \in Frames
  PROVE Sound(Handle(m, frame)) /\ Waiting(Handle(m, frame)) \subseteq Waiting(m)
<1>1. CASE frame = m.moving
  <2>1. Handle(m, frame) = MotorStart(m)
    BY <1>1 DEF Handle, Directions, Sound, Shaped
  <2> QED
    BY <1>1, <2>1, MotorStartSound DEF Frames, Directions
<1>2. CASE frame # m.moving /\ IsEcho(m, frame)
  BY <1>2, IgnoreSound DEF Handle
<1>3. CASE frame \in Directions \ {m.moving} /\ ~IsEcho(m, frame)
  <2>1. Handle(m, frame) = Start(m, frame, NoTarget, 0)
    BY <1>3 DEF Handle, Directions
  <2> QED
    BY <1>3, <2>1, StartSound, NoStopShape, NoTargetIsInt DEF Sound, Waiting
<1>4. CASE frame = "stop" /\ ~IsEcho(m, frame)
  <2>1. (IF ReachedEndStop(m) THEN m.end ELSE Estimate(m, 0)) \in Int
    BY EstimateIsInt DEF Sound, Shaped
  <2>2. frame # m.moving /\ frame \notin Directions
    BY <1>4 DEF Sound, Shaped, Directions
  <2>3. Handle(m, frame) = Finish(m, IF ReachedEndStop(m) THEN m.end ELSE Estimate(m, 0))
    BY <1>4, <2>2 DEF Handle
  <2> QED
    BY <2>1, <2>3, FinishEnds, NoStopShape DEF Sound, Quiet, Waiting
<1> QED
  BY <1>1, <1>2, <1>3, <1>4 DEF Frames

--------------------------------------------------------------------------
(* The invariant *)

FrameType == [id: Nat \ {0}, kind: Frames]

PathInv ==
    /\ nextId \in Nat \ {0}
    /\ line \in Seq(FrameType)
    /\ wire \in [id: Nat, kind: Frames \cup {"none"}, age: Int]
    /\ wire # Idle => wire.id # 0

ActuatorInv ==
    /\ motor \in Directions \cup {"none"}
    /\ starting \in [dir: Directions \cup {"none"}, age: Int]
    /\ starting # NotStarting => starting.dir \in Directions
    /\ relay \in [what: SUBSET Frames, left: Int]

\* Every frame the cover waits for was sent and is still in the command path.
WaitsInv == \A id \in Waiting(cover) : id < nextId /\ InPath(id)

MotionInv == Sound(cover) /\ PathInv /\ ActuatorInv /\ WaitsInv

\* The strengthening implies both properties.
LEMMA MotionInvImplies == MotionInv => OneThingEndsARun /\ WaitsForLiveFrames
  BY DEF MotionInv, Sound, IsArmed, Armed, OneThingEndsARun, WaitsForLiveFrames, WaitsInv, Waiting,
         Shaped

\* It holds initially.
LEMMA MotionInvInit == MotionInit => MotionInv
<1> SUFFICES ASSUME MotionInit PROVE MotionInv
  OBVIOUS
<1>1. PICK p \in {shaft, Unknown} : cover = [CoverInit EXCEPT !.pos = p]
  BY DEF MotionInit
<1>2. p \in Int
  BY Constants, SMT DEF MotionInit, Unknown
<1>3. Sound(cover) /\ Waiting(cover) = {}
  BY <1>1, <1>2, NoStopShape, SMT DEF CoverInit, Sound, Shaped, IsArmed, Fields, Waiting, NoTarget,
     Off, Directions
<1>4. PathInv
  BY SMT DEF MotionInit, PathInv, Idle, Frames
<1>5. ActuatorInv
  BY SMT DEF MotionInit, ActuatorInv, NotStarting, Silent, Frames, Directions
<1> QED
  BY <1>3, <1>4, <1>5 DEF MotionInv, WaitsInv

--------------------------------------------------------------------------
(* The steps *)

\* What a step does when it leaves the command path alone.
LEMMA CoverOnly ==
  ASSUME MotionInv, UNCHANGED pathVars, Sound(cover'), Waiting(cover') \subseteq Waiting(cover)
  PROVE  Sound(cover') /\ PathInv' /\ WaitsInv'
  BY DEF MotionInv, PathInv, WaitsInv, InPath, pathVars

\* A frame seen or lost on the monitor session.
LEMMA SeesSound ==
  ASSUME MotionInv, NEW frame \in Frames, Sees(frame)
  PROVE  Sound(cover') /\ Waiting(cover') \subseteq Waiting(cover)
  BY HandleSound DEF Sees, MotionInv

\* What queueing a frame does.
LEMMA QueueKeeps ==
  ASSUME MotionInv, NEW kind \in Frames, Queue(kind), Sound(cover'),
         Waiting(cover') \subseteq Waiting(cover) \cup {nextId}
  PROVE  Sound(cover') /\ PathInv' /\ WaitsInv'
<1>1. [id |-> nextId, kind |-> kind] \in FrameType
  BY DEF MotionInv, PathInv, FrameType
<1>2. PathInv'
  BY <1>1, SMT DEF Queue, MotionInv, PathInv
<1>3. \A id : InPath(id) => InPath(id)'
  BY <1>1, SMT DEF Queue, InPath, MotionInv, PathInv
<1>4. ASSUME NEW id, id = nextId PROVE InPath(id)'
  <2> DEFINE sent == [id |-> nextId, kind |-> kind]
  <2>1. line' = Append(line, sent) /\ line \in Seq(FrameType) /\ sent \in FrameType /\ sent.id = id
    BY <1>1, <1>4 DEF Queue, MotionInv, PathInv
  <2> HIDE DEF sent
  <2>2. Len(line) + 1 \in DOMAIN line' /\ line'[Len(line) + 1] = sent
    BY <2>1, SMT
  <2> QED
    BY <2>1, <2>2 DEF InPath
<1>5. nextId \in Nat /\ nextId' = nextId + 1
  BY DEF MotionInv, PathInv, Queue
<1>6. \A id \in Waiting(cover') : id < nextId' /\ InPath(id)'
  <2> TAKE id \in Waiting(cover')
  <2>1. CASE id = nextId
    BY <1>4, <1>5, <2>1
  <2>2. CASE id \in Waiting(cover)
    <3>1. id \in Nat /\ id < nextId /\ InPath(id)
      BY <2>2 DEF MotionInv, WaitsInv, Waiting, Sound, Shaped
    <3> QED
      BY <1>3, <1>5, <3>1, SMT
  <2> QED
    BY <2>1, <2>2
<1> QED
  BY <1>2, <1>6 DEF WaitsInv

\* A stop takes the place of the deadline.
LEMMA StopQueuedSound ==
  ASSUME NEW m, Shaped(m), NEW frozen \in Int, NEW base \in Int, nextId \in Nat \ {0},
         m.awaited # 0 => m.awaited < nextId /\ m.moving # "none"
  PROVE  LET s == StopQueued(m, frozen, base)
         IN  Sound(s) /\ Waiting(s) \subseteq {m.awaited, nextId} \ {0}
<1> DEFINE stop == [frame |-> nextId, interrupted |-> m.moving, frozen |-> frozen,
                    base |-> base, age |-> 0, rebased |-> FALSE]
           s == [m EXCEPT !.timer = Off, !.fired = Outdated(@), !.stop = stop]
<1>1. DOMAIN stop = StopFields /\ stop.frame = nextId /\ stop.frozen \in Int /\ stop.base \in Int
      /\ stop.age \in Int /\ stop # NoStop
  BY NoStopShape, SMT DEF StopFields
<1> HIDE DEF stop
<1>2. Shaped(s) /\ ~IsArmed(s) /\ s.stop = stop /\ s.awaited = m.awaited /\ s.moving = m.moving
  BY <1>1, SMT DEF Shaped, IsArmed, Outdated, Fields, Off
<1>3. StopQueued(m, frozen, base) = s
  BY DEF StopQueued, stop
<1> HIDE DEF s
<1>4. m.awaited # 0 => m.awaited # nextId
  BY SMT DEF Shaped
<1> QED
  BY <1>1, <1>2, <1>3, <1>4 DEF Sound, Waiting

\* What the invariant says of the record before a command.
LEMMA AwaitedIsSent == ASSUME MotionInv
  PROVE /\ Shaped(cover) /\ nextId \in Nat \ {0}
        /\ cover.awaited # 0 => cover.awaited < nextId /\ cover.moving # "none"
        /\ Waiting(cover) = {cover.awaited, cover.stop.frame} \ {0}
  BY DEF MotionInv, PathInv, WaitsInv, Waiting, Sound

\* Commands queue a frame and wait for it.
LEMMA CommandKeeps == ASSUME MotionInv, Command PROVE MotionInv'
<1>1. ASSUME NEW dir \in Directions, NEW target \in Int, SendDirection(dir, target)
      PROVE  MotionInv'
  <2>1. Sound(cover') /\ Waiting(cover') \subseteq Waiting(cover) \cup {nextId}
    BY <1>1, StartSound, AwaitedIsSent, NoStopShape DEF SendDirection, Waiting
  <2>2. Sound(cover') /\ PathInv' /\ WaitsInv'
    BY <1>1, <2>1, QueueKeeps DEF SendDirection, Frames
  <2>3. ActuatorInv'
    BY <1>1 DEF SendDirection, actuatorVars, MotionInv, ActuatorInv
  <2> QED
    BY <2>2, <2>3 DEF MotionInv
<1>2. CASE StopCover
  <2> DEFINE frozen == Estimate(cover, StopLatency)
             base == (IF cover.moving = "none" THEN 0 ELSE cover.clock) + StopLatency
  <2>1. frozen \in Int /\ base \in Int
    BY AwaitedIsSent, Constants, EstimateIsInt, SMT DEF Shaped
  <2>2. Sound(cover') /\ Waiting(cover') \subseteq Waiting(cover) \cup {nextId}
    BY <1>2, <2>1, StopQueuedSound, AwaitedIsSent DEF StopCover
  <2>3. Sound(cover') /\ PathInv' /\ WaitsInv'
    BY <1>2, <2>2, QueueKeeps DEF StopCover, Frames
  <2>4. ActuatorInv'
    BY <1>2 DEF StopCover, actuatorVars, MotionInv, ActuatorInv
  <2> QED
    BY <2>3, <2>4 DEF MotionInv
<1>3. CASE OpenOrClose
  BY <1>1, <1>3, NoTargetIsInt DEF OpenOrClose
<1>4. ASSUME NEW p \in 1..(Full - 1), SetPosition(p) PROVE MotionInv'
  <2>1. p \in Int
    BY Constants, SMT
  <2> QED
    BY <1>1, <1>4, <2>1 DEF SetPosition, Directions
<1> QED
  BY <1>2, <1>3, <1>4 DEF Command

\* The deadline's coroutine takes its own firing off the record.
LEMMA RanShape == ASSUME MotionInv, DeadlineRuns
  PROVE /\ Shaped(Ran) /\ Ran.stop = NoStop /\ Ran.awaited = cover.awaited
        /\ Ran.moving = cover.moving /\ Ran.moving # "none"
<1>1. cover.moving # "none" /\ cover.stop = NoStop
  BY DEF MotionInv, Sound, IsArmed, DeadlineRuns
<1> QED
  BY <1>1, SMT DEF MotionInv, Sound, Ran, Shaped, Fields

\* The deadline fires, is taken back, ends the run or hands it to a stop.
LEMMA DeadlineKeeps == ASSUME MotionInv, TimerFires \/ Deadline PROVE MotionInv'
<1>1. ASSUME UNCHANGED <<pathVars, actuatorVars, relay>>, Sound(cover'),
             Waiting(cover') \subseteq Waiting(cover)
      PROVE  MotionInv'
  BY <1>1, CoverOnly DEF MotionInv, ActuatorInv, actuatorVars
<1>2. CASE TimerFires
  <2>1. Sound(cover') /\ Waiting(cover') = Waiting(cover)
    BY <1>2, SMT DEF TimerFires, MotionInv, Sound, Shaped, IsArmed, Fields, Waiting, Off
  <2> QED
    BY <1>1, <1>2, <2>1 DEF TimerFires
<1>3. CASE DeadlineOutdated
  <2>1. Sound(cover') /\ Waiting(cover') = Waiting(cover)
    BY <1>3, SMT DEF DeadlineOutdated, MotionInv, Sound, Shaped, IsArmed, Fields, Waiting, Off
  <2> QED
    BY <1>1, <1>3, <2>1 DEF DeadlineOutdated
<1>4. CASE DeadlineTooEarly
  <2>1. DeadlineRuns
    BY <1>4 DEF DeadlineTooEarly
  <2>2. \E d \in Int : cover' = ArmIn(Ran, d)
    BY <1>4, <2>1, RanShape, DurationIsInt, AwaitedIsSent DEF DeadlineTooEarly, ArmDeadline
  <2>3. Sound(cover') /\ Waiting(cover') \subseteq Waiting(cover)
    BY <2>1, <2>2, RanShape, ArmingArms, NoStopShape DEF Sound, Waiting
  <2> QED
    BY <1>1, <1>4, <2>3 DEF DeadlineTooEarly
<1>5. CASE DeadlineFreeRun
  <2>1. DeadlineRuns
    BY <1>5 DEF DeadlineFreeRun, RunIsOver
  <2>2. cover.end \in Int
    BY AwaitedIsSent DEF Shaped
  <2>3. Sound(cover') /\ Waiting(cover') = {}
    BY <1>5, <2>1, <2>2, RanShape, FinishEnds, NoStopShape DEF DeadlineFreeRun, Quiet, Waiting
  <2> QED
    BY <1>1, <1>5, <2>3 DEF DeadlineFreeRun
<1>6. CASE DeadlineStops
  <2>1. DeadlineRuns
    BY <1>6 DEF DeadlineStops, RunIsOver
  <2>2. Duration(cover) \in Int /\ cover.end \in Int
    BY AwaitedIsSent, DurationIsInt DEF Shaped
  <2>3. Sound(cover') /\ Waiting(cover') \subseteq Waiting(cover) \cup {nextId}
    BY <1>6, <2>1, <2>2, RanShape, StopQueuedSound, AwaitedIsSent DEF DeadlineStops
  <2>4. Sound(cover') /\ PathInv' /\ WaitsInv'
    BY <1>6, <2>3, QueueKeeps DEF DeadlineStops, Frames
  <2>5. ActuatorInv'
    BY <1>6 DEF DeadlineStops, actuatorVars, MotionInv, ActuatorInv
  <2> QED
    BY <2>4, <2>5 DEF MotionInv
<1>7. CASE DeadlineStopRefused
  <2>1. DeadlineRuns
    BY <1>7 DEF DeadlineStopRefused, RunIsOver
  <2>2. Sound(cover') /\ Waiting(cover') = {}
    BY <1>7, <2>1, RanShape, ContinueSound, NoStopShape DEF DeadlineStopRefused, Waiting
  <2> QED
    BY <1>1, <1>7, <2>2 DEF DeadlineStopRefused
<1> QED
  BY <1>2, <1>3, <1>4, <1>5, <1>6, <1>7 DEF Deadline

\* The re-check only sends a request.
LEMMA EchoRecheckKeeps == ASSUME MotionInv, EchoRecheck PROVE MotionInv'
<1>1. Sound(cover') /\ Waiting(cover') = Waiting(cover)
  BY SMT DEF EchoRecheck, MotionInv, Sound, Shaped, IsArmed, Fields, Waiting
<1> QED
  BY <1>1, CoverOnly DEF EchoRecheck, MotionInv, ActuatorInv, actuatorVars

\* The frame that leaves the queue is on the wire.
LEMMA HeadAndTail == ASSUME PathInv, line # <<>>
  PROVE /\ Head(line) \in FrameType /\ Tail(line) \in Seq(FrameType)
        /\ \A i \in DOMAIN line : line[i] = Head(line) \/ \E j \in DOMAIN Tail(line) : Tail(line)[j] = line[i]
<1>1. line \in Seq(FrameType)
  BY DEF PathInv
<1>2. Head(line) \in FrameType /\ Tail(line) \in Seq(FrameType)
  BY <1>1, SMT
<1>3. ASSUME NEW i \in DOMAIN line, i # 1
      PROVE  i - 1 \in DOMAIN Tail(line) /\ Tail(line)[i - 1] = line[i]
  BY <1>1, <1>3, SMT
<1>4. Head(line) = line[1]
  BY <1>1, SMT
<1> QED
  BY <1>2, <1>3, <1>4

\* Writing moves a frame from the queue to the wire.
LEMMA WriteKeeps == ASSUME MotionInv, Write PROVE MotionInv'
<1>1. PathInv /\ line # <<>> /\ wire = Idle /\ UNCHANGED <<cover, nextId>>
      /\ wire' = [id |-> Head(line).id, kind |-> Head(line).kind, age |-> 0] /\ line' = Tail(line)
  BY DEF Write, MotionInv
<1>2. Head(line).id \in Nat \ {0} /\ Head(line).kind \in Frames
  BY <1>1, HeadAndTail DEF FrameType
<1>3. PathInv'
  BY <1>1, <1>2, HeadAndTail, SMT DEF PathInv
<1>4. ASSUME NEW id \in Nat \ {0}, InPath(id) PROVE InPath(id)'
  <2>1. wire.id # id
    BY <1>1 DEF Idle
  <2>2. PICK i \in DOMAIN line : line[i].id = id
    BY <1>4, <2>1 DEF InPath
  <2>3. CASE line[i] = Head(line)
    BY <1>1, <2>2, <2>3 DEF InPath
  <2>4. CASE \E j \in DOMAIN Tail(line) : Tail(line)[j] = line[i]
    BY <1>1, <2>2, <2>4 DEF InPath
  <2> QED
    BY <1>1, <2>3, <2>4, HeadAndTail
<1>5. WaitsInv'
  BY <1>1, <1>4 DEF MotionInv, WaitsInv, Waiting, Sound, Shaped
<1>6. ActuatorInv'
  <2> DEFINE kind == Head(line).kind
  <2>1. kind \in Frames /\ motor \in Directions \cup {"none"}
    BY <1>2 DEF MotionInv, ActuatorInv
  <2>2. CASE kind = "stop"
    <3>1. /\ motor' = motor /\ starting' = NotStarting
          /\ relay' = [what |-> {motor} \cap Directions, left |-> EchoWindow]
      BY <2>2, Zenon DEF Write
    <3>2. EchoWindow \in Int
      BY MotionAssumption DEF MotionAssumption
    <3> QED
      BY <2>1, <3>1, <3>2, SMT DEF ActuatorInv, NotStarting, Frames, Directions
  <2>3. CASE kind # "stop"
    <3>1. /\ relay' = [what |-> {"stop", kind}, left |-> MirrorWindow]
          /\ \/ motor' = motor /\ starting' = starting
             \/ motor' = "none" /\ starting' = [dir |-> kind, age |-> 0]
      BY <2>3, Zenon DEF Write
    <3>2. MirrorWindow \in Int /\ kind \in Directions
      BY <2>1, <2>3, MotionAssumption DEF MotionAssumption, Frames
    <3>3. relay' \in [what: SUBSET Frames, left: Int]
      BY <2>1, <3>1, <3>2, SMT DEF Frames
    <3> QED
      BY <2>1, <3>1, <3>2, <3>3, SMT DEF MotionInv, ActuatorInv, NotStarting, Directions
  <2> QED
    BY <2>2, <2>3
<1> QED
  BY <1>1, <1>3, <1>5, <1>6 DEF MotionInv

\* A report takes its frame out of the path and out of what is waited for.
LEMMA ReportKeeps == ASSUME MotionInv, Report \/ DropWritten PROVE MotionInv'
<1>1. PathInv /\ wire # Idle /\ wire.id \in Nat \ {0} /\ wire.age \in Int
  BY DEF Report, DropWritten, MotionInv, PathInv
<1>2. wire' = Idle /\ UNCHANGED <<line, nextId, actuatorVars, relay>>
  BY DEF Report, DropWritten
<1>3. Sound(cover') /\ Waiting(cover') \subseteq Waiting(cover) \ {wire.id}
  BY <1>1, DeliveredSound, NotDeliveredSound DEF Report, DropWritten, MotionInv
<1>4. PathInv'
  BY <1>1, <1>2, SMT DEF PathInv, Idle
<1>5. WaitsInv'
  BY <1>2, <1>3 DEF MotionInv, WaitsInv, InPath
<1> QED
  BY <1>2, <1>3, <1>4, <1>5 DEF MotionInv, ActuatorInv, actuatorVars

\* A dropped frame leaves the path and what is waited for, also when it was a stop.
LEMMA DropKeeps == ASSUME MotionInv, Drop PROVE MotionInv'
<1>1. /\ PathInv /\ line # <<>> /\ wire = Idle
      /\ line' = Tail(line) /\ UNCHANGED <<wire, nextId, actuatorVars, relay>>
  BY DEF Drop, MotionInv
<1>2. Head(line).id \in Nat \ {0}
  BY <1>1, HeadAndTail DEF FrameType
<1>3. Sound(cover') /\ Waiting(cover') \subseteq Waiting(cover) \ {Head(line).id}
  BY <1>2, NotDeliveredSound DEF Drop, MotionInv
<1>4. PathInv'
  BY <1>1, HeadAndTail DEF PathInv
<1>5. ASSUME NEW id \in Nat \ {0}, InPath(id), id # Head(line).id PROVE InPath(id)'
  <2>1. PICK i \in DOMAIN line : line[i].id = id
    BY <1>1, <1>5 DEF InPath, Idle
  <2>2. \E j \in DOMAIN Tail(line) : Tail(line)[j] = line[i]
    BY <1>1, <1>5, <2>1, HeadAndTail
  <2> QED
    BY <1>1, <2>1, <2>2 DEF InPath
<1>6. WaitsInv'
  BY <1>1, <1>3, <1>5 DEF MotionInv, WaitsInv, Waiting, Sound, Shaped
<1> QED
  BY <1>1, <1>3, <1>4, <1>6 DEF MotionInv, ActuatorInv, actuatorVars

\* What the monitor session shows, whoever caused it.
LEMMA BusKeeps ==
  ASSUME MotionInv, Relay \/ MotorStarts \/ MotorStops \/ HitsEndStop \/ Keypad \/ StatusAnswer
  PROVE  MotionInv'
<1>1. UNCHANGED pathVars
  BY DEF Relay, MotorStarts, MotorStops, HitsEndStop, Keypad, KeypadMoves, KeypadStops, StatusAnswer
<1>2. Sound(cover') /\ Waiting(cover') \subseteq Waiting(cover)
  <2>1. CASE Relay
    BY <2>1, HandleSound DEF Relay, MotionInv, ActuatorInv
  <2>2. CASE MotorStarts
    BY <2>2, SeesSound DEF MotorStarts, MotionInv, ActuatorInv, Frames
  <2>3. CASE MotorStops \/ HitsEndStop \/ KeypadStops
    BY <2>3, SeesSound DEF MotorStops, HitsEndStop, KeypadStops, Frames
  <2>4. ASSUME NEW dir \in Directions, KeypadMoves(dir)
        PROVE  Sound(cover') /\ Waiting(cover') \subseteq Waiting(cover)
    BY <2>4, SeesSound DEF KeypadMoves, Frames
  <2>5. CASE StatusAnswer
    <3>1. Status \in Frames
      BY DEF Status, MotionInv, ActuatorInv, Frames
    <3> QED
      BY <2>5, <3>1, SeesSound DEF StatusAnswer
  <2> QED
    BY <2>1, <2>2, <2>3, <2>4, <2>5 DEF Keypad
<1>3. ActuatorInv'
  <2>1. CASE Relay
    BY <2>1, SMT DEF Relay, actuatorVars, MotionInv, ActuatorInv
  <2>2. CASE MotorStarts \/ MotorStops \/ HitsEndStop \/ Keypad \/ StatusAnswer
    BY <2>2, SMT DEF MotorStarts, MotorStops, HitsEndStop, Keypad, KeypadMoves, KeypadStops,
       StatusAnswer, actuatorVars, MotionInv, ActuatorInv, NotStarting
  <2> QED
    BY <2>1, <2>2
<1> QED
  BY <1>1, <1>2, <1>3, CoverOnly DEF MotionInv

\* An age that stops at the horizon is still an integer.
LEMMA AgesAreInts == ASSUME NEW t \in Int
  PROVE Least(t + 1, Horizon) \in Int /\ Down(t) \in Int
<1>1. Horizon \in Int
  BY MotionAssumption, SMT DEF MotionAssumption, Horizon
<1> QED
  BY <1>1, SMT DEF Least, Down, Off

\* Time alone arms, disarms, sends and answers nothing.
LEMMA TickKeeps == ASSUME MotionInv, Tick PROVE MotionInv'
<1>1. cover.timer # 0 /\ Shaped(cover)
  BY DEF Tick, Due, MotionInv, Sound
<1>2. Sound(cover') /\ Waiting(cover') = Waiting(cover)
  <2> DEFINE clock == IF cover.moving = "none" THEN 0 ELSE Least(cover.clock + 1, Horizon)
             stop == Waited(cover.stop)
             recheck == Down(cover.recheck)
             written == Older(cover.written)
             ownAt == Older(cover.ownAt)
             timer == Down(cover.timer)
  <2>1. cover' = [cover EXCEPT !.clock = clock, !.timer = timer, !.recheck = recheck,
                               !.written = written, !.ownAt = ownAt, !.stop = stop]
    BY DEF Tick
  <2>2. clock \in Int /\ Least(cover.stop.age + 1, Horizon) \in Int /\ timer \in Int
    <3>1. cover.clock \in Int /\ cover.stop.age \in Int /\ cover.timer \in Int /\ 0 \in Int
      BY <1>1, SMT DEF Shaped
    <3> QED
      BY <3>1, AgesAreInts
  <2>3. timer = Off <=> cover.timer = Off
    BY <1>1, SMT DEF Down, Off, Shaped
  <2> HIDE DEF clock, recheck, written, ownAt, timer
  <2>4. /\ DOMAIN stop = StopFields /\ stop.frame = cover.stop.frame
        /\ stop.frozen \in Int /\ stop.base \in Int /\ stop.age \in Int
    BY <1>1, <2>2, SMT DEF Waited, Shaped, StopFields
  <2>5. stop = NoStop <=> cover.stop = NoStop
    <3>1. cover.stop # NoStop => cover.stop.frame # 0
      BY DEF MotionInv, Sound
    <3>2. cover.stop = NoStop => stop = NoStop
      BY DEF Waited
    <3> QED
      BY <2>4, <3>1, <3>2, NoStopShape
  <2> HIDE DEF stop
  <2>6. /\ DOMAIN cover' = Fields
        /\ cover'.moving = cover.moving /\ cover'.from = cover.from /\ cover'.clock = clock
        /\ cover'.target = cover.target /\ cover'.end = cover.end /\ cover'.pos = cover.pos
        /\ cover'.timer = timer /\ cover'.fired = cover.fired
        /\ cover'.awaited = cover.awaited /\ cover'.stop = stop
    BY <1>1, <2>1, SMT DEF Shaped, Fields
  <2>7. Shaped(cover')
    BY <1>1, <2>2, <2>4, <2>6 DEF Shaped
  <2>8. IsArmed(cover') <=> IsArmed(cover)
    BY <2>3, <2>6 DEF IsArmed
  <2> QED
    BY <2>4, <2>5, <2>6, <2>7, <2>8 DEF MotionInv, Sound, Waiting
<1>3. PathInv' /\ (\A id : InPath(id) => InPath(id)') /\ nextId' = nextId
  <2>1. UNCHANGED <<line, nextId>> /\ wire' = IF wire = Idle THEN Idle ELSE [wire EXCEPT !.age = @ + 1]
    BY DEF Tick
  <2>2. /\ wire' \in [id: Nat, kind: Frames \cup {"none"}, age: Int]
        /\ wire'.id = wire.id /\ (wire' # Idle => wire # Idle)
    BY <2>1, SMT DEF MotionInv, PathInv, Idle
  <2> QED
    BY <2>1, <2>2 DEF MotionInv, PathInv, InPath
<1>4. ActuatorInv'
  <2>1. starting' \in [dir: Directions \cup {"none"}, age: Int]
        /\ (starting' # NotStarting => starting'.dir \in Directions)
    BY SMT DEF Tick, MotionInv, ActuatorInv, NotStarting
  <2>2. relay' \in [what: SUBSET Frames, left: Int]
    BY SMT DEF Tick, MotionInv, ActuatorInv, Silent
  <2> QED
    BY <2>1, <2>2 DEF Tick, MotionInv, ActuatorInv
<1> QED
  BY <1>2, <1>3, <1>4 DEF MotionInv, WaitsInv

--------------------------------------------------------------------------
(* The theorems *)

\* Every step keeps the strengthening.
LEMMA MotionStep == MotionInv /\ [MotionNext]_motionVars => MotionInv'
<1> SUFFICES ASSUME MotionInv, [MotionNext]_motionVars PROVE MotionInv'
  OBVIOUS
<1>1. CASE Command
  BY <1>1, CommandKeeps
<1>2. CASE TimerFires \/ Deadline
  BY <1>2, DeadlineKeeps
<1>3. CASE EchoRecheck
  BY <1>3, EchoRecheckKeeps
<1>4. CASE Write
  BY <1>4, WriteKeeps
<1>5. CASE Report \/ DropWritten
  BY <1>5, ReportKeeps
<1>6. CASE Drop
  BY <1>6, DropKeeps
<1>7. CASE Relay \/ MotorStarts \/ MotorStops \/ HitsEndStop \/ Keypad \/ StatusAnswer
  BY <1>7, BusKeeps
<1>8. CASE Tick
  BY <1>8, TickKeeps
<1>9. CASE UNCHANGED motionVars
  BY <1>9 DEF motionVars, MotionInv, PathInv, ActuatorInv, WaitsInv, InPath
<1> QED
  BY <1>1, <1>2, <1>3, <1>4, <1>5, <1>6, <1>7, <1>8, <1>9 DEF MotionNext

\* The strengthening holds in every state of every behaviour.
LEMMA MotionInvHolds == MotionSpec => []MotionInv
  BY MotionInvInit, MotionStep, PTL DEF MotionSpec

\* While the entity shows a movement, exactly one of the end-of-run deadline and a
\* stop on its way will end it, and at rest no deadline is left: for every travel
\* time, start delay, window and answer time, and for any number of commands,
\* key presses, refusals and losses (cover.py: _arm_deadline_in, _async_send_stop,
\* _continue_to_end_stop).
THEOREM RunsEndOnce == MotionSpec => []OneThingEndsARun
  BY MotionInvHolds, MotionInvImplies, PTL

\* A frame the cover waits for is in the queue or on the wire, so that its report
\* is still to come: neither the movement's delivery nor _pending_stop outlives a
\* command that was settled, refused or superseded (cover.py:
\* _apply_movement_delivery, _apply_stop_delivery, _cancel_timers).
THEOREM NoReportIsMissed == MotionSpec => []WaitsForLiveFrames
  BY MotionInvHolds, MotionInvImplies, PTL

--------------------------------------------------------------------------
(* The types.  MotionInv is known before and after a step, so that of a    *)
(* record only its ranges are left to show.                                *)

Ways == Directions \cup {"none"}
Places == 0..Full
Timers == Nat \cup {Off}

\* A record of these fields and nothing more, each in its range.
Whole(m) == m = [f \in Fields |-> m[f]] /\ m.stop = [f \in StopFields |-> m.stop[f]]
Ranged(m) ==
    /\ Whole(m)
    /\ m.moving \in Ways /\ m.ownCommand \in Ways /\ m.stoppedDir \in Ways
    /\ m.from \in Places /\ m.end \in Places
    /\ m.target \in Places \cup {NoTarget} /\ m.pos \in Places \cup {Unknown}
    /\ m.clock \in (-StartDelay)..Horizon
    /\ m.ownAt \in Timers /\ m.timer \in Timers /\ m.recheck \in Timers /\ m.written \in Timers
    /\ m.ownFreeRun \in BOOLEAN /\ m.afterRestart \in BOOLEAN /\ m.started \in BOOLEAN
    /\ m.fired \in SUBSET {"current", "stale"}
    /\ m.awaited \in Nat
    /\ m.stop.frame \in Nat /\ m.stop.interrupted \in Ways
    /\ m.stop.frozen \in Places \cup {Unknown}
    /\ m.stop.base \in Int /\ m.stop.age \in Nat /\ m.stop.rebased \in BOOLEAN

\* A record in its ranges is one of the type.
LEMMA RangedIsTyped == ASSUME NEW m, Ranged(m) PROVE m \in CoverType
<1> DEFINE Stops == [frame: Nat, interrupted: Ways, frozen: Places \cup {Unknown},
                     base: Int, age: Nat, rebased: BOOLEAN]
           s == m.stop
<1>1. s \in Stops
  <2>1. s = [frame |-> s.frame, interrupted |-> s.interrupted, frozen |-> s.frozen,
             base |-> s.base, age |-> s.age, rebased |-> s.rebased]
    BY SMT DEF Ranged, Whole, StopFields
  <2> QED
    BY <2>1, SMT DEF Ranged
<1> QED
  BY <1>1, SMT DEF Ranged, Whole, Fields, CoverType, Ways, Places, Timers

\* What the types need of the constants.
LEMMA Ranges ==
  /\ StartDelay \in Nat /\ StopLatency \in Nat /\ Full \in Nat \ {0} /\ RecheckDelay \in Nat
  /\ Horizon \in Nat /\ Memory \in Nat
  /\ 0 \in Places /\ Full \in Places /\ 0 \in (-StartDelay)..Horizon
  /\ -StartDelay \in (-StartDelay)..Horizon
  BY MotionAssumption, SMT DEF MotionAssumption, Places, Horizon, Memory, Greatest

--------------------------------------------------------------------------
(* The operators keep the ranges *)

\* A position reached by travelling lies between the ends.
LEMMA TravelStays ==
  ASSUME NEW dir, NEW from \in Places, NEW elapsed \in Nat PROVE Travel(dir, from, elapsed) \in Places
  BY Ranges, SMT DEF Travel, Least, Greatest, Places

\* What is at least zero is a natural number.
LEMMA LaterIsNat == ASSUME NEW e \in Int PROVE Greatest(0, e) \in Nat
  BY SMT DEF Greatest

\* The estimate, now or a while ahead, is a place where the position is known.
LEMMA EstimateStays ==
  ASSUME NEW m, Ranged(m), NEW ahead \in Int
  PROVE  /\ Estimate(m, ahead) \in Places \cup {Unknown}
         /\ m.moving # "none" => Estimate(m, ahead) \in Places
<1>1. m.clock + ahead \in Int
  BY Ranges, SMT DEF Ranged
<1> QED
  BY <1>1, LaterIsNat, TravelStays DEF Estimate, Ranged

\* The length of a run and what remains of it, of a record in its ranges.
LEMMA DurationStays == ASSUME NEW m, Ranged(m) PROVE Duration(m) \in Int /\ Remaining(m) \in Int
  BY Ranges, SMT DEF Duration, Remaining, StopOffset, TravelTime, Ranged, Places

\* An end stop is a place.
LEMMA EndStopStays == ASSUME NEW dir PROVE EndStopOf(dir) \in Places
  BY Ranges DEF EndStopOf

\* The record that stands for no stop, in its ranges.
LEMMA NoStopRanged ==
  /\ NoStop = [f \in StopFields |-> NoStop[f]]
  /\ NoStop.frame \in Nat /\ NoStop.interrupted \in Ways /\ NoStop.frozen \in Places \cup {Unknown}
  /\ NoStop.base \in Int /\ NoStop.age \in Nat /\ NoStop.rebased \in BOOLEAN
  BY Ranges, SMT DEF NoStop, StopFields, Ways

\* The values that stand for nothing, in their ranges.
LEMMA NothingRanged ==
  /\ Off \in Timers /\ NoTarget \in Places \cup {NoTarget} /\ "none" \in Ways
  /\ Directions \subseteq Ways /\ Nat \subseteq Timers /\ 0 \in Timers
  /\ \A fired : Outdated(fired) \in SUBSET {"current", "stale"}
  BY SMT DEF Timers, Ways, Outdated

\* Cancelling the timers keeps the ranges.
LEMMA CancelTimersStays == ASSUME NEW m, Ranged(m)
  PROVE Ranged(CancelTimers(m)) /\ CancelTimers(m).from = m.from /\ CancelTimers(m).pos = m.pos
<1> DEFINE fired == Outdated(m.fired)
           c == [m EXCEPT !.awaited = 0, !.stop = NoStop, !.timer = Off, !.recheck = Off, !.fired = fired]
<1>1. CancelTimers(m) = c
  BY SMT DEF CancelTimers, Ranged, Whole, Fields
<1> HIDE DEF fired
<1>2. DOMAIN m = Fields /\ {"awaited", "stop", "timer", "recheck", "fired"} \subseteq Fields
  BY DEF Ranged, Whole, Fields
<1>3. c = [f \in Fields |-> c[f]]
  BY <1>2, Zenon
<1>7. c.awaited = 0 /\ c.stop = NoStop /\ c.timer = Off /\ c.recheck = Off /\ c.fired = fired
  BY <1>2, SMT
<1>4. ASSUME NEW f \in Fields \ {"awaited", "stop", "timer", "recheck", "fired"} PROVE c[f] = m[f]
  BY <1>2, <1>4, Zenon
<1> HIDE DEF c
<1>5. fired \in SUBSET {"current", "stale"}
  BY NothingRanged DEF fired
<1>6. Ranged(c)
  BY <1>3, <1>4, <1>5, <1>7, NothingRanged, NoStopRanged, SMT DEF Ranged, Whole, Fields
<1> QED
  BY <1>1, <1>4, <1>6, SMT DEF Fields

\* A record of which a few fields are written anew.
LEMMA FinishStays == ASSUME NEW m, Ranged(m), NEW p \in Places \cup {Unknown} PROVE Ranged(Finish(m, p))
<1> DEFINE c == CancelTimers(m)
           pos == IF p = Unknown THEN c.pos ELSE p
           new == {"moving", "from", "clock", "target", "end", "ownFreeRun", "afterRestart", "pos"}
           d == [c EXCEPT !.moving = "none", !.from = 0, !.clock = 0, !.target = NoTarget, !.end = 0,
                          !.ownFreeRun = FALSE, !.afterRestart = FALSE, !.pos = pos]
<1>1. Ranged(c)
  BY CancelTimersStays
<1>2. Finish(m, p) = d
  <2>1. DOMAIN c = Fields
    BY <1>1 DEF Ranged, Whole
  <2> HIDE DEF c
  <2> QED
    BY <2>1, SMT DEF Finish, c, Fields
<1> HIDE DEF c
<1>3. pos \in Places \cup {Unknown}
  BY <1>1 DEF Ranged
<1> HIDE DEF pos
<1>4. DOMAIN c = Fields /\ new \subseteq Fields
  BY <1>1 DEF Ranged, Whole, Fields
<1>5. d = [f \in Fields |-> d[f]]
  BY <1>4, Zenon
<1>6. /\ d.moving = "none" /\ d.from = 0 /\ d.clock = 0 /\ d.target = NoTarget /\ d.end = 0
      /\ d.ownFreeRun = FALSE /\ d.afterRestart = FALSE /\ d.pos = pos
  BY <1>4, SMT
<1>7. /\ d.ownAt = c.ownAt /\ d.ownCommand = c.ownCommand /\ d.stoppedDir = c.stoppedDir
      /\ d.timer = c.timer /\ d.fired = c.fired /\ d.recheck = c.recheck
      /\ d.awaited = c.awaited /\ d.stop = c.stop /\ d.written = c.written
      /\ d.started = c.started
  BY <1>4, SMT DEF Fields
<1> HIDE DEF d
<1>8. Ranged(d)
  BY <1>1, <1>3, <1>5, <1>6, <1>7, Ranges, NothingRanged DEF Ranged, Whole
<1> QED
  BY <1>2, <1>8

\* The deadline is armed at once or later.
LEMMA ArmStays == ASSUME NEW m, Ranged(m), NEW d \in Int PROVE Ranged(ArmIn(m, d))
<1> DEFINE t == Greatest(0, d)
           fired == Outdated(m.fired)
           a == [m EXCEPT !.timer = t, !.fired = fired]
<1>1. DOMAIN m = Fields /\ {"timer", "fired"} \subseteq Fields
  BY DEF Ranged, Whole, Fields
<1>2. ArmIn(m, d) = a
  BY <1>1, SMT DEF ArmIn
<1>3. t \in Timers /\ fired \in SUBSET {"current", "stale"}
  BY LaterIsNat, NothingRanged
<1> HIDE DEF t, fired
<1>4. a = [f \in Fields |-> a[f]]
  BY <1>1, Zenon
<1>5. a.timer = t /\ a.fired = fired
  BY <1>1, SMT
<1>6. ASSUME NEW f \in Fields \ {"timer", "fired"} PROVE a[f] = m[f]
  BY <1>1, <1>6, Zenon
<1> HIDE DEF a
<1> QED
  BY <1>2, <1>3, <1>4, <1>5, <1>6, SMT DEF Ranged, Whole, Fields

\* So does re-arming it for what remains of the run.
LEMMA ArmDeadlineStays == ASSUME NEW m, Ranged(m) PROVE Ranged(ArmDeadline(m))
  BY ArmStays, DurationStays DEF ArmDeadline

\* A new movement starts where the estimate is, or at the end it leaves.
LEMMA StartStays ==
  ASSUME NEW m, Ranged(m), NEW dir \in Directions, NEW target \in Places \cup {NoTarget}, NEW frame \in Nat
  PROVE  Ranged(Start(m, dir, target, frame))
<1> DEFINE now == Estimate(m, 0)
           c == CancelTimers(m)
           from == IF now # Unknown THEN now ELSE EndStopOf(IF dir = "up" THEN "down" ELSE "up")
           clock == IF frame # 0 THEN -StartDelay ELSE 0
           end == IF target = NoTarget THEN EndStopOf(dir) ELSE target
           own == IF frame # 0 THEN 0 ELSE Off
           command == IF frame # 0 THEN dir ELSE "none"
           free == (frame # 0 /\ target = NoTarget)
           new == {"moving", "from", "clock", "target", "end", "written", "started", "ownAt",
                   "ownCommand", "stoppedDir", "ownFreeRun", "afterRestart"}
           begun == [c EXCEPT
            !.moving = dir, !.from = from, !.clock = clock, !.target = target, !.end = end,
            !.written = Off, !.started = FALSE,
            !.ownAt = own, !.ownCommand = command, !.stoppedDir = "none",
            !.ownFreeRun = free,
            !.afterRestart = FALSE]
           armed == ArmDeadline(begun)
<1>1. Ranged(c)
  BY CancelTimersStays
<1>2. /\ from \in Places /\ end \in Places /\ clock \in (-StartDelay)..Horizon
      /\ own \in Timers /\ command \in Ways /\ free \in BOOLEAN /\ dir \in Ways
  BY EstimateStays, EndStopStays, NothingRanged, Ranges
<1>3. Start(m, dir, target, frame)
        = IF Duration(begun) <= 0 THEN Finish(begun, begun.end) ELSE [armed EXCEPT !.awaited = frame]
  BY DEF Start
<1> HIDE DEF now, c, from, clock, end, own, command, free
<1>4. Ranged(begun)
  <2>1. DOMAIN c = Fields /\ new \subseteq Fields
    BY <1>1 DEF Ranged, Whole, Fields
  <2>2. begun = [f \in Fields |-> begun[f]]
    BY <2>1, Zenon
  <2>3. /\ begun.moving = dir /\ begun.from = from /\ begun.clock = clock /\ begun.target = target
        /\ begun.end = end /\ begun.written = Off /\ begun.started = FALSE /\ begun.ownAt = own
        /\ begun.ownCommand = command /\ begun.stoppedDir = "none" /\ begun.ownFreeRun = free
        /\ begun.afterRestart = FALSE
    BY <2>1, SMT
  <2>4. /\ begun.pos = c.pos /\ begun.timer = c.timer /\ begun.fired = c.fired
        /\ begun.recheck = c.recheck /\ begun.awaited = c.awaited /\ begun.stop = c.stop
    BY <2>1, SMT DEF Fields
  <2> HIDE DEF begun
  <2> QED
    BY <1>1, <1>2, <2>2, <2>3, <2>4, NothingRanged DEF Ranged, Whole
<1> HIDE DEF begun
<1>5. Ranged(Finish(begun, begun.end))
  BY <1>4, FinishStays DEF Ranged
<1>6. Ranged([armed EXCEPT !.awaited = frame])
  <2>1. Ranged(armed)
    BY <1>4, ArmDeadlineStays
  <2> HIDE DEF armed
  <2> DEFINE e == [armed EXCEPT !.awaited = frame]
  <2>2. DOMAIN armed = Fields /\ "awaited" \in Fields
    BY <2>1 DEF Ranged, Whole, Fields
  <2>3. e = [f \in Fields |-> e[f]] /\ e.awaited = frame
    BY <2>2, Zenon
  <2>4. ASSUME NEW f \in Fields \ {"awaited"} PROVE e[f] = armed[f]
    BY <2>2, <2>4, Zenon
  <2> HIDE DEF e
  <2>5. Ranged(e)
    BY <2>1, <2>3, <2>4, SMT DEF Ranged, Whole, Fields
  <2> QED
    BY <2>5 DEF e
<1> QED
  BY <1>3, <1>5, <1>6

\* A run that goes on to its end stop keeps what was known of its frame.
LEMMA ContinueStays == ASSUME NEW m, Ranged(m) PROVE Ranged(ContinueToEndStop(m))
<1> DEFINE s == Start(m, m.moving, NoTarget, 0)
           at == m.ownAt
           command == m.ownCommand
           restart == (m.ownAt # Off)
           e == [s EXCEPT !.ownAt = at, !.ownCommand = command, !.afterRestart = restart,
                          !.ownFreeRun = TRUE]
<1>1. CASE m.moving = "none"
  BY <1>1 DEF ContinueToEndStop
<1>2. CASE m.moving # "none"
  <2>1. m.moving \in Directions /\ 0 \in Nat
    BY <1>2, Ranges DEF Ranged, Ways
  <2>2. Ranged(s)
    BY <2>1, NothingRanged, StartStays
  <2>3. at \in Timers /\ command \in Ways /\ restart \in BOOLEAN
    BY DEF Ranged
  <2>4. ContinueToEndStop(m) = e
    BY <1>2 DEF ContinueToEndStop
  <2> HIDE DEF s, at, command, restart
  <2>5. Ranged(e)
    <3>1. DOMAIN s = Fields /\ {"ownAt", "ownCommand", "afterRestart", "ownFreeRun"} \subseteq Fields
      BY <2>2 DEF Ranged, Whole, Fields
    <3>2. e = [f \in Fields |-> e[f]]
      BY <3>1, Zenon
    <3>3. /\ e.ownAt = at /\ e.ownCommand = command /\ e.afterRestart = restart
          /\ e.ownFreeRun = TRUE
      BY <3>1, SMT
    <3>4. /\ e.moving = s.moving /\ e.from = s.from /\ e.clock = s.clock
          /\ e.target = s.target /\ e.end = s.end /\ e.pos = s.pos
          /\ e.stoppedDir = s.stoppedDir /\ e.timer = s.timer /\ e.fired = s.fired
          /\ e.recheck = s.recheck /\ e.awaited = s.awaited /\ e.stop = s.stop
          /\ e.written = s.written /\ e.started = s.started
      BY <3>1, SMT DEF Fields
    <3> HIDE DEF e
    <3> QED
      BY <2>2, <3>2, <3>3, <3>4, <2>3 DEF Ranged, Whole
  <2> QED
    BY <2>4, <2>5
<1> QED
  BY <1>1, <1>2

\* A stop that is out learns that the clock was moved.
LEMMA RebasedStays == ASSUME NEW m, Ranged(m), NEW clock \in (-StartDelay)..Horizon
  PROVE Ranged(Rebased(m, clock)) /\ (m.stop = NoStop => Rebased(m, clock).stop = NoStop)
<1> DEFINE stop == IF m.stop = NoStop THEN m.stop ELSE [m.stop EXCEPT !.rebased = TRUE]
           e == [m EXCEPT !.clock = clock, !.stop = stop]
<1>1. /\ stop = [f \in StopFields |-> stop[f]]
      /\ stop.frame = m.stop.frame /\ stop.interrupted = m.stop.interrupted
      /\ stop.frozen = m.stop.frozen /\ stop.base = m.stop.base /\ stop.age = m.stop.age
      /\ stop.rebased \in BOOLEAN
  <2>1. CASE m.stop = NoStop
    BY <2>1 DEF Ranged, Whole
  <2>2. CASE m.stop # NoStop
    <3> DEFINE s == m.stop
               r == [s EXCEPT !.rebased = TRUE]
    <3>1. DOMAIN s = StopFields
      BY DEF Ranged, Whole
    <3> HIDE DEF s
    <3>2. r = [f \in StopFields |-> r[f]]
      BY <3>1, Zenon
    <3>4. /\ r.frame = s.frame /\ r.interrupted = s.interrupted
          /\ r.frozen = s.frozen /\ r.base = s.base /\ r.age = s.age /\ r.rebased = TRUE
      BY <3>1, SMT DEF StopFields
    <3>3. stop = r
      BY <2>2 DEF s
    <3> HIDE DEF r, stop
    <3> QED
      BY <3>2, <3>3, <3>4 DEF s
  <2> QED
    BY <2>1, <2>2
<1>2. Rebased(m, clock) = e
  <2>1. DOMAIN m = Fields
    BY DEF Ranged, Whole
  <2> QED
    BY <2>1, SMT DEF Rebased, Fields
<1>3. m.stop = NoStop => stop = NoStop
  OBVIOUS
<1> HIDE DEF stop
<1>4. Ranged(e) /\ e.stop = stop
  <2>1. DOMAIN m = Fields /\ {"clock", "stop"} \subseteq Fields
    BY DEF Ranged, Whole, Fields
  <2>2. e = [f \in Fields |-> e[f]]
    BY <2>1, Zenon
  <2>3. e.clock = clock /\ e.stop = stop
    BY <2>1, SMT
  <2>4. /\ e.moving = m.moving /\ e.from = m.from /\ e.target = m.target /\ e.end = m.end
        /\ e.pos = m.pos /\ e.ownAt = m.ownAt /\ e.ownCommand = m.ownCommand
        /\ e.stoppedDir = m.stoppedDir /\ e.ownFreeRun = m.ownFreeRun
        /\ e.afterRestart = m.afterRestart /\ e.timer = m.timer /\ e.fired = m.fired
        /\ e.recheck = m.recheck /\ e.awaited = m.awaited /\ e.written = m.written
        /\ e.started = m.started
    BY <2>1, SMT DEF Fields
  <2> HIDE DEF e
  <2> QED
    BY <2>2, <2>3, <2>4, <1>1 DEF Ranged, Whole
<1> QED
  BY <1>2, <1>3, <1>4

\* A delivered movement frame moves the clock back, never forward.
LEMMA MoveDeliveredStays == ASSUME NEW m, Ranged(m), NEW age \in Nat PROVE Ranged(MoveDelivered(m, age))
<1> DEFINE own == IF m.ownCommand # "none" /\ m.ownAt # Off THEN age ELSE m.ownAt
           heard == [m EXCEPT !.awaited = 0, !.written = age, !.ownAt = own]
           rebased == Rebased(heard, age - StartDelay)
<1>1. own \in Timers /\ age \in Timers
  BY NothingRanged DEF Ranged
<1>2. MoveDelivered(m, age) = IF age - StartDelay >= m.clock THEN heard
                              ELSE IF m.stop = NoStop THEN ArmDeadline(rebased) ELSE rebased
  <2>1. DOMAIN m = Fields
    BY DEF Ranged, Whole
  <2>2. heard = [m EXCEPT !.awaited = 0, !.written = age,
                          !.ownAt = IF m.ownCommand # "none" /\ @ # Off THEN age ELSE @]
    BY <2>1, SMT DEF Fields
  <2> HIDE DEF heard
  <2> QED
    BY <2>2 DEF MoveDelivered
<1> HIDE DEF own
<1>3. Ranged(heard)
  <2>1. DOMAIN m = Fields /\ {"awaited", "written", "ownAt"} \subseteq Fields
    BY DEF Ranged, Whole, Fields
  <2>2. heard = [f \in Fields |-> heard[f]]
    BY <2>1, Zenon
  <2>3. heard.awaited = 0 /\ heard.written = age /\ heard.ownAt = own
    BY <2>1, SMT
  <2>4. /\ heard.moving = m.moving /\ heard.from = m.from /\ heard.clock = m.clock
        /\ heard.target = m.target /\ heard.end = m.end /\ heard.pos = m.pos
        /\ heard.ownCommand = m.ownCommand /\ heard.stoppedDir = m.stoppedDir
        /\ heard.ownFreeRun = m.ownFreeRun /\ heard.afterRestart = m.afterRestart
        /\ heard.timer = m.timer /\ heard.fired = m.fired /\ heard.recheck = m.recheck
        /\ heard.stop = m.stop /\ heard.started = m.started
    BY <2>1, SMT DEF Fields
  <2> HIDE DEF heard
  <2> QED
    BY <2>2, <2>3, <2>4, <1>1, Ranges DEF Ranged, Whole
<1> HIDE DEF heard
<1>4. CASE age - StartDelay >= m.clock
  BY <1>2, <1>3, <1>4
<1>5. CASE ~(age - StartDelay >= m.clock)
  <2>1. age - StartDelay \in (-StartDelay)..Horizon
    BY <1>5, Ranges, SMT DEF Ranged
  <2>2. Ranged(rebased)
    BY <1>3, <2>1, RebasedStays
  <2> QED
    BY <1>2, <1>5, <2>2, ArmDeadlineStays
<1> QED
  BY <1>4, <1>5

\* A dropped movement frame leaves the shutter where the movement began.
LEMMA MoveDroppedStays == ASSUME NEW m, Ranged(m) PROVE Ranged(MoveDropped(m))
<1> DEFINE s == Finish(m, m.from)
           e == [s EXCEPT !.ownCommand = "none", !.ownAt = Off, !.stoppedDir = "none"]
<1>1. Ranged(s)
  BY FinishStays DEF Ranged
<1>2. MoveDropped(m) = e
  BY DEF MoveDropped
<1> HIDE DEF s
<1>3. Ranged(e)
  <2>1. DOMAIN s = Fields /\ {"ownCommand", "ownAt", "stoppedDir"} \subseteq Fields
    BY <1>1 DEF Ranged, Whole, Fields
  <2>2. e = [f \in Fields |-> e[f]]
    BY <2>1, Zenon
  <2>3. e.ownCommand = "none" /\ e.ownAt = Off /\ e.stoppedDir = "none"
    BY <2>1, SMT
  <2>4. /\ e.moving = s.moving /\ e.from = s.from /\ e.clock = s.clock
        /\ e.target = s.target /\ e.end = s.end /\ e.pos = s.pos
        /\ e.ownFreeRun = s.ownFreeRun /\ e.afterRestart = s.afterRestart
        /\ e.timer = s.timer /\ e.fired = s.fired /\ e.recheck = s.recheck
        /\ e.awaited = s.awaited /\ e.stop = s.stop /\ e.written = s.written
        /\ e.started = s.started
    BY <2>1, SMT DEF Fields
  <2> HIDE DEF e
  <2> QED
    BY <1>1, <2>2, <2>3, <2>4, NothingRanged DEF Ranged, Whole
<1> QED
  BY <1>2, <1>3

\* A written stop freezes the shutter between its ends, or where nothing is known.
LEMMA RestingPlaceStays == ASSUME NEW m, Ranged(m), NEW age \in Nat
  PROVE RestingPlace(m, age) \in Places \cup {Unknown}
<1> DEFINE elapsed == IF m.stop.rebased THEN m.clock - age + StopLatency
                      ELSE m.stop.base + (m.stop.age - age)
<1>1. m.clock \in Int /\ m.stop.base \in Int /\ m.stop.age \in Int
  BY Ranges, SMT DEF Ranged
<1>2. elapsed \in Int
  BY <1>1, Ranges, SMT
<1>3. \A dir : Travel(dir, m.from, Greatest(0, elapsed)) \in Places
  BY <1>2, LaterIsNat, TravelStays DEF Ranged
<1> QED
  BY <1>3 DEF RestingPlace, Ranged

\* A delivered stop leaves the shutter at a place, or where nothing is known.
LEMMA StopDeliveredStays == ASSUME NEW m, Ranged(m), NEW age \in Nat PROVE Ranged(StopDelivered(m, age))
<1> DEFINE s == Finish(m, RestingPlace(m, age))
           dir == m.stop.interrupted
           e == [s EXCEPT !.ownAt = age, !.ownCommand = "none", !.stoppedDir = dir]
<1>1. Ranged(s) /\ dir \in Ways /\ age \in Timers
  BY RestingPlaceStays, FinishStays, NothingRanged DEF Ranged
<1>2. StopDelivered(m, age) = e
  BY DEF StopDelivered, MarkOwnStop
<1> HIDE DEF s, dir
<1>3. Ranged(e)
  <2>1. DOMAIN s = Fields /\ {"ownAt", "ownCommand", "stoppedDir"} \subseteq Fields
    BY <1>1 DEF Ranged, Whole, Fields
  <2>2. e = [f \in Fields |-> e[f]]
    BY <2>1, Zenon
  <2>3. e.ownAt = age /\ e.ownCommand = "none" /\ e.stoppedDir = dir
    BY <2>1, SMT
  <2>4. /\ e.moving = s.moving /\ e.from = s.from /\ e.clock = s.clock
        /\ e.target = s.target /\ e.end = s.end /\ e.pos = s.pos
        /\ e.ownFreeRun = s.ownFreeRun /\ e.afterRestart = s.afterRestart
        /\ e.timer = s.timer /\ e.fired = s.fired /\ e.recheck = s.recheck
        /\ e.awaited = s.awaited /\ e.stop = s.stop /\ e.written = s.written
        /\ e.started = s.started
    BY <2>1, SMT DEF Fields
  <2> HIDE DEF e
  <2> QED
    BY <1>1, <2>2, <2>3, <2>4, NothingRanged DEF Ranged, Whole
<1> QED
  BY <1>2, <1>3

\* A dropped stop re-arms the deadline, within its range.
LEMMA StopDroppedStays == ASSUME NEW m, Ranged(m) PROVE Ranged(StopDropped(m))
<1> DEFINE e == [m EXCEPT !.stop = NoStop]
<1>1. Ranged(e)
  <2>1. DOMAIN m = Fields /\ {"stop"} \subseteq Fields
    BY DEF Ranged, Whole, Fields
  <2>2. e = [f \in Fields |-> e[f]]
    BY <2>1, Zenon
  <2>3. e.stop = NoStop
    BY <2>1, SMT
  <2>4. /\ e.moving = m.moving /\ e.from = m.from /\ e.clock = m.clock
        /\ e.target = m.target /\ e.end = m.end /\ e.pos = m.pos /\ e.ownAt = m.ownAt
        /\ e.ownCommand = m.ownCommand /\ e.stoppedDir = m.stoppedDir
        /\ e.ownFreeRun = m.ownFreeRun /\ e.afterRestart = m.afterRestart
        /\ e.timer = m.timer /\ e.fired = m.fired /\ e.recheck = m.recheck
        /\ e.awaited = m.awaited /\ e.written = m.written /\ e.started = m.started
    BY <2>1, SMT DEF Fields
  <2> HIDE DEF e
  <2> QED
    BY <2>2, <2>3, <2>4, NoStopRanged DEF Ranged, Whole
<1> QED
  BY <1>1, ContinueStays DEF StopDropped

\* What the gateway reports keeps the ranges.
LEMMA ReportsStay == ASSUME NEW m, Ranged(m), NEW id, NEW age \in Nat
  PROVE Ranged(Delivered(m, id, age)) /\ Ranged(NotDelivered(m, id))
  BY MoveDeliveredStays, StopDeliveredStays, MoveDroppedStays, StopDroppedStays DEF Delivered, NotDelivered

--------------------------------------------------------------------------
(* ... and so does what is seen on the bus *)

\* The motor's start re-times the run from now, or keeps its clock.
LEMMA MotorStartStays == ASSUME NEW m, Ranged(m) PROVE Ranged(MotorStart(m))
<1> DEFINE e == [m EXCEPT !.started = TRUE, !.clock = 0]
<1>1. Ranged(e)
  <2>1. DOMAIN m = Fields /\ {"started", "clock"} \subseteq Fields
    BY DEF Ranged, Whole, Fields
  <2>2. e = [f \in Fields |-> e[f]]
    BY <2>1, Zenon
  <2>3. e.started = TRUE /\ e.clock = 0
    BY <2>1, SMT
  <2>4. /\ e.moving = m.moving /\ e.from = m.from /\ e.target = m.target /\ e.end = m.end
        /\ e.pos = m.pos /\ e.ownAt = m.ownAt /\ e.ownCommand = m.ownCommand
        /\ e.stoppedDir = m.stoppedDir /\ e.ownFreeRun = m.ownFreeRun
        /\ e.afterRestart = m.afterRestart /\ e.timer = m.timer /\ e.fired = m.fired
        /\ e.recheck = m.recheck /\ e.awaited = m.awaited /\ e.stop = m.stop
        /\ e.written = m.written
    BY <2>1, SMT DEF Fields
  <2> HIDE DEF e
  <2> QED
    BY <2>2, <2>3, <2>4, Ranges DEF Ranged, Whole
<1> QED
  BY <1>1, ArmDeadlineStays DEF MotorStart

\* An ignored frame asks for a re-check, within its range.
LEMMA IgnoreStays == ASSUME NEW m, Ranged(m) PROVE Ranged(Ignore(m))
<1> DEFINE waits == m.ownCommand # "none" /\ m.awaited # 0
           own == IF waits THEN m.ownAt ELSE Off
           recheck == IF waits \/ m.ownCommand = "none" \/ m.afterRestart THEN RecheckDelay ELSE m.recheck
           e == [m EXCEPT !.ownAt = own, !.recheck = recheck]
<1>1. own \in Timers /\ recheck \in Timers
  BY Ranges, NothingRanged DEF Ranged
<1>2. Ignore(m) = e
  <2>1. DOMAIN m = Fields
    BY DEF Ranged, Whole
  <2> QED
    BY <2>1, SMT DEF Ignore, Fields
<1> HIDE DEF own, recheck
<1>3. Ranged(e)
  <2>1. DOMAIN m = Fields /\ {"ownAt", "recheck"} \subseteq Fields
    BY DEF Ranged, Whole, Fields
  <2>2. e = [f \in Fields |-> e[f]]
    BY <2>1, Zenon
  <2>3. e.ownAt = own /\ e.recheck = recheck
    BY <2>1, SMT
  <2>4. /\ e.moving = m.moving /\ e.from = m.from /\ e.clock = m.clock
        /\ e.target = m.target /\ e.end = m.end /\ e.pos = m.pos
        /\ e.ownCommand = m.ownCommand /\ e.stoppedDir = m.stoppedDir
        /\ e.ownFreeRun = m.ownFreeRun /\ e.afterRestart = m.afterRestart
        /\ e.timer = m.timer /\ e.fired = m.fired /\ e.awaited = m.awaited
        /\ e.stop = m.stop /\ e.written = m.written /\ e.started = m.started
    BY <2>1, SMT DEF Fields
  <2> HIDE DEF e
  <2> QED
    BY <2>2, <2>3, <2>4, <1>1 DEF Ranged, Whole
<1> QED
  BY <1>2, <1>3

\* Whatever the bus shows keeps the ranges.
LEMMA HandleStays == ASSUME NEW m, Ranged(m), NEW frame \in Frames PROVE Ranged(Handle(m, frame))
<1> DEFINE place == IF ReachedEndStop(m) THEN m.end ELSE Estimate(m, 0)
<1>1. place \in Places \cup {Unknown}
  BY EstimateStays DEF Ranged
<1>2. CASE frame = m.moving
  <2>1. frame # "stop"
    BY <1>2 DEF Ranged, Ways, Directions
  <2>2. Handle(m, frame) = MotorStart(m)
    BY <1>2, <2>1 DEF Handle
  <2> QED
    BY <2>2, MotorStartStays
<1>3. CASE frame # m.moving /\ IsEcho(m, frame)
  BY <1>3, IgnoreStays DEF Handle
<1>4. CASE frame \in Directions \ {m.moving} /\ ~IsEcho(m, frame)
  <2>1. Ranged(Start(m, frame, NoTarget, 0))
    BY <1>4, StartStays, NothingRanged, Ranges
  <2>2. Handle(m, frame) = Start(m, frame, NoTarget, 0)
    BY <1>4 DEF Handle, Directions
  <2> QED
    BY <2>1, <2>2
<1>5. CASE frame = "stop" /\ ~IsEcho(m, frame)
  <2>1. Ranged(Finish(m, place)) /\ frame # m.moving /\ frame \notin Directions
    BY <1>1, <1>5, FinishStays DEF Directions, Ranged, Ways
  <2> QED
    BY <1>5, <2>1 DEF Handle
<1> QED
  BY <1>2, <1>3, <1>4, <1>5 DEF Frames

\* A stop that is queued.
LEMMA StopQueuedStays ==
  ASSUME NEW m, Ranged(m), NEW frozen \in Places \cup {Unknown}, NEW base \in Int, nextId \in Nat
  PROVE  Ranged(StopQueued(m, frozen, base))
<1> DEFINE stop == [frame |-> nextId, interrupted |-> m.moving, frozen |-> frozen,
                    base |-> base, age |-> 0, rebased |-> FALSE]
           fired == Outdated(m.fired)
           e == [m EXCEPT !.timer = Off, !.fired = fired, !.stop = stop]
<1>1. /\ stop = [f \in StopFields |-> stop[f]]
      /\ stop.frame \in Nat /\ stop.interrupted \in Ways /\ stop.frozen \in Places \cup {Unknown}
      /\ stop.base \in Int /\ stop.age \in Nat /\ stop.rebased \in BOOLEAN
  BY SMT DEF Ranged, StopFields
<1>2. StopQueued(m, frozen, base) = e /\ fired \in SUBSET {"current", "stale"}
  <2>1. DOMAIN m = Fields
    BY DEF Ranged, Whole
  <2> HIDE DEF stop
  <2> QED
    BY <2>1, NothingRanged, SMT DEF StopQueued, stop, Fields
<1> HIDE DEF stop, fired
<1>3. Ranged(e)
  <2>1. DOMAIN m = Fields /\ {"timer", "fired", "stop"} \subseteq Fields
    BY DEF Ranged, Whole, Fields
  <2>2. e = [f \in Fields |-> e[f]]
    BY <2>1, Zenon
  <2>3. e.timer = Off /\ e.fired = fired /\ e.stop = stop
    BY <2>1, SMT
  <2>4. /\ e.moving = m.moving /\ e.from = m.from /\ e.clock = m.clock
        /\ e.target = m.target /\ e.end = m.end /\ e.pos = m.pos /\ e.ownAt = m.ownAt
        /\ e.ownCommand = m.ownCommand /\ e.stoppedDir = m.stoppedDir
        /\ e.ownFreeRun = m.ownFreeRun /\ e.afterRestart = m.afterRestart
        /\ e.recheck = m.recheck /\ e.awaited = m.awaited /\ e.written = m.written
        /\ e.started = m.started
    BY <2>1, SMT DEF Fields
  <2> HIDE DEF e
  <2> QED
    BY <2>2, <2>3, <2>4, <1>1, <1>2, NothingRanged DEF Ranged, Whole
<1> QED
  BY <1>2, <1>3

--------------------------------------------------------------------------
(* The invariant and its steps *)

RangesInv ==
    /\ Ranged(cover)
    /\ wire.age \in Nat
    /\ shaft \in Places /\ starting.age \in Nat /\ stopping \in Timers /\ relay.left \in Nat
    /\ asked \in BOOLEAN /\ presses \in Nat /\ slip \in Nat /\ exact \in BOOLEAN

\* With MotionInv it is the type invariant.
LEMMA RangesAreTypes == MotionInv /\ RangesInv => MotionTypeOK
<1> SUFFICES ASSUME MotionInv, RangesInv PROVE MotionTypeOK
  OBVIOUS
<1>1. cover \in CoverType
  BY RangedIsTyped DEF RangesInv
<1>2. /\ line \in Seq([id: Nat, kind: Directions \cup {"stop"}])
      /\ wire \in [id: Nat, kind: Directions \cup {"stop", "none"}, age: Nat]
      /\ nextId \in Nat
  <2>1. FrameType \subseteq [id: Nat, kind: Directions \cup {"stop"}]
    BY SMT DEF FrameType, Frames
  <2>2. line \in Seq([id: Nat, kind: Directions \cup {"stop"}])
    <3> DEFINE All == [id: Nat, kind: Directions \cup {"stop"}]
    <3>1. FrameType \subseteq All /\ line \in Seq(FrameType)
      BY <2>1 DEF MotionInv, PathInv
    <3> HIDE DEF All
    <3>2. line \in Seq(All)
      BY <3>1, SMT
    <3> QED
      BY <3>2 DEF All
  <2>3. wire \in [id: Nat, kind: Directions \cup {"stop", "none"}, age: Nat]
    BY SMT DEF MotionInv, PathInv, RangesInv, Frames
  <2> QED
    BY <2>2, <2>3, SMT DEF MotionInv, PathInv
<1>3. /\ motor \in Directions \cup {"none"} /\ shaft \in 0..Full
      /\ starting \in [dir: Directions \cup {"none"}, age: Nat]
      /\ stopping \in Nat \cup {Off}
      /\ relay \in [what: SUBSET (Directions \cup {"stop"}), left: Nat]
  BY SMT DEF MotionInv, ActuatorInv, RangesInv, Frames, Places, Timers
<1> QED
  BY <1>1, <1>2, <1>3 DEF MotionTypeOK, RangesInv

\* The ranges hold initially.
LEMMA RangesInit == MotionInit => RangesInv
<1> SUFFICES ASSUME MotionInit PROVE RangesInv
  OBVIOUS
<1>1. PICK p \in {shaft, Unknown} : cover = [CoverInit EXCEPT !.pos = p] /\ exact = (p = shaft)
  BY DEF MotionInit
<1>2. p \in Places \cup {Unknown}
  BY DEF MotionInit, Places
<1>6. cover = [f \in Fields |-> cover[f]]
  <2>1. DOMAIN CoverInit = Fields
    BY SMT DEF CoverInit, Fields
  <2> QED
    BY <1>1, <2>1, Zenon
<1>3. /\ cover.moving = "none" /\ cover.from = 0 /\ cover.clock = 0 /\ cover.target = NoTarget
      /\ cover.end = 0 /\ cover.pos = p /\ cover.ownAt = Off /\ cover.ownCommand = "none"
      /\ cover.stoppedDir = "none" /\ cover.ownFreeRun = FALSE /\ cover.afterRestart = FALSE
      /\ cover.timer = Off /\ cover.fired = {} /\ cover.recheck = Off /\ cover.awaited = 0
      /\ cover.stop = NoStop /\ cover.written = Off /\ cover.started = FALSE
  BY <1>1, SMT DEF CoverInit, Fields
<1>4. Ranged(cover)
  <2>1. /\ Whole(cover) /\ cover.stop.frame \in Nat /\ cover.stop.interrupted \in Ways
        /\ cover.stop.frozen \in Places \cup {Unknown}
        /\ cover.stop.base \in Int /\ cover.stop.age \in Nat /\ cover.stop.rebased \in BOOLEAN
    BY <1>3, <1>6, NoStopRanged, Zenon DEF Whole
  <2>2. /\ cover.moving \in Ways /\ cover.ownCommand \in Ways /\ cover.stoppedDir \in Ways
        /\ cover.from \in Places /\ cover.end \in Places
        /\ cover.target \in Places \cup {NoTarget} /\ cover.pos \in Places \cup {Unknown}
        /\ cover.clock \in (-StartDelay)..Horizon
        /\ cover.ownAt \in Timers /\ cover.timer \in Timers /\ cover.recheck \in Timers
        /\ cover.written \in Timers
    BY <1>2, <1>3, NothingRanged, Ranges, Zenon
  <2>3. /\ cover.ownFreeRun \in BOOLEAN /\ cover.afterRestart \in BOOLEAN /\ cover.started \in BOOLEAN
        /\ cover.fired \in SUBSET {"current", "stale"} /\ cover.awaited \in Nat
    BY <1>3, NoTargetIsInt, Zenon
  <2> QED
    BY <2>1, <2>2, <2>3 DEF Ranged
<1>5. /\ wire.age \in Nat /\ starting.age \in Nat /\ relay.left \in Nat /\ stopping \in Timers
      /\ presses \in Nat /\ slip \in Nat
  BY NothingRanged, SMT DEF MotionInit, Idle, NotStarting, Silent
<1> QED
  BY <1>1, <1>4, <1>5 DEF MotionInit, RangesInv, Places

\* Commands and the deadline move the cover and queue frames, and nothing else.
LEMMA CommandRanges == ASSUME MotionInv, RangesInv, Command PROVE RangesInv'
<1>1. nextId \in Nat
  BY DEF MotionInv, PathInv
<1>2. ASSUME NEW dir \in Directions, NEW target \in Places \cup {NoTarget}, SendDirection(dir, target)
      PROVE  RangesInv'
  BY <1>1, <1>2, StartStays DEF SendDirection, Queue, actuatorVars, RangesInv
<1>3. CASE StopCover
  <2> DEFINE base == (IF cover.moving = "none" THEN 0 ELSE cover.clock) + StopLatency
  <2>1. Estimate(cover, StopLatency) \in Places \cup {Unknown}
    BY EstimateStays, Ranges DEF RangesInv
  <2>2. base \in Int
    BY Ranges, SMT DEF RangesInv, Ranged
  <2>3. Ranged(cover')
    BY <1>1, <1>3, <2>1, <2>2, StopQueuedStays DEF StopCover, RangesInv
  <2> QED
    BY <1>3, <2>3 DEF StopCover, Queue, actuatorVars, RangesInv
<1>4. CASE OpenOrClose
  BY <1>2, <1>4, NothingRanged DEF OpenOrClose
<1>5. ASSUME NEW p \in 1..(Full - 1), SetPosition(p) PROVE RangesInv'
  <2>1. p \in Places
    BY Ranges, SMT DEF Places
  <2> QED
    BY <1>2, <1>5, <2>1 DEF SetPosition, Directions
<1> QED
  BY <1>3, <1>4, <1>5 DEF Command

\* A deadline that fires keeps the ranges.
LEMMA FiredRanges ==
  ASSUME NEW m, Ranged(m), NEW timer \in Timers, NEW fired \in SUBSET {"current", "stale"}
  PROVE  /\ Ranged([m EXCEPT !.fired = fired])
         /\ Ranged([m EXCEPT !.timer = timer, !.fired = fired])
<1> DEFINE d == [m EXCEPT !.fired = fired]
           e == [m EXCEPT !.timer = timer, !.fired = fired]
<1>1. Ranged(d)
  <2>1. DOMAIN m = Fields /\ {"fired"} \subseteq Fields
    BY DEF Ranged, Whole, Fields
  <2>2. d = [f \in Fields |-> d[f]]
    BY <2>1, Zenon
  <2>3. d.fired = fired
    BY <2>1, SMT
  <2>4. /\ d.moving = m.moving /\ d.from = m.from /\ d.clock = m.clock
        /\ d.target = m.target /\ d.end = m.end /\ d.pos = m.pos /\ d.ownAt = m.ownAt
        /\ d.ownCommand = m.ownCommand /\ d.stoppedDir = m.stoppedDir
        /\ d.ownFreeRun = m.ownFreeRun /\ d.afterRestart = m.afterRestart
        /\ d.timer = m.timer /\ d.recheck = m.recheck /\ d.awaited = m.awaited
        /\ d.stop = m.stop /\ d.written = m.written /\ d.started = m.started
    BY <2>1, SMT DEF Fields
  <2> HIDE DEF d
  <2> QED
    BY <2>2, <2>3, <2>4, NothingRanged DEF Ranged, Whole
<1>2. Ranged(e)
  <2>1. DOMAIN m = Fields /\ {"timer", "fired"} \subseteq Fields
    BY DEF Ranged, Whole, Fields
  <2>2. e = [f \in Fields |-> e[f]]
    BY <2>1, Zenon
  <2>3. e.timer = timer /\ e.fired = fired
    BY <2>1, SMT
  <2>4. /\ e.moving = m.moving /\ e.from = m.from /\ e.clock = m.clock
        /\ e.target = m.target /\ e.end = m.end /\ e.pos = m.pos /\ e.ownAt = m.ownAt
        /\ e.ownCommand = m.ownCommand /\ e.stoppedDir = m.stoppedDir
        /\ e.ownFreeRun = m.ownFreeRun /\ e.afterRestart = m.afterRestart
        /\ e.recheck = m.recheck /\ e.awaited = m.awaited /\ e.stop = m.stop
        /\ e.written = m.written /\ e.started = m.started
    BY <2>1, SMT DEF Fields
  <2> HIDE DEF e
  <2> QED
    BY <2>2, <2>3, <2>4, NothingRanged DEF Ranged, Whole
<1> QED
  BY <1>1, <1>2

\* So does what its coroutine does, and the re-check.
LEMMA DeadlineRanges == ASSUME MotionInv, RangesInv, TimerFires \/ Deadline \/ EchoRecheck PROVE RangesInv'
<1>1. ASSUME Ranged(cover'), UNCHANGED <<wire, actuatorVars, relay, presses, slip>>,
             asked' \in BOOLEAN, exact' \in BOOLEAN
      PROVE  RangesInv'
  BY <1>1 DEF RangesInv, actuatorVars
<1>2. DOMAIN cover = Fields /\ cover.fired \in SUBSET {"current", "stale"} /\ cover.timer \in Timers
      /\ Ranged(cover) /\ asked \in BOOLEAN /\ exact \in BOOLEAN
  BY DEF RangesInv, Ranged, Whole
<1>3. CASE TimerFires
  <2> DEFINE fired == cover.fired \cup {"current"}
  <2>1. cover' = [cover EXCEPT !.timer = Off, !.fired = fired]
    BY <1>2, <1>3, SMT DEF TimerFires, Fields
  <2>2. fired \in SUBSET {"current", "stale"}
    BY <1>2
  <2>3. Ranged(cover')
    BY <1>2, <2>1, <2>2, FiredRanges, NothingRanged
  <2> QED
    BY <1>1, <1>2, <1>3, <2>3 DEF TimerFires, pathVars
<1>4. CASE DeadlineOutdated
  <2>1. Ranged(cover')
    <3> DEFINE fired == cover.fired \ {"stale"}
    <3>1. cover' = [cover EXCEPT !.fired = fired] /\ fired \in SUBSET {"current", "stale"}
      BY <1>2, <1>4 DEF DeadlineOutdated
    <3> QED
      BY <1>2, <3>1, FiredRanges
  <2> QED
    BY <1>1, <1>2, <1>4, <2>1 DEF DeadlineOutdated, pathVars
<1>5. Ranged(Ran) /\ (MotionInv /\ RunIsOver => nextId \in Nat)
  <2> DEFINE fired == cover.fired \ {"current"}
  <2>1. Ran = [cover EXCEPT !.fired = fired] /\ fired \in SUBSET {"current", "stale"}
    BY <1>2 DEF Ran
  <2> QED
    BY <1>2, <2>1, FiredRanges DEF MotionInv, PathInv
<1>6. CASE DeadlineTooEarly
  <2>1. Ranged(cover')
    BY <1>2, <1>5, <1>6, ArmStays, ArmDeadlineStays, DurationStays DEF DeadlineTooEarly
  <2> QED
    BY <1>1, <1>2, <1>6, <2>1 DEF DeadlineTooEarly, pathVars
<1>7. CASE DeadlineFreeRun
  <2>1. Ranged(cover')
    BY <1>2, <1>5, <1>7, FinishStays DEF DeadlineFreeRun, Ranged
  <2> QED
    BY <1>1, <1>2, <1>7, <2>1 DEF DeadlineFreeRun, pathVars
<1>8. CASE DeadlineStops
  <2>1. nextId \in Nat /\ cover.end \in Places /\ Duration(cover) \in Int
    BY <1>2, DurationStays DEF MotionInv, PathInv, Ranged
  <2>2. Ranged(cover')
    BY <1>5, <1>8, <2>1, StopQueuedStays DEF DeadlineStops
  <2> QED
    BY <1>1, <1>2, <1>8, <2>2 DEF DeadlineStops, Queue
<1>9. CASE DeadlineStopRefused
  <2>1. Ranged(cover') /\ exact' \in BOOLEAN
    BY <1>2, <1>5, <1>9, ContinueStays DEF DeadlineStopRefused
  <2> QED
    BY <1>1, <1>2, <1>9, <2>1 DEF DeadlineStopRefused, pathVars
<1>10. CASE EchoRecheck
  <2> DEFINE e == [cover EXCEPT !.recheck = Off]
  <2>1. Ranged(e)
    <3>1. DOMAIN cover = Fields /\ {"recheck"} \subseteq Fields
      BY <1>2 DEF Ranged, Whole, Fields
    <3>2. e = [f \in Fields |-> e[f]]
      BY <3>1, Zenon
    <3>3. e.recheck = Off
      BY <3>1, SMT
    <3>4. /\ e.moving = cover.moving /\ e.from = cover.from /\ e.clock = cover.clock
          /\ e.target = cover.target /\ e.end = cover.end /\ e.pos = cover.pos
          /\ e.ownAt = cover.ownAt /\ e.ownCommand = cover.ownCommand
          /\ e.stoppedDir = cover.stoppedDir /\ e.ownFreeRun = cover.ownFreeRun
          /\ e.afterRestart = cover.afterRestart /\ e.timer = cover.timer
          /\ e.fired = cover.fired /\ e.awaited = cover.awaited /\ e.stop = cover.stop
          /\ e.written = cover.written /\ e.started = cover.started
      BY <3>1, SMT DEF Fields
    <3> HIDE DEF e
    <3> QED
      BY <1>2, <3>2, <3>3, <3>4, NothingRanged DEF Ranged, Whole
  <2>2. asked' \in BOOLEAN /\ cover' = e
    BY <1>2, <1>10 DEF EchoRecheck
  <2> QED
    BY <1>1, <1>2, <1>10, <2>1, <2>2 DEF EchoRecheck, pathVars
<1> QED
  BY <1>3, <1>4, <1>6, <1>7, <1>8, <1>9, <1>10 DEF Deadline

\* The path writes, reports and drops; a write adds the jitter of a start.
LEMMA PathRanges ==
  ASSUME MotionInv, RangesInv, Write \/ Report \/ Drop \/ DropWritten PROVE RangesInv'
<1>1. CASE Write
  <2>1. /\ wire'.age = 0 /\ UNCHANGED <<cover, shaft, asked, presses, exact>>
    BY <1>1 DEF Write
  <2>2. Jitter \in Nat /\ StopLatency \in Nat /\ EchoWindow \in Nat /\ MirrorWindow \in Nat
    BY MotionAssumption, SMT DEF MotionAssumption, Jitter, Greatest
  <2>3. /\ starting' \in {starting, NotStarting} \/ \E k : starting' = [dir |-> k, age |-> 0]
        /\ stopping' \in {StopLatency, Off, stopping}
        /\ slip' \in {slip, slip + StopLatency, slip + Jitter}
        /\ \E w : relay' = [what |-> w, left |-> EchoWindow] \/ relay' = [what |-> w, left |-> MirrorWindow]
    BY <1>1, Zenon DEF Write
  <2>4. starting'.age \in Nat
    BY <2>3, SMT DEF NotStarting, RangesInv
  <2>5. stopping' \in Timers /\ slip' \in Nat
    BY <2>2, <2>3, NothingRanged, SMT DEF RangesInv
  <2>6. relay'.left \in Nat
    BY <2>2, <2>3, SMT
  <2>7. wire'.age \in Nat
    BY <2>1, Ranges, SMT
  <2> QED
    BY <2>1, <2>4, <2>5, <2>6, <2>7 DEF RangesInv
<1>2. CASE Report \/ Drop \/ DropWritten
  <2>1. Ranged(cover') /\ exact' \in BOOLEAN
    BY <1>2, ReportsStay DEF Report, Drop, DropWritten, RangesInv
  <2>2. wire'.age \in Nat
    BY <1>2, SMT DEF Report, Drop, DropWritten, RangesInv, Idle
  <2> QED
    BY <1>2, <2>1, <2>2 DEF Report, Drop, DropWritten, RangesInv, actuatorVars
<1> QED
  BY <1>1, <1>2

\* What is shown on the bus, whoever caused it.
LEMMA BusRanges ==
  ASSUME MotionInv, RangesInv,
         Relay \/ MotorStarts \/ MotorStops \/ HitsEndStop \/ Keypad \/ StatusAnswer
  PROVE  RangesInv'
<1>1. ASSUME NEW frame \in Frames, Sees(frame) \/ cover' = Handle(cover, frame) PROVE Ranged(cover')
  BY <1>1, HandleStays DEF Sees, RangesInv
<1>2. CASE Relay
  <2>1. PICK frame \in relay.what : relay' = [relay EXCEPT !.what = @ \ {frame}] /\ cover' = Handle(cover, frame)
    BY <1>2 DEF Relay
  <2>2. frame \in Frames /\ relay'.left \in Nat
    BY <2>1, SMT DEF MotionInv, ActuatorInv, RangesInv
  <2> QED
    BY <1>1, <1>2, <2>1, <2>2 DEF Relay, RangesInv, pathVars, actuatorVars
<1>3. CASE MotorStarts \/ MotorStops \/ HitsEndStop \/ KeypadStops \/ StatusAnswer
  <2>1. starting.dir \in Frames \/ ~MotorStarts
    BY DEF MotorStarts, MotionInv, ActuatorInv, Frames
  <2>2. Status \in Frames
    BY DEF Status, MotionInv, ActuatorInv, Frames
  <2>3. Ranged(cover')
    BY <1>1, <1>3, <2>1, <2>2 DEF MotorStarts, MotorStops, HitsEndStop, KeypadStops, StatusAnswer, Frames
  <2>4. starting'.age \in Nat /\ stopping' \in Timers
    BY <1>3, NothingRanged, SMT DEF MotorStarts, MotorStops, HitsEndStop, KeypadStops, StatusAnswer, RangesInv,
       NotStarting, actuatorVars
  <2>5. asked' \in BOOLEAN /\ exact' \in BOOLEAN /\ presses' \in Nat
    <3>1. presses \in Nat => presses + 1 \in Nat
      BY SMT
    <3> QED
      BY <1>3, <3>1 DEF MotorStarts, MotorStops, HitsEndStop, KeypadStops, StatusAnswer, RangesInv
  <2> QED
    BY <1>3, <2>3, <2>4, <2>5 DEF MotorStarts, MotorStops, HitsEndStop, KeypadStops, StatusAnswer,
       RangesInv, pathVars, actuatorVars
<1>4. ASSUME NEW dir \in Directions, KeypadMoves(dir) PROVE RangesInv'
  <2>1. Ranged(cover')
    BY <1>1, <1>4 DEF KeypadMoves, Frames
  <2>2. starting'.age \in Nat /\ stopping' \in Timers /\ presses' \in Nat
    BY <1>4, NothingRanged, SMT DEF KeypadMoves, RangesInv, NotStarting
  <2> QED
    BY <1>4, <2>1, <2>2 DEF KeypadMoves, RangesInv, pathVars
<1> QED
  BY <1>2, <1>3, <1>4 DEF Keypad

\* Time: a timer that is due has fired before it runs out.
LEMMA AgesStay ==
  /\ \A x \in Timers : x # 0 => Down(x) \in Timers
  /\ \A x \in Timers : Older(x) \in Timers
  /\ \A x \in (-StartDelay)..Horizon : Least(x + 1, Horizon) \in (-StartDelay)..Horizon
  /\ \A x \in Nat : Least(x + 1, Horizon) \in Nat
  BY Ranges, SMT DEF Timers, Down, Older, Least, Off

\* Time keeps the ranges: ages end at the horizon and timers at zero.
LEMMA TickRanges == ASSUME MotionInv, RangesInv, Tick PROVE RangesInv'
<1>1. cover.timer # 0 /\ cover.recheck # 0 /\ stopping # 0 /\ Ranged(cover)
  BY DEF Tick, Due, RangesInv
<1>2. Ranged(cover')
  <2> DEFINE clock == IF cover.moving = "none" THEN 0 ELSE Least(cover.clock + 1, Horizon)
             stop == Waited(cover.stop)
             recheck == Down(cover.recheck)
             written == Older(cover.written)
             own == Older(cover.ownAt)
             timer == Down(cover.timer)
             e == [cover EXCEPT !.clock = clock, !.timer = timer, !.recheck = recheck,
                                !.written = written, !.ownAt = own, !.stop = stop]
  <2>1. cover' = e
    BY DEF Tick
  <2>2. clock \in (-StartDelay)..Horizon /\ recheck \in Timers /\ written \in Timers
        /\ own \in Timers /\ timer \in Timers
    BY <1>1, AgesStay, Ranges DEF Ranged
  <2>3. /\ stop = [f \in StopFields |-> stop[f]]
        /\ stop.frame \in Nat /\ stop.interrupted \in Ways /\ stop.frozen \in Places \cup {Unknown}
        /\ stop.base \in Int /\ stop.age \in Nat /\ stop.rebased \in BOOLEAN
    <3> DEFINE s == cover.stop
               age == Least(s.age + 1, Horizon)
               r == [s EXCEPT !.age = age]
    <3>1. DOMAIN s = StopFields /\ age \in Nat
      BY <1>1, AgesStay DEF Ranged, Whole
    <3>2. stop = IF s = NoStop THEN s ELSE r
      <4> HIDE DEF s
      <4>1. r = [s EXCEPT !.age = Least(@ + 1, Horizon)]
        BY <3>1, SMT DEF StopFields
      <4> QED
        BY <4>1 DEF Waited, s
    <3>6. /\ s.frame \in Nat /\ s.interrupted \in Ways /\ s.frozen \in Places \cup {Unknown}
          /\ s.base \in Int /\ s.age \in Nat /\ s.rebased \in BOOLEAN /\ s = [f \in StopFields |-> s[f]]
      BY <1>1 DEF Ranged, Whole
    <3> HIDE DEF s, age, stop
    <3>3. r = [f \in StopFields |-> r[f]]
      BY <3>1, Zenon
    <3>4. /\ r.frame = s.frame /\ r.interrupted = s.interrupted /\ r.frozen = s.frozen
          /\ r.base = s.base /\ r.age = age /\ r.rebased = s.rebased
      BY <3>1, SMT DEF StopFields
    <3> HIDE DEF r
    <3> QED
      BY <3>1, <3>2, <3>3, <3>4, <3>6
  <2> HIDE DEF clock, stop, recheck, written, own, timer
  <2>4. Ranged(e)
    <3>1. DOMAIN cover = Fields /\ {"clock", "timer", "recheck", "written", "ownAt", "stop"} \subseteq Fields
      BY <1>1 DEF Ranged, Whole, Fields
    <3>2. e = [f \in Fields |-> e[f]]
      BY <3>1, Zenon
    <3>3. /\ e.clock = clock /\ e.timer = timer /\ e.recheck = recheck
          /\ e.written = written /\ e.ownAt = own /\ e.stop = stop
      BY <3>1, SMT
    <3>4. /\ e.moving = cover.moving /\ e.from = cover.from /\ e.target = cover.target
          /\ e.end = cover.end /\ e.pos = cover.pos /\ e.ownCommand = cover.ownCommand
          /\ e.stoppedDir = cover.stoppedDir /\ e.ownFreeRun = cover.ownFreeRun
          /\ e.afterRestart = cover.afterRestart /\ e.fired = cover.fired
          /\ e.awaited = cover.awaited /\ e.started = cover.started
      BY <3>1, SMT DEF Fields
    <3> HIDE DEF e
    <3> QED
      BY <1>1, <3>2, <3>3, <3>4, <2>2, <2>3 DEF Ranged, Whole
  <2> QED
    BY <2>1, <2>4
<1>3. wire'.age \in Nat /\ starting'.age \in Nat /\ relay'.left \in Nat
  <2>1. wire'.age \in Nat
    BY SMT DEF Tick, RangesInv, MotionInv, PathInv, Idle
  <2>2. starting'.age \in Nat
    BY SMT DEF Tick, RangesInv, MotionInv, ActuatorInv, NotStarting
  <2>3. relay'.left \in Nat
    BY SMT DEF Tick, RangesInv, MotionInv, ActuatorInv, Silent
  <2> QED
    BY <2>1, <2>2, <2>3
<1>4. shaft' \in Places /\ stopping' \in Timers
  <2>1. Travel(motor, shaft, 1) \in Places
    BY TravelStays DEF RangesInv
  <2> QED
    BY <1>1, <2>1, AgesStay DEF Tick, RangesInv
<1> QED
  BY <1>2, <1>3, <1>4 DEF Tick, RangesInv

\* Every step keeps the ranges.
LEMMA RangesStep == MotionInv /\ RangesInv /\ [MotionNext]_motionVars => RangesInv'
<1> SUFFICES ASSUME MotionInv, RangesInv, [MotionNext]_motionVars PROVE RangesInv'
  OBVIOUS
<1>1. CASE UNCHANGED motionVars
  BY <1>1 DEF motionVars, RangesInv
<1>2. CASE MotionNext
  BY <1>2, CommandRanges, DeadlineRanges, PathRanges, BusRanges, TickRanges DEF MotionNext
<1> QED
  BY <1>1, <1>2

\* Every field of the entity and everything around it keeps its type; the clock of
\* a run stays between the start delay before its start and the horizon, every
\* position on the shutter's way, and no timer is overrun by the time (cover.py:
\* _travel, _apply_movement_delivery, _apply_stop_delivery, _arm_deadline_in).
THEOREM MotionTypeCorrect == MotionSpec => []MotionTypeOK
<1>1. MotionSpec => []RangesInv
  BY MotionInvHolds, RangesInit, RangesStep, PTL DEF MotionSpec
<1> QED
  BY <1>1, MotionInvHolds, RangesAreTypes, PTL

--------------------------------------------------------------------------
(* Echoes.  While the estimate is exact the cover, the path, the motor and *)
(* the gateway's copies of the last frame go through few phases together.  *)

\* What is measured of an installation: the gateway repeats a frame before the motor
\* can have started on it, and an ignored frame is asked about after the window.
Timed ==
    /\ MirrorWindow <= MinStart /\ MirrorWindow <= StartDelay
    /\ MirrorWindow <= EchoWindow /\ EchoWindow <= RecheckDelay

\* Of every record: at rest nothing is left of a run, a free run ends at an end stop, and
\* whoever moves is not in the window of its own stop.
Tidy(m) ==
    /\ m.moving = "none" => m.from = 0 /\ m.clock = 0
    /\ m.moving # "none" /\ m.target = NoTarget => m.end = EndStopOf(m.moving)
    /\ m.moving # "none" \/ m.afterRestart => m.ownCommand # "none" \/ m.ownAt = Off

\* The actuator does one thing at a time.
OneMotor ==
    /\ starting # NotStarting => motor = "none"
    /\ stopping # Off => motor # "none"

\* Every frame in the path has a number that was given out.
Numbered ==
    /\ wire.id < nextId /\ (wire # Idle => wire.kind \in Frames)
    /\ \A i \in DOMAIN line : line[i].id < nextId

Turns(i) == line[i].kind \in Directions
NoTurns == \A i \in DOMAIN line : ~Turns(i)

\* Nothing turns and nothing is about to.
Still == motor = "none" /\ starting = NotStarting /\ NoTurns

Live == relay.what # {} /\ relay.left > 0

\* A movement that was over when it was asked for, or that has run to its end.
AtEnd(m, k) ==
    /\ m.moving = "none" /\ m.pos = EndStopOf(k) /\ m.stop = NoStop /\ m.recheck = Off /\ ~m.afterRestart
    /\ m.ownCommand # "none" \/ m.ownAt = Off

\* A direction frame is on its way to the bus.
Sent(m, k, id) ==
    /\ m.moving = k /\ m.awaited = id /\ m.ownCommand = k /\ m.ownAt # Off /\ m.written = Off
    /\ ~m.started /\ ~m.afterRestart /\ m.recheck = Off
Fresh(i) ==
    /\ i = 1 /\ wire = Idle /\ motor = "none" /\ starting = NotStarting
    /\ relay.what = {} /\ ~asked
    /\ AtEnd(cover, line[i].kind) \/ Sent(cover, line[i].kind, line[i].id)

\* A stop is on its way to the bus, or comes too late for anything.
Pending(m, id) == m.moving # "none" /\ m.stop.frame = id /\ m.stop.interrupted = m.moving

LineIsSound ==
    \A i \in DOMAIN line : IF Turns(i) THEN Fresh(i)
                           ELSE Still \/ (i = Len(line) /\ Pending(cover, line[i].id))
WireIsSound ==
    /\ wire.kind \in Directions => cover.stop.frame # wire.id
    /\ wire.kind = "stop" =>
         starting = NotStarting /\ (Still \/ (line = <<>> /\ Pending(cover, wire.id)))
MotorIsSound ==
    /\ cover.moving # "none" => motor \in {"none", cover.moving} /\ starting.dir \in {"none", cover.moving}
    /\ starting # NotStarting /\ cover.moving = "none" =>
         cover.recheck = Off /\ (cover.ownCommand # "none" \/ cover.ownAt = Off)
RecheckIsSound ==
    /\ cover.afterRestart /\ cover.recheck # Off => Still
    /\ asked => ~Live /\ starting = NotStarting /\ NoTurns /\ (cover.moving # "none" => Still)

\* The gateway repeats a direction frame, written `a` ago.
Heard(m, k, a) ==
    /\ m.moving = k /\ ~m.started /\ m.ownCommand = k /\ ~m.afterRestart
    /\ \/ m.awaited # 0 /\ m.written = Off /\ wire = [id |-> m.awaited, kind |-> k, age |-> a]
       \/ m.awaited = 0 /\ m.written = a /\ m.clock <= a - StartDelay
    /\ "stop" \in relay.what => m.ownAt # Off /\ (m.awaited = 0 => m.ownAt = a)
RepeatsMove(k, a) ==
    /\ relay.what \subseteq {"stop", k} /\ relay.left = MirrorWindow - a
    /\ motor = "none" /\ starting = [dir |-> k, age |-> a] /\ ~asked
    /\ AtEnd(cover, k) \/ Heard(cover, k, a)

\* The gateway repeats the movement that a stop, written `s` ago, interrupted.
Stopping(m, k, s) ==
    /\ m.moving = k /\ m.stop.interrupted = k /\ m.stop # NoStop
    /\ wire = [id |-> m.stop.frame, kind |-> "stop", age |-> s]
    /\ m.afterRestart /\ m.recheck # Off => m.recheck + s >= EchoWindow
Stopped(m, k, s) ==
    /\ m.moving = "none" /\ m.stop = NoStop /\ m.ownCommand = "none" /\ m.stoppedDir = k /\ m.ownAt = s
    /\ m.recheck = Off /\ ~m.afterRestart /\ wire = Idle
RepeatsStop(k, s) ==
    /\ relay.what = {k} /\ relay.left = EchoWindow - s
    /\ starting = NotStarting /\ line = <<>> /\ ~asked
    /\ Stopping(cover, k, s) \/ Stopped(cover, k, s)

RelayIsSound == Live => \E k \in Directions, a \in Nat : RepeatsMove(k, a) \/ RepeatsStop(k, a)

Phases == LineIsSound /\ WireIsSound /\ MotorIsSound /\ RecheckIsSound /\ RelayIsSound
Tame == Tidy(cover) /\ OneMotor /\ Numbered
EchoInv == Tame /\ (exact => Phases)

--------------------------------------------------------------------------
(* What the operators do to the fields that the phases are made of         *)

\* The fields of a record that only a timer was moved of.
Same(m, n) ==
    /\ n.moving = m.moving /\ n.from = m.from /\ n.clock = m.clock /\ n.target = m.target
    /\ n.end = m.end /\ n.pos = m.pos /\ n.ownAt = m.ownAt /\ n.ownCommand = m.ownCommand
    /\ n.stoppedDir = m.stoppedDir /\ n.afterRestart = m.afterRestart /\ n.recheck = m.recheck
    /\ n.awaited = m.awaited /\ n.stop = m.stop /\ n.written = m.written /\ n.started = m.started

\* A record whose movement is over.
Over(n) ==
    /\ n.moving = "none" /\ n.from = 0 /\ n.clock = 0 /\ n.stop = NoStop /\ n.awaited = 0
    /\ n.recheck = Off

\* What the end of a movement does to the record.
LEMMA FinishDoes == ASSUME NEW m, Shaped(m), NEW p
  PROVE LET n == Finish(m, p)
        IN  /\ Over(n) /\ ~n.afterRestart /\ DOMAIN n = Fields
            /\ n.pos = IF p = Unknown THEN m.pos ELSE p
            /\ n.ownAt = m.ownAt /\ n.ownCommand = m.ownCommand /\ n.stoppedDir = m.stoppedDir
<1> DEFINE c == CancelTimers(m)
<1>1. /\ DOMAIN c = Fields
      /\ c.stop = NoStop /\ c.awaited = 0 /\ c.recheck = Off /\ c.pos = m.pos
      /\ c.ownAt = m.ownAt /\ c.ownCommand = m.ownCommand /\ c.stoppedDir = m.stoppedDir
  BY SMT DEF Shaped, CancelTimers, Fields
<1>2. DOMAIN Finish(m, p) = DOMAIN c
  BY Zenon DEF Finish
<1> HIDE DEF c
<1> QED
  BY <1>1, <1>2, SMT DEF Finish, c, Over, Fields

\* Arming the deadline moves timers only.
LEMMA ArmDoes == ASSUME NEW m, Shaped(m), NEW d PROVE Same(m, ArmIn(m, d))
  BY SMT DEF Shaped, ArmIn, Same, Fields

\* A movement that begins, and one that was over before it began.
Begun(n, dir, target, frame) ==
    /\ n.moving = dir /\ n.target = target
    /\ n.end = IF target = NoTarget THEN EndStopOf(dir) ELSE target
    /\ n.awaited = frame /\ n.stop = NoStop /\ n.recheck = Off
    /\ n.written = Off /\ ~n.started
Marked(n, dir, frame) ==
    /\ n.ownAt = IF frame # 0 THEN 0 ELSE Off
    /\ n.ownCommand = IF frame # 0 THEN dir ELSE "none"
    /\ ~n.afterRestart

\* What the start of a movement does to the record.
LEMMA StartDoes ==
  ASSUME NEW m, Shaped(m), NEW dir \in Directions, NEW target \in Int, NEW frame
  PROVE  LET n == Start(m, dir, target, frame)
             end == IF target = NoTarget THEN EndStopOf(dir) ELSE target
         IN  /\ Marked(n, dir, frame)
             /\ \/ Begun(n, dir, target, frame)
                \/ Over(n) /\ n.pos = IF end = Unknown THEN m.pos ELSE end
             /\ (m.moving = "none" /\ m.pos = EndStopOf(dir) /\ target = NoTarget) => Over(n)
             /\ Estimate(m, 0) # Unknown /\ TravelTime(dir, Estimate(m, 0), end) > 0
                  => Begun(n, dir, target, frame)
<1> DEFINE now == Estimate(m, 0)
           c == CancelTimers(m)
           from == IF now # Unknown THEN now ELSE EndStopOf(IF dir = "up" THEN "down" ELSE "up")
           clock == IF frame # 0 THEN -StartDelay ELSE 0
           end == IF target = NoTarget THEN EndStopOf(dir) ELSE target
           own == IF frame # 0 THEN 0 ELSE Off
           command == IF frame # 0 THEN dir ELSE "none"
           free == (frame # 0 /\ target = NoTarget)
           begun == [c EXCEPT
            !.moving = dir, !.from = from, !.clock = clock, !.target = target, !.end = end,
            !.written = Off, !.started = FALSE,
            !.ownAt = own, !.ownCommand = command, !.stoppedDir = "none",
            !.ownFreeRun = free,
            !.afterRestart = FALSE]
           armed == ArmDeadline(begun)
           sent == [armed EXCEPT !.awaited = frame]
           over == Finish(begun, begun.end)
<1>1. Start(m, dir, target, frame) = IF Duration(begun) <= 0 THEN over ELSE sent
  BY DEF Start
<1>2. Quiet(c) /\ c.pos = m.pos /\ c.recheck = Off
  <2>1. Quiet(c) /\ c.pos = m.pos
    BY CancelTimersQuiets
  <2>2. c.recheck = Off
    BY SMT DEF Shaped, CancelTimers, Fields
  <2> QED
    BY <2>1, <2>2
<1>3. from \in Int /\ end \in Int /\ clock \in Int
  BY EstimateIsInt, Constants, SMT DEF EndStopOf
<1>4. now # Unknown => from = now
  OBVIOUS
<1>5. now = Estimate(m, 0) /\ end = IF target = NoTarget THEN EndStopOf(dir) ELSE target
  OBVIOUS
<1>6. m.moving = "none" /\ m.pos = EndStopOf(dir) => from = EndStopOf(dir)
  BY Constants, SMT DEF Estimate, EndStopOf, Unknown
<1>7. target = NoTarget => end = EndStopOf(dir)
  OBVIOUS
<1> HIDE DEF now, c, from, clock, end, own, command, free
<1>8. /\ DOMAIN begun = Fields
      /\ begun.moving = dir /\ begun.from = from /\ begun.clock = clock /\ begun.target = target
      /\ begun.end = end /\ begun.written = Off /\ begun.started = FALSE /\ begun.ownAt = own
      /\ begun.ownCommand = command /\ begun.afterRestart = FALSE
      /\ begun.pos = c.pos /\ begun.stop = c.stop /\ begun.awaited = c.awaited
      /\ begun.recheck = c.recheck /\ begun.timer = c.timer
  <2>1. DOMAIN c = Fields
    BY <1>2 DEF Quiet, Shaped
  <2>2. DOMAIN begun = Fields
    BY <2>1, Zenon
  <2>3. /\ begun.moving = dir /\ begun.from = from /\ begun.clock = clock /\ begun.target = target
        /\ begun.end = end /\ begun.written = Off /\ begun.started = FALSE /\ begun.ownAt = own
        /\ begun.ownCommand = command /\ begun.afterRestart = FALSE
    BY <2>1, SMT DEF Fields
  <2>4. /\ begun.pos = c.pos /\ begun.stop = c.stop /\ begun.awaited = c.awaited
        /\ begun.recheck = c.recheck /\ begun.timer = c.timer
    BY <2>1, SMT DEF Fields
  <2> QED
    BY <2>2, <2>3, <2>4
<1> HIDE DEF begun
<1>9. Shaped(begun)
  BY <1>2, <1>3, <1>8, SMT DEF Quiet, Shaped
<1>10. CASE Duration(begun) <= 0
  <2>1. /\ Over(over) /\ ~over.afterRestart /\ over.ownAt = own /\ over.ownCommand = command
        /\ over.pos = IF end = Unknown THEN m.pos ELSE end
    BY <1>2, <1>8, <1>9, FinishDoes DEF Over
  <2>2. ~(now # Unknown /\ TravelTime(dir, now, end) > 0)
    BY <1>3, <1>8, <1>10, <1>4, SMT DEF Duration, TravelTime
  <2> QED
    BY <1>1, <1>10, <1>5, <2>1, <2>2 DEF Marked, own, command
<1>11. CASE ~(Duration(begun) <= 0)
  <2>1. Same(begun, armed) /\ Shaped(armed)
    <3>1. Remaining(begun) \in Int
      BY <1>9, DurationIsInt
    <3> QED
      BY <1>9, <3>1, ArmDoes, ArmingArms DEF ArmDeadline
  <2> HIDE DEF armed
  <2>2. /\ sent.moving = dir /\ sent.target = target /\ sent.end = end /\ sent.written = Off
        /\ sent.started = FALSE /\ sent.ownAt = own /\ sent.ownCommand = command
        /\ sent.afterRestart = FALSE /\ sent.stop = NoStop /\ sent.recheck = Off
        /\ sent.awaited = frame
    BY <1>2, <1>8, <2>1, SMT DEF Same, Shaped, Fields, Quiet
  <2> HIDE DEF sent
  <2>3. ~(m.moving = "none" /\ m.pos = EndStopOf(dir) /\ target = NoTarget)
    <3>1. SUFFICES ASSUME m.moving = "none", m.pos = EndStopOf(dir), target = NoTarget PROVE FALSE
      OBVIOUS
    <3>2. begun.from = EndStopOf(dir) /\ begun.end = EndStopOf(dir)
      BY <1>6, <1>7, <1>8, <3>1
    <3>3. EndStopOf(dir) \in Int
      BY Constants DEF EndStopOf
    <3> QED
      BY <1>11, <3>2, <3>3, SMT DEF Duration, TravelTime
  <2> QED
    BY <1>1, <1>11, <1>5, <2>2, <2>3 DEF Marked, Begun, own, command
<1> QED
  BY <1>10, <1>11

\* A run that goes on keeps what is known of its frame.
LEMMA ContinueDoes == ASSUME NEW m, Shaped(m), m.moving # "none"
  PROVE LET n == ContinueToEndStop(m)
        IN  /\ n.ownAt = m.ownAt /\ n.ownCommand = m.ownCommand
            /\ \/ Begun(n, m.moving, NoTarget, 0)
               \/ Over(n) /\ n.pos = EndStopOf(m.moving)
<1> DEFINE s == Start(m, m.moving, NoTarget, 0)
           own == m.ownAt
           command == m.ownCommand
           restart == (m.ownAt # Off)
           n == [s EXCEPT !.ownAt = own, !.ownCommand = command, !.afterRestart = restart,
                          !.ownFreeRun = TRUE]
<1>1. m.moving \in Directions /\ EndStopOf(m.moving) # Unknown
  BY Constants, SMT DEF Shaped, EndStopOf, Unknown
<1>2. Begun(s, m.moving, NoTarget, 0) \/ (Over(s) /\ s.pos = EndStopOf(m.moving))
  BY <1>1, NoTargetIsInt, StartDoes
<1>3. Shaped(s)
  BY <1>1, NoTargetIsInt, StartSound DEF Sound
<1>4. ContinueToEndStop(m) = n
  BY DEF ContinueToEndStop
<1> HIDE DEF s, own, command, restart
<1>5. /\ n.ownAt = own /\ n.ownCommand = command
      /\ n.moving = s.moving /\ n.from = s.from /\ n.clock = s.clock /\ n.target = s.target
      /\ n.end = s.end /\ n.pos = s.pos /\ n.recheck = s.recheck
      /\ n.awaited = s.awaited /\ n.stop = s.stop /\ n.written = s.written /\ n.started = s.started
  BY <1>3, SMT DEF Shaped, Fields
<1> HIDE DEF n
<1> QED
  BY <1>2, <1>4, <1>5 DEF own, command, Begun, Over

\* A delivered movement frame moves the clock at most back to its write.
LEMMA MoveDeliveredDoes == ASSUME NEW m, Shaped(m), NEW age \in Int
  PROVE LET n == MoveDelivered(m, age)
        IN  /\ n.moving = m.moving /\ n.from = m.from /\ n.target = m.target /\ n.end = m.end
            /\ n.pos = m.pos /\ n.ownCommand = m.ownCommand /\ n.stoppedDir = m.stoppedDir
            /\ n.afterRestart = m.afterRestart /\ n.recheck = m.recheck /\ n.started = m.started
            /\ n.awaited = 0 /\ n.written = age /\ n.clock <= age - StartDelay
            /\ n.ownAt = IF m.ownCommand # "none" /\ m.ownAt # Off THEN age ELSE m.ownAt
            /\ n.stop.frame = m.stop.frame /\ n.stop.interrupted = m.stop.interrupted
<1> DEFINE own == IF m.ownCommand # "none" /\ m.ownAt # Off THEN age ELSE m.ownAt
           heard == [m EXCEPT !.awaited = 0, !.written = age, !.ownAt = own]
           back == Rebased(heard, age - StartDelay)
           stop == IF heard.stop = NoStop THEN heard.stop ELSE [heard.stop EXCEPT !.rebased = TRUE]
<1>1. MoveDelivered(m, age) = IF age - StartDelay >= m.clock THEN heard
                              ELSE IF m.stop = NoStop THEN ArmDeadline(back) ELSE back
  <2>1. heard = [m EXCEPT !.awaited = 0, !.written = age,
                          !.ownAt = IF m.ownCommand # "none" /\ @ # Off THEN age ELSE @]
    BY SMT DEF Shaped, Fields
  <2> HIDE DEF heard
  <2> QED
    BY <2>1 DEF MoveDelivered
<1> HIDE DEF own
<1>2. /\ DOMAIN heard = Fields
      /\ heard.moving = m.moving /\ heard.from = m.from /\ heard.clock = m.clock
      /\ heard.target = m.target /\ heard.end = m.end /\ heard.pos = m.pos
      /\ heard.ownCommand = m.ownCommand /\ heard.stoppedDir = m.stoppedDir
      /\ heard.afterRestart = m.afterRestart /\ heard.recheck = m.recheck
      /\ heard.started = m.started /\ heard.awaited = 0 /\ heard.written = age /\ heard.ownAt = own
      /\ heard.stop = m.stop /\ heard.timer = m.timer
  <2>1. DOMAIN m = Fields
    BY DEF Shaped
  <2>2. DOMAIN heard = Fields
    BY <2>1, Zenon
  <2> QED
    BY <2>1, <2>2, SMT DEF Fields
<1> HIDE DEF heard
<1>3. /\ DOMAIN stop = StopFields /\ stop.frame = m.stop.frame /\ stop.frozen = m.stop.frozen
      /\ stop.interrupted = m.stop.interrupted
      /\ stop.base = m.stop.base /\ stop.age = m.stop.age
      /\ m.stop = NoStop => stop = NoStop
  BY <1>2, SMT DEF Shaped, StopFields
<1>4. /\ DOMAIN back = Fields
      /\ back.moving = m.moving /\ back.from = m.from /\ back.clock = age - StartDelay
      /\ back.target = m.target /\ back.end = m.end /\ back.pos = m.pos
      /\ back.ownCommand = m.ownCommand /\ back.stoppedDir = m.stoppedDir
      /\ back.afterRestart = m.afterRestart /\ back.recheck = m.recheck
      /\ back.started = m.started /\ back.awaited = 0 /\ back.written = age /\ back.ownAt = own
      /\ back.stop = stop /\ back.timer = m.timer
  <2> DEFINE clock == age - StartDelay
             r == [heard EXCEPT !.clock = clock, !.stop = stop]
  <2>1. back = r
    BY <1>2, SMT DEF Rebased, Fields
  <2> HIDE DEF stop, back, clock
  <2>2. DOMAIN r = Fields
    BY <1>2, Zenon
  <2>3. /\ r.moving = heard.moving /\ r.from = heard.from /\ r.clock = clock
        /\ r.target = heard.target /\ r.end = heard.end /\ r.pos = heard.pos
        /\ r.ownCommand = heard.ownCommand /\ r.stoppedDir = heard.stoppedDir
        /\ r.afterRestart = heard.afterRestart /\ r.recheck = heard.recheck
        /\ r.started = heard.started /\ r.awaited = heard.awaited /\ r.written = heard.written
        /\ r.ownAt = heard.ownAt /\ r.stop = stop /\ r.timer = heard.timer
    BY <1>2, SMT DEF Fields
  <2> HIDE DEF r
  <2> QED
    BY <1>2, <2>1, <2>2, <2>3 DEF clock
<1> HIDE DEF back, stop
<1>5. CASE age - StartDelay >= m.clock
  <2>1. m.clock <= age - StartDelay
    BY <1>5, Constants, SMT DEF Shaped
  <2> QED
    BY <1>1, <1>2, <1>5, <2>1 DEF own
<1>6. CASE ~(age - StartDelay >= m.clock)
  <2>1. Shaped(back) /\ age - StartDelay <= age - StartDelay
    BY <1>3, <1>4, Constants, NoTargetIsInt, SMT DEF Shaped
  <2>2. Same(back, ArmDeadline(back))
    BY <2>1, DurationIsInt, ArmDoes DEF ArmDeadline
  <2> QED
    BY <1>1, <1>3, <1>4, <1>6, <2>1, <2>2 DEF Same, own
<1> QED
  BY <1>5, <1>6

\* A delivered stop ends the movement.
LEMMA StopDeliveredDoes == ASSUME NEW m, Shaped(m), NEW age \in Int
  PROVE LET n == StopDelivered(m, age)
        IN  /\ Over(n) /\ ~n.afterRestart /\ n.ownAt = age /\ n.ownCommand = "none"
            /\ n.stoppedDir = m.stop.interrupted
<1> DEFINE s == Finish(m, RestingPlace(m, age))
           dir == m.stop.interrupted
           n == [s EXCEPT !.ownAt = age, !.ownCommand = "none", !.stoppedDir = dir]
<1>1. Over(s) /\ ~s.afterRestart
  BY FinishDoes
<1>2. DOMAIN s = Fields
  BY FinishDoes
<1>3. StopDelivered(m, age) = n
  BY DEF StopDelivered, MarkOwnStop
<1> HIDE DEF s, dir
<1>4. Over(n) /\ ~n.afterRestart /\ n.ownAt = age /\ n.ownCommand = "none" /\ n.stoppedDir = dir
  BY <1>1, <1>2, SMT DEF Over, Fields
<1> QED
  BY <1>3, <1>4 DEF dir

\* So does a dropped movement frame.
LEMMA MoveDroppedDoes == ASSUME NEW m, Shaped(m)
  PROVE LET n == MoveDropped(m) IN Over(n) /\ ~n.afterRestart /\ n.ownAt = Off
<1> DEFINE s == Finish(m, m.from)
           n == [s EXCEPT !.ownCommand = "none", !.ownAt = Off, !.stoppedDir = "none"]
<1>1. Over(s) /\ ~s.afterRestart
  BY FinishDoes
<1>2. DOMAIN s = Fields
  BY FinishDoes
<1>3. MoveDropped(m) = n
  BY DEF MoveDropped
<1> HIDE DEF s
<1>4. Over(n) /\ ~n.afterRestart /\ n.ownAt = Off
  BY <1>1, <1>2, SMT DEF Over, Fields
<1> QED
  BY <1>3, <1>4

\* A stop that is queued changes nothing but the stop.
SameButStop(m, n) ==
    /\ n.moving = m.moving /\ n.from = m.from /\ n.clock = m.clock /\ n.target = m.target
    /\ n.end = m.end /\ n.pos = m.pos /\ n.ownAt = m.ownAt /\ n.ownCommand = m.ownCommand
    /\ n.stoppedDir = m.stoppedDir /\ n.afterRestart = m.afterRestart /\ n.recheck = m.recheck
    /\ n.awaited = m.awaited /\ n.written = m.written /\ n.started = m.started

\* A queued stop is noted, and nothing else changes but the timers.
LEMMA StopQueuedDoes == ASSUME NEW m, Shaped(m), NEW frozen, NEW base, nextId \in Nat \ {0}
  PROVE LET n == StopQueued(m, frozen, base)
        IN  /\ SameButStop(m, n) /\ n.stop # NoStop
            /\ n.stop.frame = nextId /\ n.stop.interrupted = m.moving
<1> DEFINE stop == [frame |-> nextId, interrupted |-> m.moving, frozen |-> frozen,
                    base |-> base, age |-> 0, rebased |-> FALSE]
           fired == Outdated(m.fired)
           n == [m EXCEPT !.timer = Off, !.fired = fired, !.stop = stop]
<1>1. stop.frame = nextId /\ stop.interrupted = m.moving /\ stop # NoStop
  BY NoStopShape, SMT
<1>2. StopQueued(m, frozen, base) = n
  <2> HIDE DEF stop
  <2> QED
    BY SMT DEF Shaped, StopQueued, Fields, stop
<1> HIDE DEF stop, fired
<1>3. SameButStop(m, n) /\ n.stop = stop
  BY SMT DEF Shaped, SameButStop, Fields
<1> QED
  BY <1>1, <1>2, <1>3

\* A dropped stop is forgotten: the run goes on to its end stop, or is there already.
LEMMA StopDroppedDoes == ASSUME NEW m, Shaped(m)
  PROVE LET n == StopDropped(m)
        IN  IF m.moving = "none" THEN SameButStop(m, n) /\ n.stop = NoStop
            ELSE /\ n.ownAt = m.ownAt /\ n.ownCommand = m.ownCommand
                 /\ \/ Begun(n, m.moving, NoTarget, 0)
                    \/ Over(n) /\ n.pos = EndStopOf(m.moving)
<1> DEFINE c == [m EXCEPT !.stop = NoStop]
<1>1. /\ SameButStop(m, c) /\ c.stop = NoStop /\ DOMAIN c = Fields /\ c.timer = m.timer
  BY SMT DEF Shaped, SameButStop, Fields
<1>2. Shaped(c)
  BY <1>1, NoStopShape, NoTargetIsInt DEF Shaped, SameButStop
<1> HIDE DEF c
<1>3. CASE m.moving = "none"
  BY <1>1, <1>3 DEF StopDropped, ContinueToEndStop, c, SameButStop
<1>4. CASE m.moving # "none"
  <2>1. c.moving = m.moving /\ c.ownAt = m.ownAt /\ c.ownCommand = m.ownCommand
    BY <1>1 DEF SameButStop
  <2>2. LET n == ContinueToEndStop(c)
        IN  /\ n.ownAt = c.ownAt /\ n.ownCommand = c.ownCommand
            /\ \/ Begun(n, c.moving, NoTarget, 0)
               \/ Over(n) /\ n.pos = EndStopOf(c.moving)
    BY <1>2, <1>4, <2>1, ContinueDoes
  <2> QED
    BY <1>4, <2>1, <2>2 DEF StopDropped, c, Over
<1> QED
  BY <1>3, <1>4

\* The motor's start re-times a run, and nothing else.
LEMMA MotorStartDoes == ASSUME NEW m, Shaped(m)
  PROVE LET n == MotorStart(m)
        IN  /\ ~MotorAnswers(m) => n = m
            /\ MotorAnswers(m) => m.stop = NoStop /\ ~m.started
            /\ n.moving = m.moving /\ n.from = m.from /\ n.target = m.target
            /\ n.end = m.end /\ n.pos = m.pos /\ n.ownAt = m.ownAt /\ n.ownCommand = m.ownCommand
            /\ n.stoppedDir = m.stoppedDir /\ n.afterRestart = m.afterRestart
            /\ n.recheck = m.recheck /\ n.awaited = m.awaited /\ n.stop = m.stop
            /\ n.written = m.written
<1> DEFINE b == [m EXCEPT !.started = TRUE, !.clock = 0]
<1>1. /\ DOMAIN b = Fields /\ b.clock = 0
      /\ b.moving = m.moving /\ b.from = m.from /\ b.target = m.target
      /\ b.end = m.end /\ b.pos = m.pos /\ b.ownAt = m.ownAt /\ b.ownCommand = m.ownCommand
      /\ b.stoppedDir = m.stoppedDir /\ b.afterRestart = m.afterRestart
      /\ b.recheck = m.recheck /\ b.awaited = m.awaited /\ b.stop = m.stop
      /\ b.written = m.written /\ b.timer = m.timer
  BY SMT DEF Shaped, Fields
<1> HIDE DEF b
<1>2. Shaped(b)
  BY <1>1, NoTargetIsInt DEF Shaped
<1>3. Same(b, ArmDeadline(b))
  BY <1>2, DurationIsInt, ArmDoes DEF ArmDeadline
<1> QED
  BY <1>1, <1>3 DEF MotorStart, b, Same, MotorAnswers

\* An ignored frame closes the window, and may have the actuator asked.
SameButWindow(m, n) ==
    /\ n.moving = m.moving /\ n.from = m.from /\ n.clock = m.clock /\ n.target = m.target
    /\ n.end = m.end /\ n.pos = m.pos /\ n.ownCommand = m.ownCommand
    /\ n.stoppedDir = m.stoppedDir /\ n.afterRestart = m.afterRestart
    /\ n.awaited = m.awaited /\ n.stop = m.stop /\ n.written = m.written /\ n.started = m.started

\* An ignored frame changes nothing but the window and the re-check.
LEMMA IgnoreDoes == ASSUME NEW m, Shaped(m)
  PROVE LET n == Ignore(m)
            waits == m.ownCommand # "none" /\ m.awaited # 0
        IN  /\ SameButWindow(m, n)
            /\ n.ownAt = IF waits THEN m.ownAt ELSE Off
            /\ n.recheck = IF waits \/ m.ownCommand = "none" \/ m.afterRestart
                           THEN RecheckDelay ELSE m.recheck
<1> DEFINE waits == m.ownCommand # "none" /\ m.awaited # 0
           own == IF waits THEN m.ownAt ELSE Off
           recheck == IF waits \/ m.ownCommand = "none" \/ m.afterRestart THEN RecheckDelay ELSE m.recheck
           n == [m EXCEPT !.ownAt = own, !.recheck = recheck]
<1>1. Ignore(m) = n
  BY SMT DEF Shaped, Ignore, Fields
<1> HIDE DEF own, recheck
<1>2. SameButWindow(m, n) /\ n.ownAt = own /\ n.recheck = recheck
  BY SMT DEF Shaped, SameButWindow, Fields
<1> QED
  BY <1>1, <1>2 DEF own, recheck

\* What a bus frame does, whatever it is.
LEMMA HandleDoes == ASSUME NEW m, Shaped(m), NEW frame \in Frames
  PROVE /\ frame = m.moving => Handle(m, frame) = MotorStart(m)
        /\ frame # m.moving /\ IsEcho(m, frame) => Handle(m, frame) = Ignore(m)
        /\ frame # m.moving /\ ~IsEcho(m, frame) /\ frame \in Directions
             => Handle(m, frame) = Start(m, frame, NoTarget, 0)
        /\ frame = "stop" /\ ~IsEcho(m, frame)
             => \E p \in Int : /\ Handle(m, frame) = Finish(m, p)
                               /\ m.moving = "none" => p = m.pos
<1>1. frame = m.moving => frame # "stop"
  BY DEF Shaped, Directions
<1>2. frame = "stop" => frame # m.moving /\ frame \notin Directions
  BY DEF Shaped, Directions
<1>3. ASSUME frame = "stop", ~IsEcho(m, frame)
      PROVE  \E p \in Int : Handle(m, frame) = Finish(m, p) /\ (m.moving = "none" => p = m.pos)
  <2> DEFINE place == IF ReachedEndStop(m) THEN m.end ELSE Estimate(m, 0)
  <2>1. place \in Int
    BY EstimateIsInt, NoTargetIsInt DEF Shaped
  <2>2. m.moving = "none" => place = m.pos
    BY DEF ReachedEndStop, Estimate
  <2>3. Handle(m, frame) = Finish(m, place)
    BY <1>2, <1>3 DEF Handle
  <2> QED
    BY <2>1, <2>2, <2>3
<1> QED
  BY <1>1, <1>2, <1>3, Zenon DEF Handle, Frames

--------------------------------------------------------------------------
(* The part of the invariant that holds however exact the estimate is      *)

\* What the earlier invariants say of the record and of what surrounds it.
LEMMA Known == ASSUME MotionInv
  PROVE /\ Shaped(cover)
        /\ cover.moving = "none" => cover.awaited = 0 /\ ~IsArmed(cover)
        /\ cover.moving # "none" => (IsArmed(cover) <=> cover.stop = NoStop)
        /\ cover.awaited # 0 => cover.moving # "none" /\ cover.awaited # cover.stop.frame
        /\ cover.stop = NoStop <=> cover.stop.frame = 0
        /\ nextId \in Nat \ {0} /\ line \in Seq(FrameType)
        /\ \A i \in DOMAIN line : line[i] \in FrameType /\ line[i].id \in Nat \ {0} /\ line[i].kind \in Frames
        /\ wire.id \in Nat /\ (wire # Idle <=> wire.id # 0)
        /\ wire = Idle => wire.kind = "none" /\ wire.id = 0
        /\ motor \in Directions \cup {"none"}
        /\ starting # NotStarting => starting.dir \in Directions
        /\ relay.what \subseteq Frames
<1>1. Sound(cover) /\ PathInv /\ ActuatorInv
  BY DEF MotionInv
<1>2. \A i \in DOMAIN line : line[i] \in FrameType
  BY <1>1, SMT DEF PathInv
<1>3. \A i \in DOMAIN line : line[i].id \in Nat \ {0} /\ line[i].kind \in Frames
  BY <1>2 DEF FrameType
<1>4. Idle.id = 0 /\ Idle.kind = "none"
  BY DEF Idle
<1>5. wire.id \in Nat /\ (wire # Idle => wire.id # 0)
  BY <1>1 DEF PathInv
<1>6. relay.what \subseteq Frames
  BY <1>1 DEF ActuatorInv
<1>7. /\ cover.moving = "none" => cover.awaited = 0 /\ ~IsArmed(cover)
      /\ cover.stop = NoStop <=> cover.stop.frame = 0
  BY <1>1, NoStopShape DEF Sound
<1> QED
  BY <1>1, <1>2, <1>3, <1>4, <1>5, <1>6, <1>7 DEF Sound, PathInv, ActuatorInv

\* An end stop is a place, and no way leads nowhere.
LEMMA Ends ==
  /\ \A k : EndStopOf(k) \in Int /\ EndStopOf(k) # Unknown
  /\ \A k \in Directions : k # "none" /\ k # "stop" /\ k \in Frames
  /\ "stop" \notin Directions /\ "none" \notin Directions /\ "stop" \in Frames
<1>1. \A k : EndStopOf(k) \in Int /\ EndStopOf(k) # Unknown
  BY Constants, SMT DEF EndStopOf, Unknown
<1> QED
  BY <1>1 DEF Directions, Frames

\* A movement that is over is tidy, and so is one that begins.
LEMMA OverIsTidy == ASSUME NEW n, Over(n), ~n.afterRestart PROVE Tidy(n)
  BY DEF Over, Tidy

\* A movement begins tidy.
LEMMA StartIsTidy ==
  ASSUME NEW m, Shaped(m), NEW dir \in Directions, NEW target \in Int, NEW frame
  PROVE  Tidy(Start(m, dir, target, frame))
<1> DEFINE n == Start(m, dir, target, frame)
<1>1. Marked(n, dir, frame) /\ (Begun(n, dir, target, frame) \/ Over(n))
  BY StartDoes
<1> HIDE DEF n
<1>2. dir # "none"
  BY DEF Directions
<1>3. Tidy(n)
  BY <1>1, <1>2, Zenon DEF Marked, Begun, Over, Tidy
<1> QED
  BY <1>3 DEF n

\* A run that goes on to its end stop stays tidy.
LEMMA ContinueIsTidy == ASSUME NEW m, Shaped(m), Tidy(m), m.moving # "none"
  PROVE Tidy(ContinueToEndStop(m))
<1> DEFINE n == ContinueToEndStop(m)
<1>1. /\ n.ownAt = m.ownAt /\ n.ownCommand = m.ownCommand
      /\ Begun(n, m.moving, NoTarget, 0) \/ Over(n)
  BY ContinueDoes
<1> HIDE DEF n
<1>2. n.ownCommand # "none" \/ n.ownAt = Off
  BY <1>1, Zenon DEF Tidy
<1>3. ASSUME Begun(n, m.moving, NoTarget, 0) PROVE Tidy(n)
  BY <1>2, <1>3, Zenon DEF Begun, Tidy
<1>4. ASSUME Over(n) PROVE Tidy(n)
  BY <1>2, <1>4, Zenon DEF Over, Tidy
<1>5. Tidy(n)
  BY <1>1, <1>3, <1>4
<1> QED
  BY <1>5 DEF n

\* Every report keeps a record tidy.
LEMMA ReportIsTidy ==
  ASSUME NEW m, Sound(m), Tidy(m), NEW id \in Nat \ {0}, NEW age \in Int
  PROVE  Tidy(Delivered(m, id, age)) /\ Tidy(NotDelivered(m, id))
<1>1. Shaped(m) /\ (m.awaited # 0 => m.moving # "none")
  BY DEF Sound
<1>2. ASSUME m.moving # "none" PROVE Tidy(MoveDelivered(m, age))
  <2> DEFINE n == MoveDelivered(m, age)
  <2>1. /\ n.moving = m.moving /\ n.target = m.target /\ n.end = m.end
        /\ n.ownCommand = m.ownCommand
        /\ n.ownAt = IF m.ownCommand # "none" /\ m.ownAt # Off THEN age ELSE m.ownAt
    BY <1>1, MoveDeliveredDoes
  <2> HIDE DEF n
  <2>2. Tidy(n)
    BY <1>2, <2>1, Zenon DEF Tidy
  <2> QED
    BY <2>2 DEF n
<1>3. Tidy(StopDelivered(m, age)) /\ Tidy(MoveDropped(m))
  BY <1>1, StopDeliveredDoes, MoveDroppedDoes, OverIsTidy
<1>4. Tidy(StopDropped(m))
  <2> DEFINE n == StopDropped(m)
  <2>1. IF m.moving = "none" THEN SameButStop(m, n)
        ELSE /\ n.ownAt = m.ownAt /\ n.ownCommand = m.ownCommand
             /\ Begun(n, m.moving, NoTarget, 0) \/ Over(n)
    BY <1>1, StopDroppedDoes
  <2> HIDE DEF n
  <2>2. Tidy(n)
    BY <2>1, Zenon DEF SameButStop, Begun, Over, Tidy
  <2> QED
    BY <2>2 DEF n
<1> QED
  BY <1>1, <1>2, <1>3, <1>4 DEF Delivered, NotDelivered

\* So does every frame of the bus.
LEMMA HandleIsTidy == ASSUME NEW m, Shaped(m), Tidy(m), NEW frame \in Frames PROVE Tidy(Handle(m, frame))
<1>1. ASSUME frame = m.moving PROVE Tidy(MotorStart(m))
  <2> DEFINE n == MotorStart(m)
  <2>1. /\ n.moving = m.moving /\ n.target = m.target /\ n.end = m.end /\ n.ownAt = m.ownAt
        /\ n.ownCommand = m.ownCommand
    BY MotorStartDoes
  <2> HIDE DEF n
  <2>2. m.moving # "none"
    BY <1>1 DEF Frames, Directions
  <2>3. Tidy(n)
    BY <2>1, <2>2, Zenon DEF Tidy
  <2> QED
    BY <2>3 DEF n
<1>2. Tidy(Ignore(m))
  <2> DEFINE n == Ignore(m)
  <2>1. SameButWindow(m, n) /\ n.ownAt \in {m.ownAt, Off}
    BY IgnoreDoes
  <2> HIDE DEF n
  <2>2. Tidy(n)
    BY <2>1, Zenon DEF SameButWindow, Tidy
  <2> QED
    BY <2>2 DEF n
<1>3. \A p \in Int : Tidy(Finish(m, p))
  BY FinishDoes, OverIsTidy
<1>4. frame \in Directions => Tidy(Start(m, frame, NoTarget, 0))
  BY NoTargetIsInt, StartIsTidy
<1>5. frame = "stop" \/ frame \in Directions
  BY DEF Frames
<1> QED
  BY <1>1, <1>2, <1>3, <1>4, <1>5, HandleDoes

\* The queue after a frame was added, and after its first frame was taken.
LEMMA Appended == ASSUME MotionInv, NEW kind \in Frames, Queue(kind)
  PROVE /\ Len(line') = Len(line) + 1
        /\ \A i \in DOMAIN line' : \/ i \in DOMAIN line /\ line'[i] = line[i]
                                   \/ i = Len(line') /\ line'[i] = [id |-> nextId, kind |-> kind]
        /\ nextId' = nextId + 1 /\ wire' = wire
<1> DEFINE sent == [id |-> nextId, kind |-> kind]
<1>1. line \in Seq(FrameType) /\ nextId \in Nat \ {0} /\ line' = Append(line, sent)
  BY Known DEF Queue
<1>2. sent \in FrameType
  BY <1>1 DEF FrameType
<1> HIDE DEF sent
<1>3. /\ Len(line') = Len(line) + 1
      /\ \A i \in DOMAIN line' : \/ i \in DOMAIN line /\ line'[i] = line[i]
                                 \/ i = Len(line') /\ line'[i] = sent
  BY <1>1, <1>2, SMT
<1> QED
  BY <1>3 DEF Queue, sent

\* A frame leaves the head of the queue.
LEMMA Advanced == ASSUME MotionInv, line # <<>>, line' = Tail(line)
  PROVE /\ 1 \in DOMAIN line /\ Head(line) = line[1]
        /\ \A i \in DOMAIN line' : /\ i + 1 \in DOMAIN line /\ i + 1 # 1 /\ line'[i] = line[i + 1]
                                   /\ i + 1 = Len(line) => i = Len(line')
        /\ 1 = Len(line) => line' = <<>>
<1>1. line \in Seq(FrameType)
  BY Known
<1> QED
  BY <1>1, SMT

\* Frames keep their numbers.
LEMMA NumbersStay ==
  ASSUME MotionInv, Numbered, MotionNext PROVE Numbered'
<1>1. nextId \in Nat \ {0} /\ Idle.id = 0 /\ wire.id \in Nat
  BY Known DEF Idle
<1>2. /\ \A i \in DOMAIN line : line[i].id \in Nat /\ line[i].kind \in Frames
      /\ \A i \in DOMAIN line : line[i].id < nextId
      /\ wire.id < nextId /\ (wire # Idle => wire.kind \in Frames)
  BY Known DEF Numbered
<1>3. ASSUME NEW kind \in Frames, Queue(kind) PROVE Numbered'
  <2>1. \A i \in DOMAIN line' : line'[i].id < nextId'
    <3> TAKE i \in DOMAIN line'
    <3>1. line'[i].id = nextId \/ (i \in DOMAIN line /\ line'[i].id = line[i].id)
      BY <1>3, Appended
    <3> QED
      BY <1>1, <1>2, <1>3, <3>1, Appended, SMT
  <2>2. wire'.id < nextId'
    BY <1>1, <1>2, <1>3, Appended, SMT
  <2> QED
    BY <1>2, <1>3, <2>1, <2>2, Appended DEF Numbered
<1>4. ASSUME line # <<>>, line' = Tail(line), nextId' = nextId,
             wire' = wire \/ (wire'.id = line[1].id /\ wire'.kind = line[1].kind)
      PROVE  Numbered'
  <2>1. \A i \in DOMAIN line' : line'[i].id < nextId'
    BY <1>2, <1>4, Advanced
  <2>2. wire'.id < nextId' /\ (wire' # Idle => wire'.kind \in Frames)
    BY <1>2, <1>4, Advanced
  <2> QED
    BY <2>1, <2>2 DEF Numbered
<1>5. ASSUME UNCHANGED <<line, nextId>>,
             wire' = Idle \/ (wire'.id = wire.id /\ wire'.kind = wire.kind /\ wire # Idle)
      PROVE  Numbered'
  BY <1>1, <1>2, <1>5, SMT DEF Numbered
<1>6. UNCHANGED pathVars => Numbered'
  BY DEF pathVars, Numbered
<1>7. CASE Command
  <2>1. \E kind \in Frames : Queue(kind)
    <3>1. CASE StopCover
      BY <3>1, Ends DEF StopCover
    <3>2. CASE OpenOrClose
      BY <3>2, Ends DEF OpenOrClose, SendDirection
    <3>3. ASSUME NEW p, SetPosition(p) PROVE \E kind \in Frames : Queue(kind)
      BY <3>3 DEF SetPosition, SendDirection, Directions, Frames
    <3> QED
      BY <1>7, <3>1, <3>2, <3>3 DEF Command
  <2> QED
    BY <1>3, <2>1
<1>8. CASE TimerFires \/ Deadline \/ EchoRecheck
  <2>1. CASE DeadlineStops
    BY <1>3, <2>1, Ends DEF DeadlineStops
  <2> QED
    BY <1>6, <1>8, <2>1 DEF TimerFires, Deadline, DeadlineOutdated, DeadlineTooEarly, DeadlineFreeRun,
       DeadlineStopRefused, EchoRecheck
<1>9. CASE Write
  <2>1. /\ line # <<>> /\ line' = Tail(line) /\ nextId' = nextId
        /\ wire' = [id |-> Head(line).id, kind |-> Head(line).kind, age |-> 0]
    BY <1>9 DEF Write
  <2>2. Head(line) = line[1]
    BY <2>1, Advanced
  <2> QED
    BY <1>4, <2>1, <2>2
<1>10. CASE Report \/ DropWritten
  BY <1>5, <1>10 DEF Report, DropWritten
<1>11. CASE Drop
  BY <1>4, <1>11 DEF Drop
<1>12. CASE Tick
  <2>1. wire' = Idle \/ (wire'.id = wire.id /\ wire'.kind = wire.kind /\ wire # Idle)
    <3>1. CASE wire = Idle
      BY <1>12, <3>1 DEF Tick
    <3>2. CASE wire # Idle
      BY <1>12, <3>2, SMT DEF Tick, MotionInv, PathInv
    <3> QED
      BY <3>1, <3>2
  <2> QED
    BY <1>5, <1>12, <2>1 DEF Tick
<1>13. CASE Relay \/ MotorStarts \/ MotorStops \/ HitsEndStop \/ Keypad \/ StatusAnswer
  BY <1>6, <1>13 DEF Relay, MotorStarts, MotorStops, HitsEndStop, Keypad, KeypadStops, KeypadMoves, StatusAnswer
<1> QED
  BY <1>7, <1>8, <1>9, <1>10, <1>11, <1>12, <1>13 DEF MotionNext

\* The actuator keeps to one thing at a time.
LEMMA OneMotorStays ==
  ASSUME MotionInv, OneMotor, MotionNext PROVE OneMotor'
<1>1. CASE UNCHANGED actuatorVars
  BY <1>1 DEF actuatorVars, OneMotor
<1>2. CASE Command \/ TimerFires \/ Deadline \/ EchoRecheck \/ Report \/ Drop \/ DropWritten \/ Relay
           \/ StatusAnswer
  <2>1. UNCHANGED actuatorVars
    BY <1>2 DEF Command, OpenOrClose, SetPosition, SendDirection, StopCover, TimerFires, Deadline,
       DeadlineOutdated, DeadlineTooEarly, DeadlineFreeRun, DeadlineStops, DeadlineStopRefused,
       EchoRecheck, Report, Drop, DropWritten, Relay, StatusAnswer
  <2> QED
    BY <1>1, <2>1
<1>3. CASE Write
  BY <1>3, Zenon DEF Write, OneMotor
<1>4. CASE MotorStarts
  BY <1>4, Known DEF MotorStarts, OneMotor
<1>5. CASE MotorStops \/ Keypad
  BY <1>5, Ends DEF MotorStops, Keypad, KeypadStops, KeypadMoves, OneMotor
<1>6. CASE HitsEndStop
  BY <1>6, Ends DEF HitsEndStop, AtEndStop, OneMotor
<1>7. CASE Tick
  BY <1>7 DEF Tick, OneMotor, Down
<1> QED
  BY <1>2, <1>3, <1>4, <1>5, <1>6, <1>7 DEF MotionNext

\* Moving a timer moves nothing else.
LEMMA FiredIsSame == ASSUME NEW m, Shaped(m), NEW fired
  PROVE /\ Same(m, [m EXCEPT !.fired = fired]) /\ Shaped([m EXCEPT !.fired = fired])
        /\ Same(m, [m EXCEPT !.timer = Off, !.fired = fired])
        /\ Shaped([m EXCEPT !.timer = Off, !.fired = fired])
<1>1. Same(m, [m EXCEPT !.fired = fired]) /\ Shaped([m EXCEPT !.fired = fired])
  BY SMT DEF Shaped, Same, Fields
<1>2. Off \in Int
  BY SMT DEF Off
<1>3. Same(m, [m EXCEPT !.timer = Off, !.fired = fired])
      /\ Shaped([m EXCEPT !.timer = Off, !.fired = fired])
  BY <1>2, SMT DEF Shaped, Same, Fields
<1> QED
  BY <1>1, <1>3

\* The coroutine of the deadline takes its firing off the record, and nothing else.
LEMMA RanIsSame == ASSUME MotionInv PROVE Same(cover, Ran) /\ Shaped(Ran)
<1> DEFINE fired == cover.fired \ {"current"}
<1>1. Shaped(cover)
  BY Known
<1>2. Ran = [cover EXCEPT !.fired = fired]
  BY DEF Ran
<1> QED
  BY <1>1, <1>2, FiredIsSame

\* Firing, and giving up a firing that is out of date, move timers only.
LEMMA TimersOnly == ASSUME MotionInv, TimerFires \/ DeadlineOutdated \/ DeadlineTooEarly
  PROVE Same(cover, cover')
<1>1. Shaped(cover)
  BY Known
<1>2. CASE TimerFires
  <2> DEFINE fired == cover.fired \cup {"current"}
  <2>1. cover' = [cover EXCEPT !.timer = Off, !.fired = fired]
    BY <1>1, <1>2, SMT DEF TimerFires, Shaped, Fields
  <2> QED
    BY <1>1, <2>1, FiredIsSame
<1>3. CASE DeadlineOutdated
  <2> DEFINE fired == cover.fired \ {"stale"}
  <2>1. cover' = [cover EXCEPT !.fired = fired]
    BY <1>3 DEF DeadlineOutdated
  <2> QED
    BY <1>1, <2>1, FiredIsSame
<1>4. CASE DeadlineTooEarly
  <2>1. Same(Ran, cover')
    BY <1>4, RanIsSame, ArmDoes DEF DeadlineTooEarly, ArmDeadline
  <2> QED
    BY <2>1, RanIsSame, Zenon DEF Same
<1> QED
  BY <1>2, <1>3, <1>4

\* A record that differs in its timers is as tidy.
LEMMA SameIsTidy == ASSUME NEW m, NEW n, Tidy(m), Same(m, n) \/ SameButStop(m, n) PROVE Tidy(n)
  BY Zenon DEF Same, SameButStop, Tidy

\* Nothing that any step does leaves the record untidy.
LEMMA TidyStays ==
  ASSUME MotionInv, RangesInv, Tidy(cover), MotionNext PROVE Tidy(cover')
<1>1. Shaped(cover) /\ Sound(cover) /\ nextId \in Nat \ {0}
  BY Known DEF MotionInv
<1>2. Same(cover, Ran) /\ Shaped(Ran)
  BY RanIsSame
<1>3. Tidy(Ran)
  BY <1>2, SameIsTidy
<1>4. CASE Command
  <2>1. ASSUME NEW dir \in Directions, NEW target \in Int, SendDirection(dir, target)
        PROVE  Tidy(cover')
    BY <1>1, <2>1, StartIsTidy DEF SendDirection
  <2>2. CASE StopCover
    BY <1>1, <2>2, StopQueuedDoes, SameIsTidy DEF StopCover
  <2>3. CASE OpenOrClose
    BY <2>1, <2>3, NoTargetIsInt DEF OpenOrClose
  <2>4. ASSUME NEW p \in 1..(Full - 1), SetPosition(p) PROVE Tidy(cover')
    <3>1. p \in Int
      BY Constants, SMT
    <3> QED
      BY <2>1, <2>4, <3>1 DEF SetPosition, Directions
  <2> QED
    BY <1>4, <2>2, <2>3, <2>4 DEF Command
<1>5. CASE TimerFires
  BY <1>5, TimersOnly, SameIsTidy
<1>6. CASE Deadline
  <2>1. CASE DeadlineOutdated
    BY <2>1, TimersOnly, SameIsTidy
  <2>2. CASE DeadlineTooEarly
    BY <2>2, TimersOnly, SameIsTidy
  <2>3. CASE DeadlineFreeRun
    BY <1>2, <2>3, FinishDoes, OverIsTidy DEF DeadlineFreeRun
  <2>4. CASE DeadlineStops
    BY <1>1, <1>2, <1>3, <2>4, StopQueuedDoes, SameIsTidy DEF DeadlineStops
  <2>5. CASE DeadlineStopRefused
    <3>1. Ran.moving # "none"
      BY <2>5, RanShape DEF DeadlineStopRefused, RunIsOver
    <3> QED
      BY <1>2, <1>3, <2>5, <3>1, ContinueIsTidy DEF DeadlineStopRefused
  <2> QED
    BY <1>6, <2>1, <2>2, <2>3, <2>4, <2>5 DEF Deadline
<1>7. CASE EchoRecheck
  <2> DEFINE e == [cover EXCEPT !.recheck = Off]
  <2>1. /\ e.moving = cover.moving /\ e.from = cover.from /\ e.clock = cover.clock
        /\ e.target = cover.target /\ e.end = cover.end /\ e.ownAt = cover.ownAt
        /\ e.ownCommand = cover.ownCommand /\ e.afterRestart = cover.afterRestart
    BY <1>1, SMT DEF Shaped, Fields
  <2>2. cover' = e
    BY <1>7 DEF EchoRecheck
  <2> HIDE DEF e
  <2>3. Tidy(e)
    BY <2>1, Zenon DEF Tidy
  <2> QED
    BY <2>2, <2>3
<1>8. CASE Report \/ Drop \/ DropWritten
  <2>1. wire # Idle => wire.id \in Nat \ {0} /\ wire.age \in Int
    BY Known DEF MotionInv, PathInv
  <2>2. line # <<>> => Head(line).id \in Nat \ {0}
    BY HeadAndTail DEF MotionInv, FrameType
  <2> QED
    BY <1>1, <1>8, <2>1, <2>2, ReportIsTidy DEF Report, Drop, DropWritten
<1>9. CASE Relay \/ MotorStarts \/ MotorStops \/ HitsEndStop \/ Keypad \/ StatusAnswer
  <2>1. ASSUME NEW frame \in Frames, Sees(frame) PROVE Tidy(cover')
    BY <1>1, <2>1, HandleIsTidy DEF Sees
  <2>2. Status \in Frames
    BY Known DEF Status, Frames
  <2>3. CASE Relay
    BY <1>1, <2>3, Known, HandleIsTidy DEF Relay
  <2>4. CASE MotorStarts
    BY <2>1, <2>4, Known, Ends DEF MotorStarts
  <2>5. CASE MotorStops \/ HitsEndStop \/ Keypad
    BY <2>1, <2>5, Ends DEF MotorStops, HitsEndStop, Keypad, KeypadStops, KeypadMoves
  <2> QED
    BY <1>9, <2>1, <2>2, <2>3, <2>4, <2>5 DEF StatusAnswer
<1>10. CASE Write
  BY <1>10 DEF Write
<1>11. CASE Tick
  <2> DEFINE clock == IF cover.moving = "none" THEN 0 ELSE Least(cover.clock + 1, Horizon)
  <2>1. /\ cover'.moving = cover.moving /\ cover'.from = cover.from /\ cover'.target = cover.target
        /\ cover'.end = cover.end /\ cover'.ownCommand = cover.ownCommand
        /\ cover'.afterRestart = cover.afterRestart /\ cover'.ownAt = Older(cover.ownAt)
        /\ cover.moving = "none" => cover'.clock = 0
    BY <1>1, <1>11, SMT DEF Tick, Shaped, Fields
  <2>2. Older(Off) = Off
    BY DEF Older
  <2> QED
    BY <2>1, <2>2, Zenon DEF Tidy
<1> QED
  BY <1>4, <1>5, <1>6, <1>7, <1>8, <1>9, <1>10, <1>11 DEF MotionNext

\* Every step keeps what holds in every phase.
LEMMA TameStays == ASSUME MotionInv, RangesInv, Tame, MotionNext PROVE Tame'
  BY TidyStays, OneMotorStays, NumbersStay DEF Tame

--------------------------------------------------------------------------
(* The phases, step by step                                                *)

\* A record that waits for its frame, or has nothing to wait for, stays so.
LEMMA SameIsAlike ==
  ASSUME NEW m, NEW n, Same(m, n)
  PROVE  /\ \A k : AtEnd(m, k) => AtEnd(n, k)
         /\ \A k, id : Sent(m, k, id) => Sent(n, k, id)
         /\ \A id : Pending(m, id) => Pending(n, id)
  BY DEF Same, AtEnd, Sent, Pending

\* Where nothing turns and nothing is repeated there is nothing to say.
LEMMA StillIsSound ==
  ASSUME Still', ~Live', wire'.kind \in Directions => cover'.stop.frame # wire'.id
  PROVE  Phases'
<1>1. motor' = "none" /\ starting' = NotStarting /\ starting'.dir = "none" /\ NoTurns'
  BY DEF Still, NotStarting
<1>2. LineIsSound' /\ WireIsSound' /\ RelayIsSound'
  BY <1>1 DEF LineIsSound, WireIsSound, RelayIsSound, NoTurns
<1>3. MotorIsSound' /\ RecheckIsSound'
  BY <1>1 DEF MotorIsSound, RecheckIsSound
<1> QED
  BY <1>2, <1>3 DEF Phases

\* The timers disturb no phase.
LEMMA TimersKeepPhases ==
  ASSUME Phases, Same(cover, cover'), UNCHANGED <<pathVars, actuatorVars, relay, asked>>
  PROVE  Phases'
<1>1. UNCHANGED <<line, wire, motor, starting, stopping, relay, asked>>
  BY DEF pathVars, actuatorVars
<1>2. Still' <=> Still
  BY <1>1 DEF Still, NoTurns, Turns
<1>3. Live' <=> Live
  BY <1>1 DEF Live
<1>4. LineIsSound'
  <2>1. \A i \in DOMAIN line : Fresh(i) => Fresh(i)'
    BY <1>1, SameIsAlike DEF Fresh
  <2> QED
    BY <1>1, <1>2, <2>1, SameIsAlike DEF Phases, LineIsSound, Turns
<1>5. WireIsSound' /\ MotorIsSound' /\ RecheckIsSound'
  <2>1. WireIsSound'
    BY <1>1, <1>2, SameIsAlike DEF Phases, WireIsSound, Same
  <2>2. MotorIsSound'
    BY <1>1 DEF Phases, MotorIsSound, Same
  <2>3. RecheckIsSound'
    BY <1>1, <1>2, <1>3 DEF Phases, RecheckIsSound, Same, NoTurns, Turns
  <2> QED
    BY <2>1, <2>2, <2>3
<1>6. RelayIsSound'
  <2> SUFFICES ASSUME Live PROVE \E k \in Directions, a \in Nat : RepeatsMove(k, a)' \/ RepeatsStop(k, a)'
    BY <1>3 DEF RelayIsSound
  <2>1. PICK k \in Directions, a \in Nat : RepeatsMove(k, a) \/ RepeatsStop(k, a)
    BY DEF Phases, RelayIsSound
  <2>2. RepeatsMove(k, a) => RepeatsMove(k, a)'
    <3>1. AtEnd(cover, k) => AtEnd(cover', k)
      BY SameIsAlike
    <3>2. Heard(cover, k, a) => Heard(cover, k, a)'
      BY <1>1 DEF Heard, Same
    <3> QED
      BY <1>1, <3>1, <3>2 DEF RepeatsMove
  <2>3. RepeatsStop(k, a) => RepeatsStop(k, a)'
    <3>1. Stopping(cover, k, a) => Stopping(cover, k, a)'
      BY <1>1 DEF Stopping, Same
    <3>2. Stopped(cover, k, a) => Stopped(cover, k, a)'
      BY <1>1 DEF Stopped, Same
    <3> QED
      BY <1>1, <3>1, <3>2 DEF RepeatsStop
  <2> QED
    BY <2>1, <2>2, <2>3
<1> QED
  BY <1>4, <1>5, <1>6 DEF Phases

\* A stop that is sent while a movement is shown.
LEMMA StopSentKeepsPhases ==
  ASSUME MotionInv, Tame, Phases, Queue("stop"), UNCHANGED <<actuatorVars, relay, asked>>,
         SameButStop(cover, cover'), cover.moving # "none", cover.stop = NoStop,
         cover'.stop.frame = nextId, cover'.stop.interrupted = cover.moving
  PROVE  Phases'
<1>1. /\ UNCHANGED <<wire, motor, starting, stopping, relay, asked>> /\ cover'.moving = cover.moving
      /\ cover.stop.frame = 0
  BY Known DEF Queue, actuatorVars, SameButStop
<1>2. \A i \in DOMAIN line' : \/ i \in DOMAIN line /\ line'[i] = line[i]
                              \/ i = Len(line') /\ line'[i] = [id |-> nextId, kind |-> "stop"]
  BY Appended, Ends
<1>3. NoTurns => NoTurns'
  BY <1>2, Ends DEF NoTurns, Turns
<1>4. Still => Still'
  BY <1>1, <1>3 DEF Still
<1>5. Pending(cover', nextId)
  BY <1>1 DEF Pending
<1>6. LineIsSound'
  <2> SUFFICES ASSUME NEW i \in DOMAIN line'
               PROVE  IF Turns(i)' THEN Fresh(i)'
                      ELSE Still' \/ (i = Len(line') /\ Pending(cover', line'[i].id))
    BY DEF LineIsSound
  <2>1. CASE i = Len(line') /\ line'[i] = [id |-> nextId, kind |-> "stop"]
    BY <1>5, <2>1, Ends DEF Turns
  <2>2. CASE i \in DOMAIN line /\ line'[i] = line[i]
    <3>1. CASE Turns(i)
      <4>1. Fresh(i)
        BY <2>2, <3>1 DEF Phases, LineIsSound
      <4>2. ~AtEnd(cover, line[i].kind)
        BY DEF AtEnd
      <4>3. Sent(cover', line[i].kind, line[i].id)
        BY <4>1, <4>2 DEF Fresh, Sent, SameButStop
      <4>4. Fresh(i)'
        BY <1>1, <2>2, <4>1, <4>3 DEF Fresh
      <4>5. Turns(i)'
        BY <2>2, <3>1 DEF Turns
      <4> QED
        BY <4>4, <4>5
    <3>2. CASE ~Turns(i)
      <4>1. ~Pending(cover, line[i].id)
        BY <1>1, <2>2, Known DEF Pending
      <4>2. Still
        BY <2>2, <3>2, <4>1 DEF Phases, LineIsSound
      <4>3. ~Turns(i)'
        BY <2>2, <3>2 DEF Turns
      <4> QED
        BY <1>4, <4>2, <4>3
    <3> QED
      BY <3>1, <3>2
  <2> QED
    BY <1>2, <2>1, <2>2
<1>7. WireIsSound'
  <2>1. wire.id # nextId
    BY Known, SMT DEF Tame, Numbered
  <2>2. wire.kind = "stop" => starting = NotStarting /\ Still
    <3>1. wire.kind = "stop" => ~Pending(cover, wire.id)
      BY <1>1, Known DEF Pending
    <3> QED
      BY <3>1 DEF Phases, WireIsSound
  <2> QED
    BY <1>1, <1>4, <2>1, <2>2 DEF WireIsSound
<1>8. MotorIsSound'
  BY <1>1 DEF Phases, MotorIsSound, SameButStop
<1>9. RecheckIsSound'
  BY <1>1, <1>3, <1>4 DEF Phases, RecheckIsSound, SameButStop, Live
<1>10. RelayIsSound'
  <2> SUFFICES ASSUME Live PROVE \E k \in Directions, a \in Nat : RepeatsMove(k, a)'
    BY <1>1 DEF RelayIsSound, Live
  <2>1. PICK k \in Directions, a \in Nat : RepeatsMove(k, a) \/ RepeatsStop(k, a)
    BY DEF Phases, RelayIsSound
  <2>2. ~RepeatsStop(k, a)
    BY DEF RepeatsStop, Stopping, Stopped
  <2>3. ~AtEnd(cover, k)
    BY DEF AtEnd
  <2>4. Heard(cover, k, a)
    BY <2>1, <2>2, <2>3 DEF RepeatsMove
  <2>5. Heard(cover, k, a)'
    BY <1>1, <2>4 DEF Heard, SameButStop
  <2>6. RepeatsMove(k, a)'
    BY <1>1, <2>1, <2>2, <2>5 DEF RepeatsMove
  <2> QED
    BY <2>6
<1> QED
  BY <1>6, <1>7, <1>8, <1>9, <1>10 DEF Phases

\* A movement that is asked for when everything has settled.
LEMMA SentKeepsPhases ==
  ASSUME MotionInv, Settled, NEW dir \in Directions, NEW target \in Int, SendDirection(dir, target),
         target = NoTarget \/ Begun(cover', dir, target, nextId)
  PROVE  Phases'
<1>1. /\ line = <<>> /\ wire' = Idle /\ motor' = "none" /\ starting' = NotStarting
      /\ relay'.what = {} /\ ~asked'
  BY DEF Settled, Resting, SendDirection, Queue, actuatorVars
<1>2. wire'.kind = "none" /\ starting'.dir = "none"
  BY <1>1 DEF Idle, NotStarting
<1>3. \A i \in DOMAIN line' : i = 1 /\ line'[i].kind = dir /\ line'[i].id = nextId
  <2>1. Queue(dir) /\ dir \in Frames
    BY Ends DEF SendDirection
  <2>2. Len(line') = 1 /\ DOMAIN line = {}
    BY <1>1, <2>1, Appended, SMT
  <2> QED
    BY <2>1, <2>2, Appended
<1>4. /\ Marked(cover', dir, nextId)
      /\ Begun(cover', dir, target, nextId) \/ (Over(cover') /\ target = NoTarget)
      /\ Over(cover') /\ target = NoTarget =>
           Begun(cover', dir, target, nextId) \/ cover'.pos = EndStopOf(dir)
  BY Known, StartDoes, Ends DEF SendDirection
<1>5. AtEnd(cover', dir) \/ Sent(cover', dir, nextId)
  <2>1. nextId # 0 /\ dir # "none" /\ 0 # Off
    BY Known, Ends DEF Off
  <2>2. CASE Begun(cover', dir, target, nextId)
    BY <1>4, <2>1, <2>2, Zenon DEF Begun, Marked, Sent
  <2>3. CASE Over(cover') /\ cover'.pos = EndStopOf(dir)
    BY <1>4, <2>1, <2>3, Zenon DEF Over, Marked, AtEnd
  <2> QED
    BY <1>4, <2>2, <2>3
<1>6. LineIsSound'
  BY <1>1, <1>3, <1>5 DEF LineIsSound, Turns, Fresh
<1>7. WireIsSound' /\ RelayIsSound'
  BY <1>1, <1>2, Ends DEF WireIsSound, RelayIsSound, Live
<1>8. MotorIsSound' /\ RecheckIsSound'
  BY <1>1, <1>2, <1>4 DEF MotorIsSound, RecheckIsSound, Marked
<1> QED
  BY <1>6, <1>7, <1>8 DEF Phases

\* Commands, as long as the estimate stays exact.
LEMMA CommandKeepsPhases == ASSUME MotionInv, RangesInv, Tame, Phases, Command, exact' PROVE Phases'
<1>1. CASE StopCover
  <2>1. /\ PlainStop /\ Queue("stop") /\ UNCHANGED <<actuatorVars, relay, asked>>
        /\ SameButStop(cover, cover') /\ cover'.stop.frame = nextId
        /\ cover'.stop.interrupted = cover.moving
    BY <1>1, Known, StopQueuedDoes DEF StopCover
  <2>2. CASE cover.moving # "none"
    BY <2>1, <2>2, StopSentKeepsPhases DEF PlainStop
  <2>3. CASE cover.moving = "none"
    <3>1. /\ line = <<>> /\ wire' = Idle /\ motor' = "none" /\ starting' = NotStarting
          /\ relay'.what = {}
      BY <2>1, <2>3 DEF PlainStop, Settled, Resting, Queue, actuatorVars
    <3>2. \A i \in DOMAIN line' : line'[i].kind = "stop"
      BY <2>1, <3>1, Appended, Ends
    <3>3. Still' /\ ~Live' /\ wire'.kind = "none"
      BY <3>1, <3>2, Ends DEF Still, NoTurns, Turns, Live, Idle
    <3> QED
      BY <3>3, StillIsSound, Ends
  <2> QED
    BY <2>2, <2>3
<1>2. CASE OpenOrClose
  BY <1>2, NoTargetIsInt, SentKeepsPhases DEF OpenOrClose, SendDirection
<1>3. ASSUME NEW p \in 1..(Full - 1), SetPosition(p) PROVE Phases'
  <2> DEFINE current == Estimate(cover, 0)
             dir == IF p > current THEN "up" ELSE "down"
  <2>1. p \in Int /\ current \in Int /\ p # NoTarget
    BY Constants, Known, EstimateIsInt, SMT DEF NoTarget
  <2>2. current # Unknown /\ p # current /\ SendDirection(dir, p) /\ dir \in Directions
    BY <1>3 DEF SetPosition, Directions
  <2>3. TravelTime(dir, current, p) > 0
    BY <2>1, <2>2, SMT DEF TravelTime
  <2>4. Begun(cover', dir, p, nextId)
    <3> HIDE DEF dir
    <3> QED
      BY <2>1, <2>2, <2>3, Known, StartDoes DEF SendDirection
  <2> HIDE DEF dir
  <2> QED
    BY <2>1, <2>2, <2>4, SentKeepsPhases DEF SendDirection
<1> QED
  BY <1>1, <1>2, <1>3 DEF Command

\* While the deadline runs, no frame of a movement is in the queue, and no stop is out.
LEMMA DeadlineIsAlone == ASSUME MotionInv, Phases, RunIsOver
  PROVE /\ cover.moving # "none" /\ cover.stop = NoStop /\ cover.stop.frame = 0 /\ cover.awaited = 0
        /\ \A i \in DOMAIN line : ~Turns(i) /\ Still
        /\ wire.kind = "stop" => Still
        /\ Live => \E k \in Directions, a \in Nat : RepeatsMove(k, a) /\ Heard(cover, k, a)
<1>1. /\ cover.moving # "none" /\ cover.stop = NoStop /\ cover.awaited = 0 /\ cover.stop.frame = 0
  BY Known, RanShape DEF RunIsOver, DeadlineRuns, IsArmed
<1>2. \A i \in DOMAIN line : ~Turns(i)
  BY <1>1, Known DEF Phases, LineIsSound, Fresh, AtEnd, Sent
<1>3. \A i \in DOMAIN line : Still
  BY <1>1, <1>2, Known DEF Phases, LineIsSound, Pending
<1>4. wire.kind = "stop" => Still
  BY <1>1, Known DEF Phases, WireIsSound, Pending
<1>5. ASSUME Live PROVE \E k \in Directions, a \in Nat : RepeatsMove(k, a) /\ Heard(cover, k, a)
  BY <1>1, <1>5 DEF Phases, RelayIsSound, RepeatsMove, RepeatsStop, AtEnd, Stopping, Stopped
<1> QED
  BY <1>1, <1>2, <1>3, <1>4, <1>5

\* The deadline ends a free run, sends the stop of a timed one, or cannot.
LEMMA DeadlineKeepsPhases ==
  ASSUME MotionInv, RangesInv, Tame, Timed, Phases, TimerFires \/ Deadline, exact' PROVE Phases'
<1>1. CASE TimerFires \/ DeadlineOutdated \/ DeadlineTooEarly
  BY <1>1, TimersOnly, TimersKeepPhases DEF TimerFires, DeadlineOutdated, DeadlineTooEarly
<1>2. CASE DeadlineStops
  <2>1. RunIsOver /\ Queue("stop") /\ UNCHANGED <<actuatorVars, relay, asked>>
    BY <1>2 DEF DeadlineStops
  <2>2. SameButStop(Ran, cover') /\ cover'.stop.frame = nextId /\ cover'.stop.interrupted = Ran.moving
    BY <1>2, Known, RanIsSame, StopQueuedDoes DEF DeadlineStops
  <2>3. SameButStop(cover, cover') /\ Ran.moving = cover.moving
    BY <2>2, RanIsSame, Zenon DEF Same, SameButStop
  <2> QED
    BY <2>1, <2>2, <2>3, DeadlineIsAlone, StopSentKeepsPhases
<1>3. ASSUME RunIsOver, UNCHANGED <<pathVars, actuatorVars, relay, asked>>,
             cover'.moving \in {cover.moving, "none"}, cover'.stop = NoStop, cover'.recheck = Off,
             cover'.ownCommand = cover.ownCommand, cover'.ownAt = cover.ownAt
      PROVE  LineIsSound' /\ WireIsSound' /\ MotorIsSound' /\ RecheckIsSound'
  <2>1. UNCHANGED <<line, wire, nextId, motor, starting, relay, asked>>
    BY <1>3 DEF pathVars, actuatorVars
  <2>2. Still' <=> Still
    BY <2>1 DEF Still, NoTurns, Turns
  <2>3. LineIsSound'
    BY <1>3, <2>1, <2>2, DeadlineIsAlone DEF LineIsSound, Turns
  <2>4. WireIsSound'
    BY <1>3, <2>1, <2>2, DeadlineIsAlone, Known, Ends, NoStopShape DEF Phases, WireIsSound, Idle
  <2>5. MotorIsSound'
    BY <1>3, <2>1, DeadlineIsAlone DEF Phases, MotorIsSound, Tame, Tidy
  <2>6. RecheckIsSound'
    BY <1>3, <2>1, <2>2, DeadlineIsAlone DEF Phases, RecheckIsSound, Live, NoTurns, Turns
  <2> QED
    BY <2>3, <2>4, <2>5, <2>6
<1>4. CASE DeadlineFreeRun
  <2>1. RunIsOver /\ UNCHANGED <<pathVars, actuatorVars, relay, asked>>
    BY <1>4 DEF DeadlineFreeRun
  <2>2. cover.moving # "none" /\ cover.end = EndStopOf(cover.moving)
    BY <1>4, <2>1, DeadlineIsAlone DEF DeadlineFreeRun, Tame, Tidy
  <2>3. /\ Over(cover') /\ ~cover'.afterRestart /\ cover'.pos = EndStopOf(cover.moving)
        /\ cover'.ownAt = cover.ownAt /\ cover'.ownCommand = cover.ownCommand
    BY <1>4, <2>2, RanIsSame, FinishDoes, Ends DEF DeadlineFreeRun, Same
  <2>4. AtEnd(cover', cover.moving)
    BY <2>2, <2>3 DEF AtEnd, Over, Tame, Tidy
  <2>5. RelayIsSound'
    <3> SUFFICES ASSUME Live PROVE \E k \in Directions, a \in Nat : RepeatsMove(k, a)'
      BY <2>1 DEF RelayIsSound, Live
    <3>1. PICK k \in Directions, a \in Nat : RepeatsMove(k, a) /\ Heard(cover, k, a)
      BY <2>1, DeadlineIsAlone
    <3>2. AtEnd(cover', k)
      BY <2>4, <3>1 DEF Heard
    <3>3. RepeatsMove(k, a)'
      BY <2>1, <3>1, <3>2 DEF RepeatsMove, actuatorVars
    <3> QED
      BY <3>3
  <2> QED
    BY <1>3, <2>1, <2>3, <2>5 DEF Phases, Over
<1>5. CASE DeadlineStopRefused
  <2>1. RunIsOver /\ UNCHANGED <<pathVars, actuatorVars, relay, asked>>
    BY <1>5 DEF DeadlineStopRefused
  <2>2. /\ cover'.ownAt = cover.ownAt /\ cover'.ownCommand = cover.ownCommand
        /\ Begun(cover', cover.moving, NoTarget, 0) \/ Over(cover')
    <3>1. /\ Shaped(Ran) /\ Ran.moving = cover.moving /\ Ran.moving # "none"
          /\ Ran.ownAt = cover.ownAt /\ Ran.ownCommand = cover.ownCommand
      BY <2>1, RanIsSame, DeadlineIsAlone DEF Same
    <3> QED
      BY <1>5, <3>1, ContinueDoes DEF DeadlineStopRefused
  <2>3. cover'.moving \in {cover.moving, "none"} /\ cover'.stop = NoStop /\ cover'.recheck = Off
    BY <2>2 DEF Begun, Over
  <2>4. ~Live
    <3> SUFFICES ASSUME Live PROVE FALSE
      OBVIOUS
    <3>1. PICK k \in Directions, a \in Nat : RepeatsMove(k, a) /\ Heard(cover, k, a)
      BY <2>1, DeadlineIsAlone
    <3>2. cover.clock <= a - StartDelay
      BY <2>1, <3>1, DeadlineIsAlone DEF Heard
    <3>3. cover.clock >= 0
      BY <1>5, <2>1, DeadlineIsAlone DEF DeadlineStopRefused, Restartable
    <3>4. MirrorWindow - a > 0
      BY <3>1 DEF Live, RepeatsMove
    <3> QED
      BY <3>1, <3>2, <3>3, <3>4, MotionAssumption, SMT DEF MotionAssumption, Timed, RangesInv, Ranged
  <2>5. RelayIsSound'
    BY <2>1, <2>4 DEF RelayIsSound, Live
  <2> QED
    BY <1>3, <2>1, <2>2, <2>3, <2>5 DEF Phases
<1> QED
  BY <1>1, <1>2, <1>4, <1>5 DEF Deadline

\* The re-check asks only when nothing is repeated any more.
LEMMA RecheckKeepsPhases ==
  ASSUME MotionInv, RangesInv, Tame, Timed, Phases, EchoRecheck PROVE Phases'
<1> DEFINE e == [cover EXCEPT !.recheck = Off]
<1>1. /\ UNCHANGED <<line, wire, motor, starting, relay>> /\ cover' = e /\ cover.recheck = 0
      /\ asked' = (asked \/ cover.moving = "none" \/ cover.afterRestart)
      /\ 0 # Off
  BY DEF EchoRecheck, pathVars, actuatorVars, Off
<1>2. /\ e.moving = cover.moving /\ e.clock = cover.clock /\ e.pos = cover.pos
      /\ e.ownAt = cover.ownAt /\ e.ownCommand = cover.ownCommand /\ e.stoppedDir = cover.stoppedDir
      /\ e.afterRestart = cover.afterRestart /\ e.awaited = cover.awaited /\ e.stop = cover.stop
      /\ e.written = cover.written /\ e.started = cover.started /\ e.recheck = Off
  BY Known, SMT DEF Shaped, Fields
<1> HIDE DEF e
<1>3. (Still' <=> Still) /\ (Live' <=> Live) /\ (NoTurns' <=> NoTurns)
  BY <1>1 DEF Still, Live, NoTurns, Turns
<1>4. NoTurns
  BY <1>1 DEF Phases, LineIsSound, Fresh, AtEnd, Sent, NoTurns
<1>5. LineIsSound'
  BY <1>1, <1>2, <1>3, <1>4 DEF Phases, LineIsSound, NoTurns, Turns, Pending
<1>6. WireIsSound'
  BY <1>1, <1>2, <1>3 DEF Phases, WireIsSound, Pending
<1>7. MotorIsSound'
  BY <1>1, <1>2 DEF Phases, MotorIsSound
<1>8. ASSUME Live
      PROVE  \E k \in Directions, a \in Nat :
               \/ RepeatsMove(k, a) /\ Heard(cover, k, a) /\ ~cover.afterRestart
               \/ RepeatsStop(k, a) /\ Stopping(cover, k, a) /\ ~cover.afterRestart
  <2>1. PICK k \in Directions, a \in Nat : RepeatsMove(k, a) \/ RepeatsStop(k, a)
    BY <1>8 DEF Phases, RelayIsSound
  <2>2. CASE RepeatsMove(k, a)
    BY <1>1, <2>2 DEF RepeatsMove, AtEnd, Heard
  <2>3. CASE RepeatsStop(k, a)
    <3>1. Stopping(cover, k, a)
      BY <1>1, <2>3 DEF RepeatsStop, Stopped
    <3>2. a < EchoWindow
      BY <1>8, <2>3, MotionAssumption, SMT DEF MotionAssumption, Live, RepeatsStop
    <3>3. ~cover.afterRestart
      BY <1>1, <3>1, <3>2, MotionAssumption, SMT DEF MotionAssumption, Stopping
    <3> QED
      BY <2>3, <3>1, <3>3
  <2> QED
    BY <2>1, <2>2, <2>3
<1>9. Live => cover.moving # "none" /\ ~asked /\ ~cover.afterRestart
  BY <1>8, Ends DEF Heard, Stopping, RepeatsMove, RepeatsStop
<1>10. RecheckIsSound'
  <2>1. cover.moving = "none" => starting = NotStarting
    BY <1>1 DEF Phases, MotorIsSound
  <2>2. cover.afterRestart => Still
    BY <1>1 DEF Phases, RecheckIsSound
  <2>3. asked => starting = NotStarting /\ (cover.moving # "none" => Still)
    BY DEF Phases, RecheckIsSound
  <2>4. asked' => ~Live /\ starting = NotStarting /\ (cover.moving # "none" => Still)
    BY <1>1, <1>9, <2>1, <2>2, <2>3 DEF Still
  <2> QED
    BY <1>1, <1>2, <1>3, <1>4, <2>4 DEF RecheckIsSound
<1>11. RelayIsSound'
  <2> SUFFICES ASSUME Live PROVE \E k \in Directions, a \in Nat : RepeatsMove(k, a)' \/ RepeatsStop(k, a)'
    BY <1>3 DEF RelayIsSound
  <2>1. ~asked'
    BY <1>1, <1>9
  <2>2. PICK k \in Directions, a \in Nat :
               \/ RepeatsMove(k, a) /\ Heard(cover, k, a)
               \/ RepeatsStop(k, a) /\ Stopping(cover, k, a) /\ ~cover.afterRestart
    BY <1>8
  <2>3. CASE RepeatsMove(k, a) /\ Heard(cover, k, a)
    <3>1. Heard(cover, k, a)'
      BY <1>1, <1>2, <2>3 DEF Heard
    <3>2. RepeatsMove(k, a)'
      BY <1>1, <2>1, <2>3, <3>1 DEF RepeatsMove
    <3> QED
      BY <3>2
  <2>4. CASE RepeatsStop(k, a) /\ Stopping(cover, k, a) /\ ~cover.afterRestart
    <3>1. Stopping(cover, k, a)'
      BY <1>1, <1>2, <2>4 DEF Stopping
    <3>2. RepeatsStop(k, a)'
      BY <1>1, <2>1, <2>4, <3>1 DEF RepeatsStop
    <3> QED
      BY <3>2
  <2> QED
    BY <2>2, <2>3, <2>4
<1> QED
  BY <1>5, <1>6, <1>7, <1>10, <1>11 DEF Phases

\* Writing a stop starts the copy of the movement it interrupts; writing a movement the
\* copies of that.
LEMMA WriteKeepsPhases == ASSUME MotionInv, Tame, Phases, Write PROVE Phases'
<1> DEFINE kind == line[1].kind
           id == line[1].id
<1>1. /\ wire = Idle /\ line # <<>> /\ line' = Tail(line) /\ UNCHANGED <<cover, asked>>
      /\ 1 \in DOMAIN line /\ Head(line) = line[1] /\ id \in Nat \ {0} /\ kind \in Frames
  BY Known, Advanced DEF Write
<1>2. wire' = [id |-> id, kind |-> kind, age |-> 0]
  BY <1>1 DEF Write
<1>3. \A i \in DOMAIN line' : /\ i + 1 \in DOMAIN line /\ i + 1 # 1 /\ line'[i] = line[i + 1]
                              /\ i + 1 = Len(line) => i = Len(line')
  BY <1>1, Advanced
<1>4. NoTurns => NoTurns'
  BY <1>3 DEF NoTurns, Turns
<1>5. CASE kind = "stop"
  <2>1. /\ motor' = motor /\ starting' = NotStarting
        /\ relay' = [what |-> {motor} \cap Directions, left |-> EchoWindow]
    BY <1>1, <1>5, Zenon DEF Write
  <2>2. ~Turns(1)
    BY <1>5, Ends DEF Turns
  <2>3. CASE Still
    <3>1. Still' /\ ~Live'
      BY <1>4, <2>1, <2>3, Ends DEF Still, Live
    <3>2. wire'.kind = "stop"
      BY <1>2, <1>5
    <3> QED
      BY <3>1, <3>2, Ends, StillIsSound
  <2>4. CASE ~Still
    <3>1. line' = <<>> /\ Pending(cover, id) /\ cover.moving # "none" /\ cover.stop # NoStop
      BY <1>1, <2>2, <2>4, Advanced, Known DEF Phases, LineIsSound, Pending
    <3>2. LineIsSound' /\ NoTurns'
      BY <3>1 DEF LineIsSound, NoTurns
    <3>3. WireIsSound'
      BY <1>1, <1>2, <1>5, <2>1, <3>1, Ends DEF WireIsSound, Pending
    <3>4. MotorIsSound'
      BY <1>1, <2>1, <3>1 DEF Phases, MotorIsSound, NotStarting
    <3>5. ~asked /\ ~(cover.afterRestart /\ cover.recheck # Off)
      BY <2>4, <3>1 DEF Phases, RecheckIsSound
    <3>6. RecheckIsSound'
      BY <1>1, <3>5 DEF RecheckIsSound
    <3>7. RelayIsSound'
      <4> SUFFICES ASSUME Live' PROVE \E k \in Directions, a \in Nat : RepeatsStop(k, a)'
        BY DEF RelayIsSound
      <4>1. motor \in Directions /\ relay'.what = {motor}
        BY <2>1 DEF Live
      <4>2. motor = cover.moving
        BY <3>1, <4>1, Ends DEF Phases, MotorIsSound
      <4>3. relay'.left = EchoWindow - 0
        BY <2>1, MotionAssumption, SMT DEF MotionAssumption
      <4>4. PICK k \in Directions : k = motor
        BY <4>1
      <4>5. Stopping(cover, k, 0)'
        BY <1>1, <1>2, <1>5, <3>1, <3>5, <4>2, <4>4 DEF Stopping, Pending
      <4>6. RepeatsStop(k, 0)'
        BY <1>1, <2>1, <3>1, <3>5, <4>1, <4>3, <4>4, <4>5 DEF RepeatsStop
      <4> QED
        BY <4>6
    <3> QED
      BY <3>2, <3>3, <3>4, <3>6, <3>7 DEF Phases
  <2> QED
    BY <2>3, <2>4
<1>6. CASE kind \in Directions
  <2>1. Turns(1) /\ Fresh(1) /\ kind # "stop"
    BY <1>1, <1>6, Ends DEF Turns, Phases, LineIsSound
  <2>2. motor = "none" /\ starting = NotStarting /\ ~asked
    BY <2>1 DEF Fresh
  <2>3. /\ motor' = "none" /\ starting' = [dir |-> kind, age |-> 0]
        /\ relay' = [what |-> {"stop", kind}, left |-> MirrorWindow]
    <3>1. kind # motor
      BY <1>6, <2>2, Ends
    <3> QED
      BY <1>1, <2>1, <3>1, Zenon DEF Write
  <2>4. CASE AtEnd(cover, kind) \/ Sent(cover, kind, id)
    <3>1. cover.stop.frame # id
      BY <1>1, <2>4, Known DEF AtEnd, Sent
    <3>2. ~Still
      BY <1>1, <2>1 DEF Still, NoTurns
    <3>3. LineIsSound'
      <4> SUFFICES ASSUME NEW i \in DOMAIN line'
                   PROVE ~Turns(i)' /\ i = Len(line') /\ Pending(cover', line'[i].id)
        BY DEF LineIsSound
      <4>1. i + 1 \in DOMAIN line /\ ~Fresh(i + 1)
        BY <1>3 DEF Fresh
      <4>2. ~Turns(i + 1) /\ i + 1 = Len(line) /\ Pending(cover, line[i + 1].id)
        BY <3>2, <4>1 DEF Phases, LineIsSound
      <4> QED
        BY <1>1, <1>3, <4>2 DEF Turns
    <3>4. WireIsSound'
      BY <1>1, <1>2, <2>1, <3>1 DEF WireIsSound
    <3>5. MotorIsSound'
      <4>1. starting'.dir = kind /\ motor' = "none" /\ cover' = cover /\ kind # "none"
        BY <1>1, <1>6, <2>3, Ends
      <4> HIDE DEF kind
      <4> QED
        BY <2>4, <4>1, Zenon DEF MotorIsSound, AtEnd, Sent
    <3>6. RecheckIsSound'
      BY <1>1, <2>2, <2>4 DEF RecheckIsSound, AtEnd, Sent
    <3>7. RelayIsSound'
      <4>1. AtEnd(cover, kind) => AtEnd(cover', kind)
        BY <1>1
      <4>3. relay'.left = MirrorWindow - 0
        BY <2>3, MotionAssumption, SMT DEF MotionAssumption
      <4>4. PICK k \in Directions : k = kind
        BY <1>6
      <4>5. AtEnd(cover', k) \/ Heard(cover, k, 0)'
        <5>1. kind \in Directions /\ id = line[1].id
          BY <1>6
        <5>2. ASSUME Sent(cover, kind, id) PROVE Heard(cover, k, 0)'
          BY <1>1, <1>2, <4>4, <5>2, Known DEF Sent, Heard
        <5> QED
          BY <2>4, <4>1, <4>4, <5>2
      <4>6. /\ relay'.what \subseteq {"stop", k} /\ starting' = [dir |-> k, age |-> 0] /\ ~asked'
        BY <1>1, <2>2, <2>3, <4>4
      <4>7. RepeatsMove(k, 0)'
        BY <2>3, <4>3, <4>5, <4>6 DEF RepeatsMove
      <4> QED
        BY <4>7 DEF RelayIsSound
    <3> QED
      BY <3>3, <3>4, <3>5, <3>6, <3>7 DEF Phases
  <2> QED
    BY <2>1, <2>4 DEF Fresh
<1> QED
  BY <1>1, <1>5, <1>6 DEF Frames

\* A report takes the phase along, or comes after it.
LEMMA ReportKeepsPhases == ASSUME MotionInv, RangesInv, Tame, Phases, Report PROVE Phases'
<1>1. /\ wire # Idle /\ wire' = Idle /\ cover' = Delivered(cover, wire.id, wire.age)
      /\ UNCHANGED <<line, motor, starting, relay, asked>>
      /\ wire.id \in Nat \ {0} /\ wire.kind \in Frames /\ wire.age \in Nat
  BY Known DEF Report, actuatorVars, Tame, Numbered, RangesInv
<1>2. wire'.kind = "none"
  BY <1>1 DEF Idle
<1>3. (Still' <=> Still) /\ (Live' <=> Live) /\ (NoTurns' <=> NoTurns)
  BY <1>1 DEF Still, Live, NoTurns, Turns
<1>4. NoTurns
  BY <1>1 DEF Phases, LineIsSound, Fresh, NoTurns
<1>5. WireIsSound'
  BY <1>2, Ends DEF WireIsSound
<1>6. CASE wire.id = cover.awaited
  <2>1. cover.moving # "none" /\ wire.id # cover.stop.frame
    BY <1>1, <1>6, Known
  <2>2. LET n == cover'
        IN  /\ n.moving = cover.moving /\ n.ownCommand = cover.ownCommand
            /\ n.afterRestart = cover.afterRestart /\ n.recheck = cover.recheck
            /\ n.started = cover.started /\ n.awaited = 0 /\ n.written = wire.age
            /\ n.clock <= wire.age - StartDelay
            /\ n.ownAt = IF cover.ownCommand # "none" /\ cover.ownAt # Off THEN wire.age ELSE cover.ownAt
            /\ n.stop.frame = cover.stop.frame /\ n.stop.interrupted = cover.stop.interrupted
    BY <1>1, <1>6, Known, MoveDeliveredDoes DEF Delivered
  <2>3. LineIsSound'
    BY <1>1, <1>3, <1>4, <2>2 DEF Phases, LineIsSound, NoTurns, Turns, Pending
  <2>4. MotorIsSound' /\ RecheckIsSound'
    <3>1. MotorIsSound'
      BY <1>1, <2>1, <2>2 DEF Phases, MotorIsSound
    <3>2. RecheckIsSound'
      BY <1>1, <1>3, <2>1, <2>2 DEF Phases, RecheckIsSound
    <3> QED
      BY <3>1, <3>2
  <2>5. RelayIsSound'
    <3> SUFFICES ASSUME Live PROVE \E k \in Directions, a \in Nat : RepeatsMove(k, a)'
      BY <1>3 DEF RelayIsSound
    <3>1. PICK k \in Directions, a \in Nat : RepeatsMove(k, a) \/ RepeatsStop(k, a)
      BY DEF Phases, RelayIsSound
    <3>2. ~RepeatsStop(k, a)
      BY <1>1, <2>1 DEF RepeatsStop, Stopping, Stopped
    <3>3. Heard(cover, k, a)
      BY <2>1, <3>1, <3>2 DEF RepeatsMove, AtEnd
    <3>4. wire = [id |-> cover.awaited, kind |-> k, age |-> a]
      BY <1>1, <1>6, <3>3 DEF Heard
    <3>5. wire.age = a /\ k # "none" /\ a # Off
      BY <3>1, <3>4, Ends, SMT DEF Off
    <3>6. Heard(cover, k, a)'
      <4>1. cover.awaited # 0
        BY <1>1, <1>6
      <4>2. /\ cover.moving = k /\ ~cover.started /\ cover.ownCommand = k /\ ~cover.afterRestart
            /\ "stop" \in relay.what => cover.ownAt # Off
        BY <3>3 DEF Heard
      <4>3. "stop" \in relay'.what => cover'.ownAt # Off /\ cover'.ownAt = a
        BY <1>1, <2>2, <3>5, <4>2
      <4> QED
        BY <2>2, <3>5, <4>2, <4>3 DEF Heard
    <3>7. RepeatsMove(k, a)'
      BY <1>1, <3>1, <3>2, <3>6 DEF RepeatsMove
    <3> QED
      BY <3>7
  <2> QED
    BY <1>5, <2>3, <2>4, <2>5 DEF Phases
<1>7. CASE wire.id # cover.awaited /\ wire.id = cover.stop.frame
  <2>1. wire.kind = "stop" /\ starting = NotStarting
    BY <1>1, <1>7 DEF Phases, WireIsSound, Frames
  <2>2. /\ Over(cover') /\ ~cover'.afterRestart /\ cover'.ownAt = wire.age
        /\ cover'.ownCommand = "none" /\ cover'.stoppedDir = cover.stop.interrupted
    BY <1>1, <1>7, Known, StopDeliveredDoes DEF Delivered
  <2>3. LineIsSound'
    BY <1>1, <1>3, <1>4, <2>1 DEF Phases, LineIsSound, WireIsSound, NoTurns, Turns
  <2>4. MotorIsSound' /\ RecheckIsSound'
    BY <1>1, <1>3, <2>1, <2>2 DEF Phases, MotorIsSound, RecheckIsSound, Over
  <2>5. RelayIsSound'
    <3> SUFFICES ASSUME Live PROVE \E k \in Directions, a \in Nat : RepeatsStop(k, a)'
      BY <1>3 DEF RelayIsSound
    <3>1. PICK k \in Directions, a \in Nat : RepeatsMove(k, a) \/ RepeatsStop(k, a)
      BY DEF Phases, RelayIsSound
    <3>2. ~RepeatsMove(k, a)
      BY <2>1, Ends DEF RepeatsMove, NotStarting
    <3>3. Stopping(cover, k, a)
      BY <1>1, <3>1, <3>2 DEF RepeatsStop, Stopped
    <3>4. wire.age = a /\ cover.stop.interrupted = k
      BY <3>3 DEF Stopping
    <3>5. Stopped(cover, k, a)'
      BY <1>1, <2>2, <3>4 DEF Stopped, Over
    <3>6. RepeatsStop(k, a)'
      BY <1>1, <3>1, <3>2, <3>5 DEF RepeatsStop
    <3> QED
      BY <3>6
  <2> QED
    BY <1>5, <2>3, <2>4, <2>5 DEF Phases
<1>8. CASE wire.id # cover.awaited /\ wire.id # cover.stop.frame
  <2>1. cover' = cover
    BY <1>1, <1>8 DEF Delivered
  <2>2. LineIsSound'
    BY <1>1, <1>3, <1>4, <2>1 DEF Phases, LineIsSound, NoTurns, Turns, Pending
  <2>3. MotorIsSound' /\ RecheckIsSound'
    BY <1>1, <1>3, <2>1 DEF Phases, MotorIsSound, RecheckIsSound
  <2>4. RelayIsSound'
    <3> SUFFICES ASSUME Live PROVE \E k \in Directions, a \in Nat : RepeatsMove(k, a)'
      BY <1>3 DEF RelayIsSound
    <3>1. PICK k \in Directions, a \in Nat : RepeatsMove(k, a) \/ RepeatsStop(k, a)
      BY DEF Phases, RelayIsSound
    <3>2. ~RepeatsStop(k, a)
      BY <1>1, <1>8 DEF RepeatsStop, Stopping, Stopped
    <3>3. RepeatsMove(k, a) /\ (AtEnd(cover, k) \/ Heard(cover, k, a))
      BY <3>1, <3>2 DEF RepeatsMove
    <3>4. Heard(cover, k, a) => Heard(cover, k, a)'
      BY <1>1, <1>8, <2>1 DEF Heard
    <3>5. RepeatsMove(k, a)'
      BY <1>1, <2>1, <3>3, <3>4 DEF RepeatsMove
    <3> QED
      BY <3>5
  <2> QED
    BY <1>5, <2>2, <2>3, <2>4 DEF Phases
<1> QED
  BY <1>6, <1>7, <1>8

\* A frame that is dropped before it is written leaves everything still, unless it was
\* the stop of a run that goes on.
LEMMA DropKeepsPhases == ASSUME MotionInv, RangesInv, Tame, Timed, Phases, Drop, exact' PROVE Phases'
<1> DEFINE id == line[1].id
<1>1. /\ wire = Idle /\ wire' = Idle /\ line # <<>> /\ line' = Tail(line)
      /\ 1 \in DOMAIN line /\ Head(line) = line[1] /\ id \in Nat \ {0}
      /\ cover' = NotDelivered(cover, id) /\ UNCHANGED <<motor, starting, relay, asked>>
      /\ id = cover.stop.frame => Restartable
  BY Known, Advanced DEF Drop, actuatorVars
<1>2. \A i \in DOMAIN line' : i + 1 \in DOMAIN line /\ i + 1 # 1 /\ line'[i] = line[i + 1]
  BY <1>1, Advanced
<1>3. wire'.kind = "none" /\ (Live' <=> Live)
  BY <1>1 DEF Idle, Live
<1>4. NoTurns'
  BY <1>2 DEF Phases, LineIsSound, Fresh, NoTurns, Turns
<1>5. motor = "none" /\ starting = NotStarting => Still'
  BY <1>1, <1>4 DEF Still
<1>6. Still => ~Live
  <2> SUFFICES ASSUME Still, Live PROVE FALSE
    OBVIOUS
  <2>1. PICK k \in Directions, a \in Nat : RepeatsMove(k, a) \/ RepeatsStop(k, a)
    BY DEF Phases, RelayIsSound
  <2>2. ~RepeatsMove(k, a)
    BY Ends DEF Still, RepeatsMove, NotStarting
  <2> QED
    BY <1>1, <2>1, <2>2 DEF RepeatsStop
<1>7. CASE Turns(1) \/ Still
  <2>1. Turns(1) => Fresh(1)
    BY <1>1 DEF Phases, LineIsSound
  <2>2. motor = "none" /\ starting = NotStarting /\ ~Live
    BY <1>6, <1>7, <2>1 DEF Fresh, Still, Live
  <2> QED
    BY <1>3, <1>5, <2>2, StillIsSound, Ends
<1>8. CASE ~Turns(1) /\ ~Still
  <2>1. 1 = Len(line) /\ Pending(cover, id) /\ line' = <<>>
    BY <1>1, <1>8, Advanced DEF Phases, LineIsSound
  <2>2. cover.moving # "none" /\ id = cover.stop.frame /\ id # cover.awaited /\ cover.clock >= 0
    BY <1>1, <2>1, Known DEF Pending, Restartable
  <2>3. /\ cover'.ownAt = cover.ownAt /\ cover'.ownCommand = cover.ownCommand
        /\ cover'.moving \in {cover.moving, "none"} /\ cover'.recheck = Off
    BY <1>1, <2>2, Known, StopDroppedDoes DEF NotDelivered, Begun, Over
  <2>4. LineIsSound' /\ WireIsSound'
    BY <1>3, <2>1, Ends DEF LineIsSound, WireIsSound
  <2>5. MotorIsSound'
    BY <1>1, <2>2, <2>3 DEF Phases, MotorIsSound, Tame, Tidy
  <2>6. RecheckIsSound'
    BY <1>1, <1>3, <1>4, <1>8, <2>2, <2>3 DEF Phases, RecheckIsSound
  <2>7. ~Live
    <3> SUFFICES ASSUME Live PROVE FALSE
      OBVIOUS
    <3>1. PICK k \in Directions, a \in Nat : RepeatsMove(k, a) \/ RepeatsStop(k, a)
      BY DEF Phases, RelayIsSound
    <3>2. RepeatsMove(k, a) /\ Heard(cover, k, a)
      BY <1>1, <2>2, <3>1 DEF RepeatsStop, RepeatsMove, AtEnd
    <3>3. ~(wire = [id |-> cover.awaited, kind |-> k, age |-> a])
      BY <1>1, <3>1, Ends DEF Idle
    <3>4. cover.clock <= a - StartDelay /\ MirrorWindow - a > 0
      BY <3>2, <3>3 DEF Heard, RepeatsMove, Live
    <3> QED
      BY <2>2, <3>1, <3>4, MotionAssumption, SMT DEF MotionAssumption, Timed, RangesInv, Ranged
  <2>8. RelayIsSound'
    BY <1>3, <2>7 DEF RelayIsSound
  <2> QED
    BY <2>4, <2>5, <2>6, <2>8 DEF Phases
<1> QED
  BY <1>7, <1>8

\* What the copy of a frame does to the record, and that the phase goes on.
LEMMA RelayIsHarmless == ASSUME MotionInv, RangesInv, Tame, Timed, Phases, Relay
  PROVE /\ cover'.moving = cover.moving /\ cover'.from = cover.from
        /\ cover'.clock = cover.clock /\ cover'.pos = cover.pos
        /\ \/ cover' = cover \/ cover' = Ignore(cover)
           \/ \E k \in Directions : AtEnd(cover, k) /\ AtEnd(cover', k)
        /\ Phases'
<1>1. PICK frame \in relay.what : /\ relay.left > 0 /\ relay' = [relay EXCEPT !.what = @ \ {frame}]
                                  /\ cover' = Handle(cover, frame)
                                  /\ UNCHANGED <<pathVars, actuatorVars, asked>>
  BY DEF Relay
<1>2. UNCHANGED <<line, wire, motor, starting, asked>> /\ frame \in Frames /\ Shaped(cover)
  BY <1>1, Known DEF pathVars, actuatorVars
<1>3. relay'.what = relay.what \ {frame} /\ relay'.left = relay.left
  BY <1>1, SMT DEF MotionInv, ActuatorInv
<1>4. (Still' <=> Still) /\ (NoTurns' <=> NoTurns)
  BY <1>2 DEF Still, NoTurns, Turns
<1>5. Live
  BY <1>1 DEF Live
<1>6. PICK k \in Directions, a \in Nat : RepeatsMove(k, a) \/ RepeatsStop(k, a)
  BY <1>5 DEF Phases, RelayIsSound
<1>7. k # "none" /\ k # "stop" /\ "stop" # "none"
  BY Ends
<1>8. a < MirrorWindow \/ RepeatsStop(k, a)
  BY <1>1, <1>6, MotionAssumption, SMT DEF MotionAssumption, RepeatsMove
<1>9. CASE RepeatsMove(k, a)
  <2>1. /\ motor = "none" /\ starting # NotStarting /\ starting.dir = k /\ ~asked
        /\ frame = "stop" \/ frame = k
    BY <1>1, <1>7, <1>9 DEF RepeatsMove, NotStarting
  <2>2. \A i \in DOMAIN line : ~Turns(i) /\ i = Len(line) /\ Pending(cover, line[i].id)
    BY <2>1 DEF Phases, LineIsSound, Fresh, Still
  <2>3. wire.kind # "stop"
    BY <2>1 DEF Phases, WireIsSound
  <2>4. a < MirrorWindow /\ a < EchoWindow
    BY <1>1, <1>6, <1>9, MotionAssumption, SMT DEF MotionAssumption, RepeatsMove, Timed
  <2>5. CASE AtEnd(cover, k)
    <3>1. /\ cover.moving = "none" /\ cover.from = 0 /\ cover.clock = 0 /\ cover.awaited = 0
          /\ cover.pos = EndStopOf(k)
      BY <2>5, Known DEF AtEnd, Tame, Tidy
    <3>2. /\ AtEnd(cover', k) /\ cover'.from = 0 /\ cover'.clock = 0
      <4>1. CASE frame = k
        <5>1. ~IsEcho(cover, frame)
          BY <1>7, <2>5, <4>1 DEF IsEcho, AtEnd
        <5>2. cover' = Start(cover, k, NoTarget, 0)
          BY <1>1, <1>2, <1>7, <3>1, <4>1, <5>1, HandleDoes
        <5>3. /\ Marked(cover', k, 0) /\ Over(cover')
          BY <1>2, <3>1, <5>2, NoTargetIsInt, StartDoes
        <5>4. cover'.pos = EndStopOf(k)
          BY <1>2, <1>7, <5>2, <5>3, NoTargetIsInt, StartDoes, Ends DEF Begun, Over
        <5> QED
          BY <5>3, <5>4, Zenon DEF AtEnd, Marked, Over
      <4>2. CASE frame = "stop" /\ IsEcho(cover, frame)
        <5>1. SameButWindow(cover, cover') /\ cover'.ownAt = Off /\ cover'.recheck = Off
          <6>1. cover.ownCommand # "none" /\ ~cover.afterRestart /\ cover.recheck = Off
            BY <2>5, <4>2 DEF IsEcho, AtEnd
          <6> QED
            BY <1>1, <1>2, <1>7, <3>1, <4>2, <6>1, HandleDoes, IgnoreDoes
        <5> QED
          BY <2>5, <3>1, <5>1, Zenon DEF AtEnd, SameButWindow
      <4>3. CASE frame = "stop" /\ ~IsEcho(cover, frame)
        <5>1. PICK p \in Int : cover' = Finish(cover, p) /\ p = cover.pos
          BY <1>1, <1>2, <3>1, <4>3, HandleDoes
        <5>2. /\ Over(cover') /\ ~cover'.afterRestart /\ cover'.pos = cover.pos
              /\ cover'.ownAt = cover.ownAt /\ cover'.ownCommand = cover.ownCommand
          BY <1>2, <5>1, FinishDoes
        <5> QED
          BY <2>5, <5>2, Zenon DEF AtEnd, Over
      <4> QED
        BY <2>1, <4>1, <4>2, <4>3
    <3>3. cover'.moving = "none" /\ cover'.stop.frame = 0 /\ ~cover'.afterRestart
      BY <3>2, NoStopShape DEF AtEnd
    <3>4. \A i \in DOMAIN line : FALSE
      BY <2>2, <3>1 DEF Pending
    <3>5. LineIsSound' /\ WireIsSound'
      BY <1>2, <2>3, <3>3, <3>4, Known, Ends DEF LineIsSound, WireIsSound, Idle
    <3>6. MotorIsSound' /\ RecheckIsSound'
      BY <1>2, <2>1, <3>2, <3>3 DEF MotorIsSound, RecheckIsSound, AtEnd
    <3>7. RepeatsMove(k, a)'
      BY <1>2, <1>3, <1>9, <3>2 DEF RepeatsMove
    <3>8. RelayIsSound'
      BY <3>7 DEF RelayIsSound
    <3> QED
      BY <2>5, <3>1, <3>2, <3>3, <3>5, <3>6, <3>8 DEF Phases, AtEnd
  <2>6. CASE Heard(cover, k, a)
    <3>1. SameButWindow(cover, cover') /\ (cover' = cover \/ cover' = Ignore(cover))
      <4>1. CASE frame = k
        <5>1. ~MotorAnswers(cover)
          BY <2>4, <2>6, MotionAssumption, SMT DEF MotionAssumption, MotorAnswers, Heard
        <5>2. cover' = cover
          BY <1>1, <1>2, <2>6, <4>1, <5>1, HandleDoes, MotorStartDoes DEF Heard
        <5> QED
          BY <5>2 DEF SameButWindow
      <4>2. CASE frame = "stop"
        <5>1. cover.moving = k /\ cover.ownCommand = k /\ cover.ownAt # Off
              /\ (cover.awaited = 0 => cover.ownAt = a)
          BY <1>1, <2>6, <4>2 DEF Heard
        <5>2. IsEcho(cover, frame)
          BY <1>7, <2>4, <4>2, <5>1 DEF IsEcho
        <5> QED
          BY <1>1, <1>2, <1>7, <4>2, <5>1, <5>2, HandleDoes, IgnoreDoes
      <4> QED
        BY <2>1, <4>1, <4>2
    <3>2. "stop" \in relay'.what => cover'.ownAt = cover.ownAt
      <4> SUFFICES ASSUME "stop" \in relay'.what PROVE cover'.ownAt = cover.ownAt
        OBVIOUS
      <4>1. frame = k /\ cover.moving = k
        BY <1>3, <2>1, <2>6 DEF Heard
      <4> QED
        BY <1>1, <1>2, <4>1, HandleDoes, MotorStartDoes
    <3>3. cover.moving = k /\ ~cover.afterRestart
      BY <2>6 DEF Heard
    <3>4. /\ cover'.moving = cover.moving /\ cover'.afterRestart = cover.afterRestart
          /\ cover'.stop = cover.stop
      BY <3>1 DEF SameButWindow
    <3>5. LineIsSound' /\ WireIsSound'
      BY <1>2, <2>2, <2>3, <3>4 DEF Phases, LineIsSound, WireIsSound, Pending, Turns
    <3>6. MotorIsSound' /\ RecheckIsSound'
      BY <1>2, <1>7, <2>1, <3>3, <3>4 DEF MotorIsSound, RecheckIsSound
    <3>7. Heard(cover, k, a)'
      BY <1>2, <1>3, <2>6, <3>1, <3>2 DEF Heard, SameButWindow
    <3>8. RepeatsMove(k, a)'
      BY <1>2, <1>3, <1>9, <3>7 DEF RepeatsMove
    <3>9. RelayIsSound'
      BY <3>8 DEF RelayIsSound
    <3> QED
      BY <3>1, <3>5, <3>6, <3>9 DEF Phases, SameButWindow
  <2> QED
    BY <1>9, <2>5, <2>6 DEF RepeatsMove
<1>10. CASE RepeatsStop(k, a)
  <2>1. /\ frame = k /\ starting = NotStarting /\ line = <<>> /\ ~asked /\ ~Live'
    BY <1>3, <1>10 DEF RepeatsStop, Live
  <2>2. a < EchoWindow
    BY <1>1, <1>10, MotionAssumption, SMT DEF MotionAssumption, RepeatsStop
  <2>3. LineIsSound' /\ RelayIsSound'
    BY <1>2, <2>1 DEF LineIsSound, RelayIsSound
  <2>4. CASE Stopping(cover, k, a)
    <3>1. ~MotorAnswers(cover) /\ cover.moving = k
      BY <2>4 DEF MotorAnswers, Stopping
    <3>2. cover' = cover
      BY <1>1, <1>2, <2>1, <3>1, HandleDoes, MotorStartDoes
    <3>3. WireIsSound' /\ MotorIsSound' /\ RecheckIsSound'
      BY <1>2, <1>4, <2>1, <3>2 DEF Phases, WireIsSound, MotorIsSound, RecheckIsSound
    <3> QED
      BY <2>3, <3>2, <3>3 DEF Phases
  <2>5. CASE Stopped(cover, k, a)
    <3>1. cover.moving = "none" /\ ~cover.afterRestart /\ wire = Idle
      BY <2>5 DEF Stopped
    <3>2. a # Off
      BY <1>6, SMT DEF Off
    <3>3. IsEcho(cover, k)
      BY <2>2, <2>5, <3>2 DEF IsEcho, Stopped
    <3>4. SameButWindow(cover, cover') /\ cover' = Ignore(cover)
      BY <1>1, <1>2, <1>7, <2>1, <3>1, <3>3, HandleDoes, IgnoreDoes
    <3>5. cover'.moving = "none" /\ ~cover'.afterRestart
      BY <3>1, <3>4 DEF SameButWindow
    <3>6. WireIsSound' /\ MotorIsSound' /\ RecheckIsSound'
      BY <1>2, <2>1, <3>1, <3>5, Ends DEF WireIsSound, MotorIsSound, RecheckIsSound, Idle
    <3> QED
      BY <2>3, <3>4, <3>6 DEF Phases, SameButWindow
  <2> QED
    BY <1>10, <2>4, <2>5 DEF RepeatsStop
<1> QED
  BY <1>6, <1>9, <1>10

\* The motor starts after the last copy of its frame, and in the direction shown.
LEMMA StartKeepsPhases == ASSUME MotionInv, RangesInv, Tame, Timed, Phases, MotorStarts PROVE Phases'
<1> DEFINE d == starting.dir
<1>1. /\ starting # NotStarting /\ starting.age >= MinStart /\ motor' = d /\ starting' = NotStarting
      /\ cover' = Handle(cover, d) \/ cover' = cover
      /\ UNCHANGED <<line, wire, relay, asked>>
  BY DEF MotorStarts, Sees, pathVars
<1>2. d \in Directions /\ d \in Frames /\ d # "none" /\ d # "stop" /\ Shaped(cover) /\ motor = "none"
  BY <1>1, Known, Ends DEF Tame, OneMotor
<1>3. \A i \in DOMAIN line : ~Turns(i) /\ i = Len(line) /\ Pending(cover, line[i].id)
  BY <1>1 DEF Phases, LineIsSound, Fresh, Still
<1>4. wire.kind # "stop" /\ ~asked /\ ~(cover.afterRestart /\ cover.recheck # Off)
  BY <1>1 DEF Phases, WireIsSound, RecheckIsSound, Still
<1>5. ~Live
  <2> SUFFICES ASSUME Live PROVE FALSE
    OBVIOUS
  <2>1. PICK k \in Directions, a \in Nat : RepeatsMove(k, a) \/ RepeatsStop(k, a)
    BY DEF Phases, RelayIsSound
  <2>2. RepeatsMove(k, a)
    BY <1>1, <2>1 DEF RepeatsStop
  <2>3. starting.age = a /\ relay.left = MirrorWindow - a /\ relay.left > 0
    BY <2>2 DEF RepeatsMove, Live
  <2> QED
    BY <1>1, <2>1, <2>3, MotionAssumption, SMT DEF MotionAssumption, Timed
<1> HIDE DEF d
<1>6. /\ cover'.moving \in {"none", d} /\ (cover.moving # "none" => cover'.moving = cover.moving)
      /\ cover'.stop = cover.stop \/ cover'.stop = NoStop
      /\ cover.moving # "none" => cover'.stop = cover.stop
      /\ ~(cover'.afterRestart /\ cover'.recheck # Off)
  <2>1. CASE cover.moving # "none"
    <3>1. cover.moving = d
      BY <1>1, <1>2, <2>1 DEF d, Phases, MotorIsSound
    <3>2. \/ cover' = cover
          \/ /\ cover'.moving = cover.moving /\ cover'.stop = cover.stop
             /\ cover'.afterRestart = cover.afterRestart /\ cover'.recheck = cover.recheck
      BY <1>1, <1>2, <3>1, HandleDoes, MotorStartDoes
    <3> QED
      BY <1>4, <3>1, <3>2
  <2>2. CASE cover.moving = "none" /\ cover' = cover
    BY <1>4, <2>2
  <2>3. CASE cover.moving = "none" /\ cover' = Handle(cover, d)
    <3>1. cover.ownCommand # "none" \/ cover.ownAt = Off
      BY <1>1, <2>3 DEF Phases, MotorIsSound
    <3>2. ~IsEcho(cover, d)
      BY <1>2, <3>1 DEF IsEcho
    <3>3. cover' = Start(cover, d, NoTarget, 0)
      BY <1>2, <2>3, <3>2, HandleDoes
    <3>4. Marked(cover', d, 0) /\ (Begun(cover', d, NoTarget, 0) \/ Over(cover'))
      BY <1>2, <3>3, NoTargetIsInt, StartDoes
    <3> QED
      BY <2>3, <3>4 DEF Marked, Begun, Over
  <2> QED
    BY <1>1, <2>1, <2>2, <2>3
<1>7. LineIsSound'
  <2> SUFFICES ASSUME NEW i \in DOMAIN line'
               PROVE  ~Turns(i)' /\ i = Len(line') /\ Pending(cover', line'[i].id)
    BY DEF LineIsSound
  <2>1. ~Turns(i) /\ i = Len(line) /\ Pending(cover, line[i].id)
    BY <1>1, <1>3
  <2>2. cover.moving # "none"
    BY <2>1 DEF Pending
  <2>3. Pending(cover', line[i].id)
    BY <1>6, <2>1, <2>2 DEF Pending
  <2> QED
    BY <1>1, <2>1, <2>3 DEF Turns
<1>8. WireIsSound'
  BY <1>1, <1>4, <1>6, Known, Ends, NoStopShape DEF Phases, WireIsSound, Idle
<1>9. MotorIsSound'
  BY <1>1, <1>2, <1>6 DEF MotorIsSound, NotStarting, d
<1>10. RecheckIsSound' /\ RelayIsSound'
  BY <1>1, <1>4, <1>5, <1>6 DEF RecheckIsSound, RelayIsSound, Live
<1> QED
  BY <1>7, <1>8, <1>9, <1>10 DEF Phases

\* The motor halts: obeying our stop, or at the end of its way.
LEMMA HaltKeepsPhases ==
  ASSUME MotionInv, RangesInv, Tame, Timed, Phases, MotorStops \/ HitsEndStop, exact' PROVE Phases'
<1>1. /\ UNCHANGED <<line, wire, relay, asked>> /\ motor' = "none"
      /\ cover' = Handle(cover, "stop") \/ cover' = cover
      /\ ~StopOutrun
  BY DEF MotorStops, HitsEndStop, Sees, pathVars
<1>2. motor # "none" /\ starting = NotStarting /\ starting' = NotStarting
  <2>1. CASE MotorStops
    <3>1. stopping # Off
      BY <2>1, SMT DEF MotorStops, Off
    <3> QED
      BY <2>1, <3>1 DEF MotorStops, Tame, OneMotor
  <2>2. CASE HitsEndStop
    BY <2>2, Ends DEF HitsEndStop, AtEndStop, Tame, OneMotor
  <2> QED
    BY <2>1, <2>2
<1>3. NoTurns' /\ Still'
  BY <1>1, <1>2 DEF Phases, LineIsSound, Fresh, NoTurns, Turns, Still
<1>4. Shaped(cover) /\ cover.moving # "stop" /\ "stop" \in Frames
  BY Known, Ends DEF Shaped
<1>5. \/ cover' = cover
      \/ /\ SameButWindow(cover, cover') /\ IsEcho(cover, "stop")
         /\ cover.afterRestart => cover'.recheck = RecheckDelay
      \/ /\ Over(cover') /\ ~cover'.afterRestart /\ cover.stop = NoStop
         /\ cover'.ownAt = cover.ownAt /\ cover'.ownCommand = cover.ownCommand
         /\ cover'.stoppedDir = cover.stoppedDir
  <2>1. CASE cover' = Handle(cover, "stop") /\ IsEcho(cover, "stop")
    BY <1>4, <2>1, HandleDoes, IgnoreDoes
  <2>2. CASE cover' = Handle(cover, "stop") /\ ~IsEcho(cover, "stop")
    <3>1. \E p \in Int : cover' = Finish(cover, p)
      BY <1>4, <2>2, HandleDoes
    <3>2. /\ Over(cover') /\ ~cover'.afterRestart
          /\ cover'.ownAt = cover.ownAt /\ cover'.ownCommand = cover.ownCommand
          /\ cover'.stoppedDir = cover.stoppedDir
      BY <1>4, <3>1, FinishDoes
    <3>3. cover.stop = NoStop
      BY <1>1, <3>2 DEF StopOutrun, Over
    <3> QED
      BY <3>2, <3>3
  <2> QED
    BY <1>1, <2>1, <2>2
<1>6. LineIsSound'
  BY <1>3 DEF LineIsSound, NoTurns
<1>7. WireIsSound'
  <2>1. cover'.stop = cover.stop \/ cover'.stop.frame = 0
    BY <1>5, NoStopShape DEF SameButWindow, Over
  <2> QED
    BY <1>1, <1>2, <1>3, <2>1, Known, Ends DEF Phases, WireIsSound, Idle
<1>8. MotorIsSound'
  BY <1>1, <1>2 DEF MotorIsSound, NotStarting
<1>9. RecheckIsSound'
  BY <1>1, <1>2, <1>3 DEF Phases, RecheckIsSound, Live
<1>10. RelayIsSound'
  <2> SUFFICES ASSUME Live PROVE \E k \in Directions, a \in Nat : RepeatsStop(k, a)'
    BY <1>1 DEF RelayIsSound, Live
  <2>1. PICK k \in Directions, a \in Nat : RepeatsMove(k, a) \/ RepeatsStop(k, a)
    BY DEF Phases, RelayIsSound
  <2>2. RepeatsStop(k, a)
    BY <1>2, <2>1 DEF RepeatsMove
  <2>3. CASE Stopping(cover, k, a)
    <3>1. Stopping(cover, k, a)'
      <4>1. CASE cover' = cover
        BY <1>1, <2>3, <4>1 DEF Stopping
      <4>2. CASE SameButWindow(cover, cover') /\ (cover.afterRestart => cover'.recheck = RecheckDelay)
        <5>1. cover'.afterRestart /\ cover'.recheck # Off => cover'.recheck + a >= EchoWindow
          BY <2>1, <4>2, MotionAssumption, SMT DEF MotionAssumption, Timed, SameButWindow
        <5> QED
          BY <1>1, <2>3, <4>2, <5>1 DEF Stopping, SameButWindow
      <4> QED
        BY <1>5, <2>3, <4>1, <4>2 DEF Stopping
    <3> QED
      BY <1>1, <1>2, <2>2, <3>1 DEF RepeatsStop
  <2>4. CASE Stopped(cover, k, a)
    <3>1. ~IsEcho(cover, "stop")
      BY <2>4, Ends DEF IsEcho, Stopped
    <3>2. Stopped(cover, k, a)'
      BY <1>1, <1>5, <2>4, <3>1 DEF Stopped, Over
    <3> QED
      BY <1>1, <1>2, <2>2, <3>2 DEF RepeatsStop
  <2> QED
    BY <2>2, <2>3, <2>4 DEF RepeatsStop
<1> QED
  BY <1>6, <1>7, <1>8, <1>9, <1>10 DEF Phases

\* The actuator answers when nothing is repeated and no movement is on its way.
LEMMA AnswerKeepsPhases == ASSUME MotionInv, RangesInv, Tame, Phases, StatusAnswer PROVE Phases'
<1>1. /\ asked /\ ~asked' /\ UNCHANGED <<line, wire, motor, starting, relay>>
      /\ cover' = Handle(cover, Status) \/ cover' = cover
  BY DEF StatusAnswer, Sees, pathVars, actuatorVars
<1>2. /\ ~Live /\ starting = NotStarting /\ NoTurns /\ (cover.moving # "none" => Still)
      /\ Shaped(cover) /\ motor \in Directions \cup {"none"}
  BY <1>1, Known DEF Phases, RecheckIsSound
<1>3. ~Live' /\ NoTurns'
  BY <1>1, <1>2 DEF Live, NoTurns, Turns
<1>4. Status \in Frames /\ (motor # "none" => Status = motor)
  BY <1>2 DEF Status, Frames
<1>6. CASE motor = "none"
  <2>1. Still'
    BY <1>1, <1>2, <1>3, <1>6 DEF Still
  <2>2. cover'.stop = cover.stop \/ cover'.stop = NoStop
    <3>1. \A p \in Int : Finish(cover, p).stop = NoStop
      BY <1>2, FinishDoes DEF Over
    <3>2. Ignore(cover).stop = cover.stop
      BY <1>2, IgnoreDoes DEF SameButWindow
    <3>3. Status = "stop" /\ cover.moving # "stop" /\ "stop" \in Frames
      BY <1>2, <1>6, Ends DEF Status, Shaped
    <3> QED
      BY <1>1, <1>2, <3>1, <3>2, <3>3, HandleDoes
  <2>3. wire'.kind \in Directions => cover'.stop.frame # wire'.id
    BY <1>1, <2>2, Known, Ends, NoStopShape DEF Phases, WireIsSound, Idle
  <2> QED
    BY <1>3, <2>1, <2>3, StillIsSound
<1>7. CASE motor # "none"
  <2>1. cover.moving = "none" /\ Status = motor /\ motor \in Directions /\ ~Still
    BY <1>2, <1>4, <1>7 DEF Still
  <2>2. \A i \in DOMAIN line : FALSE
    BY <1>2, <2>1 DEF Phases, LineIsSound, NoTurns, Pending
  <2>3. wire.kind # "stop"
    BY <2>1 DEF Phases, WireIsSound, Pending
  <2>4. /\ cover'.moving \in {"none", motor} /\ (cover'.stop = cover.stop \/ cover'.stop = NoStop)
        /\ ~(cover'.afterRestart /\ cover'.recheck # Off)
    <3>1. ~(cover.afterRestart /\ cover.recheck # Off)
      BY <2>1 DEF Phases, RecheckIsSound
    <3>2. CASE cover' = cover
      BY <2>1, <3>1, <3>2
    <3>3. CASE cover' = Handle(cover, motor) /\ IsEcho(cover, motor)
      <4>1. SameButWindow(cover, cover')
        BY <1>2, <1>4, <2>1, <3>3, Ends, HandleDoes, IgnoreDoes
      <4>2. ~cover.afterRestart
        BY <2>1, <3>3, Ends DEF IsEcho, Tame, Tidy
      <4> QED
        BY <2>1, <4>1, <4>2 DEF SameButWindow
    <3>4. CASE cover' = Handle(cover, motor) /\ ~IsEcho(cover, motor)
      <4>1. cover' = Start(cover, motor, NoTarget, 0)
        BY <1>2, <1>4, <2>1, <3>4, Ends, HandleDoes
      <4>2. Marked(cover', motor, 0) /\ (Begun(cover', motor, NoTarget, 0) \/ Over(cover'))
        BY <1>2, <2>1, <4>1, NoTargetIsInt, StartDoes
      <4> QED
        BY <4>2 DEF Marked, Begun, Over
    <3> QED
      BY <1>1, <2>1, <3>2, <3>3, <3>4
  <2>5. LineIsSound' /\ WireIsSound'
    BY <1>1, <2>2, <2>3, <2>4, Known, Ends, NoStopShape DEF Phases, LineIsSound, WireIsSound, Idle
  <2>6. MotorIsSound' /\ RecheckIsSound' /\ RelayIsSound'
    BY <1>1, <1>2, <1>3, <2>4 DEF MotorIsSound, RecheckIsSound, RelayIsSound, NotStarting
  <2> QED
    BY <2>5, <2>6 DEF Phases
<1> QED
  BY <1>6, <1>7

\* What a tick does to the record.
LEMMA TickDoes == ASSUME MotionInv, RangesInv, Tick
  PROVE LET n == cover'
        IN  /\ n.moving = cover.moving /\ n.pos = cover.pos /\ n.ownCommand = cover.ownCommand
            /\ n.stoppedDir = cover.stoppedDir /\ n.afterRestart = cover.afterRestart
            /\ n.awaited = cover.awaited /\ n.started = cover.started
            /\ n.recheck = Down(cover.recheck)
            /\ n.written = Older(cover.written) /\ n.ownAt = Older(cover.ownAt)
            /\ cover.moving # "none" => n.clock = Least(cover.clock + 1, Horizon)
            /\ n.stop.frame = cover.stop.frame /\ n.stop.interrupted = cover.stop.interrupted
            /\ n.stop = NoStop <=> cover.stop = NoStop
<1>1. Shaped(cover)
  BY Known
<1> DEFINE clock == IF cover.moving = "none" THEN 0 ELSE Least(cover.clock + 1, Horizon)
           stop == Waited(cover.stop)
           e == [cover EXCEPT !.clock = clock, !.timer = Down(@), !.recheck = Down(@),
                              !.written = Older(@), !.ownAt = Older(@), !.stop = stop]
<1>2. cover' = e
  BY DEF Tick
<1>3. /\ stop.frame = cover.stop.frame /\ stop.interrupted = cover.stop.interrupted
      /\ cover.stop = NoStop => stop = NoStop
      /\ cover.stop # NoStop => stop # NoStop
  <2> DEFINE s == cover.stop
             age == Least(s.age + 1, Horizon)
             r == [s EXCEPT !.age = age]
  <2>1. DOMAIN s = StopFields
    BY <1>1 DEF Shaped
  <2>2. stop = IF s = NoStop THEN s ELSE r
    <3> HIDE DEF s
    <3>1. r = [s EXCEPT !.age = Least(@ + 1, Horizon)]
      BY <2>1, SMT DEF StopFields
    <3> QED
      BY <3>1 DEF Waited, s
  <2>3. s # NoStop => s.frame # 0
    BY Known
  <2> HIDE DEF s, age, stop
  <2>4. r.frame = s.frame /\ r.interrupted = s.interrupted
    BY <2>1, SMT DEF StopFields
  <2> HIDE DEF r
  <2> QED
    BY <2>2, <2>3, <2>4, NoStopShape DEF s
<1> HIDE DEF clock, stop
<1>4. /\ e.moving = cover.moving /\ e.pos = cover.pos /\ e.ownCommand = cover.ownCommand
      /\ e.stoppedDir = cover.stoppedDir /\ e.afterRestart = cover.afterRestart
      /\ e.awaited = cover.awaited /\ e.started = cover.started
      /\ e.recheck = Down(cover.recheck) /\ e.written = Older(cover.written)
      /\ e.ownAt = Older(cover.ownAt) /\ e.clock = clock /\ e.stop = stop
  BY <1>1, SMT DEF Shaped, Fields
<1> QED
  BY <1>2, <1>3, <1>4 DEF clock

\* An instant stays an instant, and an age below the memory grows by one.
LEMMA Aging ==
  /\ Older(Off) = Off /\ Down(Off) = Off
  /\ \A t \in Timers : t # Off => Older(t) # Off
  /\ \A t \in Nat : t + 1 < MirrorWindow \/ t + 1 < EchoWindow => Older(t) = t + 1
  /\ \A t \in Timers : t # Off => Down(t) = t - 1
<1>1. MirrorWindow < Memory /\ EchoWindow < Memory /\ Memory \in Nat
  BY MotionAssumption, SMT DEF MotionAssumption, Memory, Greatest
<1> QED
  BY <1>1, MotionAssumption, SMT DEF MotionAssumption, Older, Down, Off, Least, Timers

\* Time moves a phase on, until its window closes.
LEMMA TickKeepsPhases == ASSUME MotionInv, RangesInv, Tame, Phases, Tick PROVE Phases'
<1>1. /\ UNCHANGED <<line, motor, asked>>
      /\ starting' = IF starting = NotStarting THEN starting ELSE [starting EXCEPT !.age = @ + 1]
      /\ wire' = IF wire = Idle THEN Idle ELSE [wire EXCEPT !.age = @ + 1]
      /\ relay' = IF relay.left <= 1 THEN Silent ELSE [relay EXCEPT !.left = @ - 1]
  BY DEF Tick
<1>2. /\ wire'.id = wire.id /\ wire'.kind = wire.kind /\ (wire = Idle => wire' = Idle)
      /\ \A id, kind, a : wire = [id |-> id, kind |-> kind, age |-> a] /\ wire # Idle
                            => wire' = [id |-> id, kind |-> kind, age |-> a + 1]
  <2>1. CASE wire = Idle
    BY <1>1, <2>1
  <2>2. CASE wire # Idle
    <3>1. wire' = [wire EXCEPT !.age = wire.age + 1]
      BY <1>1, <2>2
    <3> QED
      BY <2>2, <3>1, SMT DEF MotionInv, PathInv
  <2> QED
    BY <2>1, <2>2
<1>3. /\ starting'.dir = starting.dir /\ (starting' = NotStarting <=> starting = NotStarting)
      /\ \A k \in Directions, a \in Nat : starting = [dir |-> k, age |-> a] => starting' = [dir |-> k, age |-> a + 1]
  <2>1. CASE starting = NotStarting
    BY <1>1, <2>1, Ends DEF NotStarting
  <2>2. CASE starting # NotStarting
    <3>1. starting' = [starting EXCEPT !.age = starting.age + 1] /\ starting.dir # "none"
      BY <1>1, <2>2, Known, Ends
    <3> QED
      BY <2>2, <3>1, SMT DEF MotionInv, ActuatorInv, NotStarting
  <2> QED
    BY <2>1, <2>2
<1>4. /\ relay.what = {} => relay'.what = {}
      /\ Live' => Live /\ relay'.what = relay.what /\ relay'.left = relay.left - 1 /\ relay.left > 1
  <2>1. relay.left \in Nat
    BY DEF RangesInv
  <2>2. CASE relay.left <= 1
    BY <1>1, <2>2 DEF Live, Silent
  <2>3. CASE ~(relay.left <= 1)
    <3>1. relay' = [relay EXCEPT !.left = relay.left - 1]
      BY <1>1, <2>3
    <3> QED
      BY <2>1, <2>3, <3>1, SMT DEF MotionInv, ActuatorInv, Live
  <2> QED
    BY <2>2, <2>3
<1>5. (Still' <=> Still) /\ (NoTurns' <=> NoTurns)
  BY <1>1, <1>3 DEF Still, NoTurns, Turns
<1>6. /\ cover.ownAt \in Timers /\ cover.written \in Timers /\ cover.recheck \in Timers
      /\ cover.clock \in Int
  BY SMT DEF RangesInv, Ranged
<1>7. /\ cover.ownAt = Off => cover'.ownAt = Off
      /\ cover.ownAt # Off => cover'.ownAt # Off
      /\ cover.written = Off => cover'.written = Off
      /\ cover.recheck = Off => cover'.recheck = Off
  BY <1>6, TickDoes, Aging
<1>8. \A k : AtEnd(cover, k) => AtEnd(cover', k)
  BY <1>7, TickDoes DEF AtEnd
<1>9. LineIsSound'
  <2>1. ASSUME NEW i \in DOMAIN line, Fresh(i) PROVE Fresh(i)'
    <3>1. AtEnd(cover', line[i].kind) \/ Sent(cover', line[i].kind, line[i].id)
      BY <1>7, <1>8, <2>1, TickDoes DEF Fresh, Sent
    <3> QED
      BY <1>1, <1>2, <1>3, <1>4, <2>1, <3>1 DEF Fresh
  <2>2. \A id : Pending(cover, id) => Pending(cover', id)
    BY TickDoes DEF Pending
  <2> QED
    BY <1>1, <1>5, <2>1, <2>2 DEF Phases, LineIsSound, Turns
<1>10. WireIsSound'
  BY <1>1, <1>2, <1>3, <1>5, TickDoes DEF Phases, WireIsSound, Pending
<1>11. MotorIsSound'
  BY <1>1, <1>3, <1>7, TickDoes DEF Phases, MotorIsSound
<1>12. RecheckIsSound'
  BY <1>1, <1>3, <1>4, <1>5, <1>7, TickDoes DEF Phases, RecheckIsSound
<1>13. RelayIsSound'
  <2> SUFFICES ASSUME Live' PROVE \E k \in Directions, a \in Nat : RepeatsMove(k, a)' \/ RepeatsStop(k, a)'
    BY DEF RelayIsSound
  <2>1. PICK k \in Directions, a \in Nat : RepeatsMove(k, a) \/ RepeatsStop(k, a)
    BY <1>4 DEF Phases, RelayIsSound
  <2>2. k # "none" /\ a + 1 \in Nat
    BY <2>1, Ends
  <2>3. CASE RepeatsMove(k, a)
    <3>1. a + 1 < MirrorWindow /\ relay'.left = MirrorWindow - (a + 1)
      BY <1>4, <2>1, <2>3, MotionAssumption, SMT DEF MotionAssumption, RepeatsMove
    <3>2. ASSUME Heard(cover, k, a) PROVE Heard(cover, k, a + 1)'
      <4>1. /\ cover'.moving = k /\ ~cover'.started /\ cover'.ownCommand = k /\ ~cover'.afterRestart
            /\ cover'.awaited = cover.awaited
        BY <3>2, TickDoes DEF Heard
      <4>2. \/ /\ cover'.awaited # 0 /\ cover'.written = Off
               /\ wire' = [id |-> cover'.awaited, kind |-> k, age |-> a + 1]
            \/ /\ cover'.awaited = 0 /\ cover'.written = a + 1 /\ cover'.clock <= (a + 1) - StartDelay
        <5>1. CASE cover.awaited # 0
          <6>1. cover.written = Off /\ wire = [id |-> cover.awaited, kind |-> k, age |-> a]
            BY <3>2, <5>1 DEF Heard
          <6>2. wire # Idle
            BY <2>2, <6>1 DEF Idle
          <6> QED
            BY <1>2, <1>7, <4>1, <5>1, <6>1, <6>2
        <5>2. CASE cover.awaited = 0
          <6>1. cover.written = a /\ cover.clock <= a - StartDelay /\ cover.moving # "none"
            BY <2>2, <3>2, <5>2 DEF Heard
          <6>2. cover'.written = a + 1
            BY <2>1, <3>1, <6>1, TickDoes, Aging
          <6>3. cover'.clock = Least(cover.clock + 1, Horizon)
            BY <6>1, TickDoes
          <6>4. cover'.clock <= (a + 1) - StartDelay
            BY <1>6, <2>1, <6>1, <6>3, Ranges, SMT DEF Least
          <6> QED
            BY <4>1, <5>2, <6>2, <6>4
        <5> QED
          BY <5>1, <5>2
      <4>3. "stop" \in relay'.what => cover'.ownAt # Off /\ (cover'.awaited = 0 => cover'.ownAt = a + 1)
        <5> SUFFICES ASSUME "stop" \in relay'.what
                     PROVE  cover'.ownAt # Off /\ (cover'.awaited = 0 => cover'.ownAt = a + 1)
          OBVIOUS
        <5>1. cover.ownAt # Off /\ (cover.awaited = 0 => cover.ownAt = a)
          BY <1>4, <3>2 DEF Heard
        <5> QED
          BY <1>7, <2>1, <3>1, <4>1, <5>1, TickDoes, Aging
      <4> QED
        BY <4>1, <4>2, <4>3 DEF Heard
    <3>3. starting' = [dir |-> k, age |-> a + 1] /\ motor' = "none" /\ ~asked'
          /\ relay'.what \subseteq {"stop", k}
      BY <1>1, <1>3, <1>4, <2>1, <2>3 DEF RepeatsMove
    <3>4. AtEnd(cover', k) \/ Heard(cover, k, a + 1)'
      BY <1>8, <2>3, <3>2 DEF RepeatsMove
    <3>5. RepeatsMove(k, a + 1)'
      BY <3>1, <3>3, <3>4 DEF RepeatsMove
    <3> QED
      BY <2>2, <3>5
  <2>4. CASE RepeatsStop(k, a)
    <3>1. a + 1 < EchoWindow /\ relay'.left = EchoWindow - (a + 1)
      BY <1>4, <2>1, <2>4, MotionAssumption, SMT DEF MotionAssumption, RepeatsStop
    <3>2. ASSUME Stopping(cover, k, a) PROVE Stopping(cover, k, a + 1)'
      <4>1. /\ cover'.moving = k /\ cover'.stop.interrupted = k /\ cover'.stop # NoStop
            /\ cover'.stop.frame = cover.stop.frame
        BY <3>2, TickDoes DEF Stopping
      <4>2. wire' = [id |-> cover'.stop.frame, kind |-> "stop", age |-> a + 1]
        <5>1. wire = [id |-> cover.stop.frame, kind |-> "stop", age |-> a]
          BY <3>2 DEF Stopping
        <5>2. wire # Idle
          BY <5>1 DEF Idle
        <5> QED
          BY <1>2, <4>1, <5>1, <5>2
      <4>3. cover'.afterRestart /\ cover'.recheck # Off => cover'.recheck + (a + 1) >= EchoWindow
        <5> SUFFICES ASSUME cover'.afterRestart, cover'.recheck # Off
                     PROVE  cover'.recheck + (a + 1) >= EchoWindow
          OBVIOUS
        <5>1. cover.recheck # Off /\ cover.recheck + a >= EchoWindow
          BY <1>7, <3>2, TickDoes DEF Stopping
        <5>2. cover'.recheck = cover.recheck - 1
          BY <1>6, <5>1, TickDoes, Aging
        <5> QED
          BY <1>6, <2>1, <5>1, <5>2, MotionAssumption, SMT DEF MotionAssumption, Timers, Off
      <4> QED
        BY <4>1, <4>2, <4>3 DEF Stopping
    <3>3. ASSUME Stopped(cover, k, a) PROVE Stopped(cover, k, a + 1)'
      <4>1. /\ cover'.moving = "none" /\ cover'.stop = NoStop /\ cover'.ownCommand = "none"
            /\ cover'.stoppedDir = k /\ cover'.recheck = Off /\ ~cover'.afterRestart /\ wire' = Idle
        BY <1>2, <1>7, <3>3, TickDoes DEF Stopped
      <4>2. cover'.ownAt = a + 1
        BY <2>1, <3>1, <3>3, TickDoes, Aging DEF Stopped
      <4> QED
        BY <4>1, <4>2 DEF Stopped
    <3>4. relay'.what = {k} /\ starting' = NotStarting /\ line' = <<>> /\ ~asked'
      BY <1>1, <1>3, <1>4, <2>4 DEF RepeatsStop
    <3>5. Stopping(cover, k, a + 1)' \/ Stopped(cover, k, a + 1)'
      BY <2>4, <3>2, <3>3 DEF RepeatsStop
    <3>6. RepeatsStop(k, a + 1)'
      BY <3>1, <3>4, <3>5 DEF RepeatsStop
    <3> QED
      BY <2>2, <3>6
  <2> QED
    BY <2>1, <2>3, <2>4
<1> QED
  BY <1>9, <1>10, <1>11, <1>12, <1>13 DEF Phases

\* It holds initially.
LEMMA EchoInit == MotionInit => EchoInv
<1> SUFFICES ASSUME MotionInit PROVE EchoInv
  OBVIOUS
<1>1. PICK p \in {shaft, Unknown} : cover = [CoverInit EXCEPT !.pos = p]
  BY DEF MotionInit
<1>2. /\ cover.moving = "none" /\ cover.from = 0 /\ cover.clock = 0 /\ ~cover.afterRestart
      /\ cover.stop = NoStop
  BY <1>1, SMT DEF CoverInit
<1>3. /\ line = <<>> /\ wire = Idle /\ nextId = 1 /\ motor = "none" /\ starting = NotStarting
      /\ stopping = Off /\ relay = Silent /\ asked = FALSE
  BY DEF MotionInit
<1>4. Tame
  BY <1>2, <1>3 DEF Tame, Tidy, OneMotor, Numbered, Idle
<1>5. Still /\ ~Live /\ wire.kind = "none" /\ starting.dir = "none"
  BY <1>3 DEF Still, Live, NoTurns, Silent, Idle, NotStarting
<1>6. Phases
  <2>1. LineIsSound /\ WireIsSound /\ RelayIsSound
    BY <1>3, <1>5, Ends DEF LineIsSound, WireIsSound, RelayIsSound
  <2>2. MotorIsSound /\ RecheckIsSound
    BY <1>2, <1>3, <1>5 DEF MotorIsSound, RecheckIsSound
  <2> QED
    BY <2>1, <2>2 DEF Phases
<1> QED
  BY <1>4, <1>6 DEF EchoInv

\* Once the estimate is not exact it stays so.
LEMMA ExactWas == ASSUME MotionNext, exact' PROVE exact
<1>1. CASE Command
  BY <1>1 DEF Command, OpenOrClose, SetPosition, SendDirection, StopCover
<1>2. CASE TimerFires \/ Deadline \/ EchoRecheck
  BY <1>2 DEF TimerFires, Deadline, DeadlineOutdated, DeadlineTooEarly, DeadlineFreeRun,
     DeadlineStops, DeadlineStopRefused, EchoRecheck
<1>3. CASE Write \/ Report \/ Drop \/ DropWritten \/ Relay
  BY <1>3 DEF Write, Report, Drop, DropWritten, Relay
<1>4. CASE MotorStarts \/ MotorStops \/ HitsEndStop \/ Keypad \/ StatusAnswer \/ Tick
  BY <1>4 DEF MotorStarts, MotorStops, HitsEndStop, Keypad, KeypadStops, KeypadMoves,
     StatusAnswer, Tick
<1> QED
  BY <1>1, <1>2, <1>3, <1>4 DEF MotionNext

\* Every step keeps it, and a copy of a frame of our own changes nothing.
LEMMA EchoStep ==
  ASSUME Timed, MotionInv, RangesInv, EchoInv, [MotionNext]_motionVars
  PROVE  /\ EchoInv'
         /\ Relay /\ exact => UNCHANGED <<cover.moving, cover.from, cover.clock, cover.pos>>
<1>1. Tame /\ (exact => Phases)
  BY DEF EchoInv
<1>2. exact => (Relay => UNCHANGED <<cover.moving, cover.from, cover.clock, cover.pos>>)
  BY <1>1, RelayIsHarmless
<1>3. CASE UNCHANGED motionVars
  <2>1. UNCHANGED <<cover, line, wire, nextId, motor, starting, stopping, relay, asked, exact>>
    BY <1>3 DEF motionVars
  <2>2. Tame'
    BY <1>1, <2>1 DEF Tame, OneMotor, Numbered
  <2>3. Same(cover, cover')
    BY <2>1 DEF Same
  <2>4. exact' => Phases'
    BY <1>1, <2>1, <2>3, TimersKeepPhases, <1>3 DEF pathVars, actuatorVars, motionVars
  <2> QED
    BY <1>2, <2>2, <2>4 DEF EchoInv
<1>4. CASE MotionNext
  <2>1. Tame'
    BY <1>1, <1>4, TameStays
  <2>2. exact' => exact
    BY <1>4, ExactWas
  <2>3. ASSUME exact' PROVE Phases'
    <3>1. Phases
      BY <1>1, <2>2, <2>3
    <3>2. ~DropWritten /\ ~Keypad
      BY <2>3 DEF DropWritten, Keypad, KeypadStops, KeypadMoves
    <3>3. CASE Command \/ TimerFires \/ Deadline \/ EchoRecheck
      BY <1>1, <2>3, <3>1, <3>3, CommandKeepsPhases, DeadlineKeepsPhases, RecheckKeepsPhases
    <3>4. CASE Write \/ Report \/ Drop \/ Relay
      BY <1>1, <2>3, <3>1, <3>4, WriteKeepsPhases, ReportKeepsPhases, DropKeepsPhases, RelayIsHarmless
    <3>5. CASE MotorStarts \/ MotorStops \/ HitsEndStop \/ StatusAnswer \/ Tick
      BY <1>1, <2>3, <3>1, <3>5, StartKeepsPhases, HaltKeepsPhases, AnswerKeepsPhases, TickKeepsPhases
    <3> QED
      BY <1>4, <3>2, <3>3, <3>4, <3>5 DEF MotionNext
  <2> QED
    BY <1>2, <2>1, <2>3 DEF EchoInv
<1> QED
  BY <1>3, <1>4

\* What the gateway repeats of our own commands (handle_event, _is_echo,
\* _apply_motor_start in cover.py) leaves position and clock of a movement alone, for
\* every travel, delay and window, if the gateway repeats a frame before the motor
\* can have started on it and asks about an ignored frame after the window.
THEOREM EchoesAreHarmless == ASSUME Timed PROVE MotionSpec => EchoesChangeNothing
<1>1. MotionSpec => []RangesInv
  BY MotionInvHolds, RangesInit, RangesStep, PTL DEF MotionSpec
<1>2. MotionInv /\ RangesInv /\ EchoInv /\ [MotionNext]_motionVars
        => EchoInv' /\ [Relay /\ exact => UNCHANGED <<cover.moving, cover.from, cover.clock, cover.pos>>]_motionVars
  BY EchoStep
<1> QED
  BY <1>1, <1>2, MotionInvHolds, EchoInit, PTL DEF MotionSpec, EchoesChangeNothing

--------------------------------------------------------------------------
(* The estimate.  While it is exact, the clock of a run and the shaft are  *)
(* related in every phase of it, up to slip.                               *)

\* What the times of an installation must be: the gateway has answered the write of a
\* movement before a stop in time for its end, the coasting of a stop is not longer than the
\* shortest run or no run starts before its time, and the actuator is asked again only
\* after both.
Prompt ==
    /\ MaxLag + StopLatency <= StartDelay
    /\ StopLatency <= 1 \/ StartDelay <= MinStart
    /\ StopLatency < RecheckDelay /\ MaxLag < RecheckDelay

\* b is at most n further in direction k than a.
Within(k, a, b, n) == TravelTime(k, a, b) <= n

\* The clock as it is once the frame on the wire is reported, and where a reading of it puts
\* the shutter: as the motor has it, and as the estimate does, which waits for the start.
Clock == IF cover.awaited # 0 THEN wire.age - StartDelay ELSE cover.clock
Meant(c) == Travel(cover.moving, cover.from, c)
Shown(c) == Meant(Greatest(0, c))

\* Our stop is on the wire; where its report will freeze the estimate, and where the
\* shutter comes to rest.
StopWritten == cover.stop # NoStop /\ wire.id = cover.stop.frame
Freeze == Shown(cover.clock + StopLatency - wire.age)
Final == IF motor = "none" \/ stopping = Off THEN shaft ELSE Travel(motor, shaft, stopping)

\* The motor ran against the end stop of the run that is shown.
Halted == shaft = EndStopOf(cover.moving) /\ Within(cover.moving, Meant(Clock), shaft, slip)

\* The frame of the run is still in the queue.
Unwritten == wire = Idle /\ cover.awaited # 0

Bounds ==
    /\ wire.age <= MaxLag
    /\ starting # NotStarting => starting.age <= MaxStart
    /\ stopping # Off => stopping <= StopLatency

\* A run leads somewhere, and one of our own to an end stop has no target.
Aims(m) == m.moving # "none" => Duration(m) > 0 /\ (m.ownFreeRun => m.target = NoTarget)

\* The frame of the run, where it still waits for one.
Waits ==
    cover.awaited # 0 =>
      /\ cover.ownCommand # "none" /\ cover.ownAt # Off /\ cover.written = Off
      /\ \/ wire = Idle /\ line # <<>> /\ line[1] = [id |-> cover.awaited, kind |-> cover.moving]
         \/ wire.id = cover.awaited /\ cover.clock >= wire.age - StartDelay

\* The stop that is out: what it will freeze agrees with the clock it was planned against.
Planned(m) ==
    m.stop # NoStop =>
      /\ m.stop.interrupted = m.moving /\ m.stop.age <= Horizon
      /\ m.moving = "none" => m.stop.frozen = m.pos
      /\ m.moving # "none" =>
           /\ m.stop.frozen = Travel(m.moving, m.from, Greatest(0, m.stop.base))
           /\ m.stop.base >= -StartDelay
           /\ ~m.stop.rebased =>
                \/ m.stop.base + m.stop.age = m.clock + StopLatency
                \/ m.stop.base + m.stop.age >= Full + MaxLag /\ m.clock + StopLatency >= Full + MaxLag
StopAge == StopWritten => cover.stop.age >= wire.age /\ wire.kind = "stop" /\ cover.awaited = 0

\* The deadline of a timed run comes when the run is over, or before its frame is heard of.
OnTime(m) ==
    /\ m.timer # Off => m.timer = Remaining(m)
    /\ "current" \in m.fired => Remaining(m) = 0
Punctual ==
    /\ cover.moving # "none" /\ cover.stop = NoStop /\ cover.target # NoTarget
    /\ cover.awaited = 0 \/ cover.clock < 1 - StopLatency
    => OnTime(cover)

\* No run is shown: the position is the shutter's, or the one it is on its way to.
AtRest ==
    cover.moving = "none" =>
      /\ cover.pos # Unknown
      /\ motor = "none" /\ starting = NotStarting => Apart(cover.pos, shaft) <= slip
      /\ starting # NotStarting => cover.pos = EndStopOf(starting.dir)
      /\ motor # "none" /\ stopping = Off => cover.pos = EndStopOf(motor)
      /\ motor # "none" /\ stopping # Off =>
           /\ Apart(cover.pos, Final) <= slip
           /\ ~asked /\ (cover.recheck = Off \/ cover.recheck > stopping)

\* A run is shown and its stop is on the wire.
StopsRun ==
    /\ motor # "none" => stopping # Off
    /\ Apart(Freeze, Final) <= slip
    /\ asked \/ (cover.recheck # Off /\ cover.afterRestart /\ cover.recheck + wire.age <= MaxLag)
         => motor = "none" /\ Halted

\* A run is shown and the motor is about to start.
Starts ==
    /\ cover.awaited # 0 \/ cover.written # Off =>
         /\ Apart(cover.from, shaft) + Jitter <= slip
         /\ Clock = Least(starting.age - StartDelay, Horizon)
    /\ cover.awaited = 0 /\ cover.written = Off =>
         /\ cover.clock >= 0 /\ starting.age >= StartDelay
         /\ Apart(Meant(cover.clock), Travel(cover.moving, shaft, starting.age - StartDelay)) + Jitter <= slip

\* A run is shown and the motor turns.
Tracks ==
    /\ Within(cover.moving, Meant(Clock), shaft, slip)
    /\ Within(cover.moving, shaft, Shown(Clock), slip)

OnItsWay ==
    cover.moving # "none" =>
      /\ stopping # Off => StopWritten
      /\ StopWritten => StopsRun
      /\ ~StopWritten /\ Unwritten => Apart(cover.from, shaft) <= slip
      /\ ~StopWritten /\ starting # NotStarting => Starts
      /\ ~StopWritten /\ motor # "none" => Tracks
      /\ ~StopWritten /\ motor = "none" /\ starting = NotStarting /\ ~Unwritten => Halted

Follows == Aims(cover) /\ Waits /\ Planned(cover) /\ StopAge /\ Punctual /\ AtRest /\ OnItsWay
FollowInv == Bounds /\ (exact => Follows)

--------------------------------------------------------------------------
(* What the operators do to the fields that the estimate is made of        *)

\* The values the timers are set to are integers, and hold no firing of the present generation.
LEMMA ArmGoes == ASSUME NEW m, Shaped(m), NEW d \in Int
  PROVE LET n == ArmIn(m, d)
        IN  /\ n.timer = Greatest(0, d) /\ "current" \notin n.fired
            /\ n.ownFreeRun = m.ownFreeRun
<1> DEFINE delay == Greatest(0, d)
           fired == Outdated(m.fired)
           n == [m EXCEPT !.timer = delay, !.fired = fired]
<1>1. ArmIn(m, d) = n
  BY SMT DEF ArmIn, Shaped, Fields
<1>2. "current" \notin fired
  BY DEF Outdated
<1> HIDE DEF delay, fired
<1>3. n.timer = delay /\ n.fired = fired /\ n.ownFreeRun = m.ownFreeRun
  BY SMT DEF Shaped, Fields
<1> QED
  BY <1>1, <1>2, <1>3 DEF delay

\* Arming changes nothing that the time to the deadline is made of.
LEMMA SameRemains == ASSUME NEW m, NEW n, Same(m, n) \/ SameButStop(m, n) \/ SameButWindow(m, n)
  PROVE  Duration(n) = Duration(m) /\ Remaining(n) = Remaining(m)
  BY DEF Same, SameButStop, SameButWindow, Duration, Remaining, StopOffset

\* A movement that begins starts where the estimate is, and its deadline with it.
LEMMA StartGoes ==
  ASSUME NEW m, Shaped(m), NEW dir \in Directions, NEW target \in Int, NEW frame
  PROVE  LET n == Start(m, dir, target, frame)
         IN  n.moving # "none" =>
               /\ Estimate(m, 0) # Unknown => n.from = Estimate(m, 0)
               /\ n.clock = IF frame # 0 THEN -StartDelay ELSE 0
               /\ n.timer = Greatest(0, Remaining(n)) /\ "current" \notin n.fired
               /\ Duration(n) > 0
               /\ n.ownFreeRun => n.target = NoTarget
<1> DEFINE now == Estimate(m, 0)
           c == CancelTimers(m)
           from == IF now # Unknown THEN now ELSE EndStopOf(IF dir = "up" THEN "down" ELSE "up")
           clock == IF frame # 0 THEN -StartDelay ELSE 0
           end == IF target = NoTarget THEN EndStopOf(dir) ELSE target
           own == IF frame # 0 THEN 0 ELSE Off
           command == IF frame # 0 THEN dir ELSE "none"
           free == (frame # 0 /\ target = NoTarget)
           begun == [c EXCEPT
            !.moving = dir, !.from = from, !.clock = clock, !.target = target, !.end = end,
            !.written = Off, !.started = FALSE,
            !.ownAt = own, !.ownCommand = command, !.stoppedDir = "none",
            !.ownFreeRun = free,
            !.afterRestart = FALSE]
           armed == ArmDeadline(begun)
           sent == [armed EXCEPT !.awaited = frame]
           over == Finish(begun, begun.end)
<1>1. Start(m, dir, target, frame) = IF Duration(begun) <= 0 THEN over ELSE sent
  BY DEF Start
<1>2. Quiet(c)
  BY CancelTimersQuiets
<1>3. from \in Int /\ end \in Int /\ clock \in Int
  BY EstimateIsInt, Constants, SMT DEF EndStopOf
<1>4. /\ now = Estimate(m, 0) /\ (now # Unknown => from = now)
      /\ clock = (IF frame # 0 THEN -StartDelay ELSE 0) /\ (free => target = NoTarget)
  OBVIOUS
<1> HIDE DEF now, c, from, clock, end, own, command, free
<1>5. /\ DOMAIN begun = Fields /\ begun.moving = dir /\ begun.from = from /\ begun.clock = clock
      /\ begun.target = target /\ begun.end = end /\ begun.ownFreeRun = free
  <2>1. DOMAIN c = Fields
    BY <1>2 DEF Quiet, Shaped
  <2>2. DOMAIN begun = Fields
    BY <2>1, Zenon
  <2>3. /\ begun.moving = dir /\ begun.from = from /\ begun.clock = clock
        /\ begun.target = target /\ begun.end = end /\ begun.ownFreeRun = free
    BY <2>1, SMT DEF Fields
  <2> QED
    BY <2>2, <2>3
<1>6. begun.pos = c.pos /\ begun.stop = c.stop /\ begun.awaited = c.awaited /\ begun.timer = c.timer
  BY <1>2, SMT DEF Quiet, Shaped, Fields
<1> HIDE DEF begun
<1>7. Shaped(begun)
  BY <1>2, <1>3, <1>5, <1>6, SMT DEF Quiet, Shaped
<1>8. CASE Duration(begun) <= 0
  BY <1>1, <1>7, <1>8, FinishDoes DEF Over
<1>9. CASE ~(Duration(begun) <= 0)
  <2>1. Remaining(begun) \in Int /\ Duration(begun) \in Int
    BY <1>7, DurationIsInt
  <2>2. Same(begun, armed) /\ Shaped(armed)
    BY <1>7, <2>1, ArmDoes, ArmingArms DEF ArmDeadline
  <2>3. /\ armed.timer = Greatest(0, Remaining(begun)) /\ "current" \notin armed.fired
        /\ armed.ownFreeRun = begun.ownFreeRun
    BY <1>7, <2>1, ArmGoes DEF ArmDeadline
  <2> HIDE DEF armed
  <2>4. /\ sent.moving = armed.moving /\ sent.from = armed.from /\ sent.clock = armed.clock
        /\ sent.target = armed.target /\ sent.end = armed.end
        /\ sent.timer = armed.timer /\ sent.fired = armed.fired /\ sent.ownFreeRun = armed.ownFreeRun
    BY <2>2, SMT DEF Shaped, Fields
  <2> HIDE DEF sent
  <2>5. Duration(sent) = Duration(begun) /\ Remaining(sent) = Remaining(begun)
    BY <2>2, <2>4 DEF Duration, Remaining, StopOffset, Same
  <2>6. Duration(sent) > 0
    BY <1>9, <2>1, <2>5, SMT
  <2> QED
    BY <1>1, <1>4, <1>5, <1>9, <2>2, <2>3, <2>4, <2>5, <2>6 DEF Same
<1> QED
  BY <1>8, <1>9

\* A run that goes on starts its clock where the estimate is.
LEMMA ContinueGoes == ASSUME NEW m, Shaped(m), m.moving # "none"
  PROVE LET n == ContinueToEndStop(m)
        IN  n.moving # "none" =>
              (Estimate(m, 0) # Unknown => n.from = Estimate(m, 0)) /\ n.clock = 0 /\ Duration(n) > 0
<1> DEFINE s == Start(m, m.moving, NoTarget, 0)
           own == m.ownAt
           command == m.ownCommand
           restart == (m.ownAt # Off)
           n == [s EXCEPT !.ownAt = own, !.ownCommand = command, !.afterRestart = restart,
                          !.ownFreeRun = TRUE]
<1>1. m.moving \in Directions
  BY DEF Shaped
<1>2. s.moving # "none" =>
        (Estimate(m, 0) # Unknown => s.from = Estimate(m, 0)) /\ s.clock = 0 /\ Duration(s) > 0
  BY <1>1, NoTargetIsInt, StartGoes
<1>3. Shaped(s)
  BY <1>1, NoTargetIsInt, StartSound DEF Sound
<1>4. ContinueToEndStop(m) = n
  BY DEF ContinueToEndStop
<1> HIDE DEF s, own, command, restart
<1>5. /\ n.moving = s.moving /\ n.from = s.from /\ n.clock = s.clock /\ n.end = s.end
  BY <1>3, SMT DEF Shaped, Fields
<1> HIDE DEF n
<1>6. Duration(n) = Duration(s)
  BY <1>5 DEF Duration
<1> QED
  BY <1>2, <1>4, <1>5, <1>6

\* So does a run whose stop was dropped.
LEMMA StopDroppedGoes == ASSUME NEW m, Shaped(m), m.moving # "none"
  PROVE LET n == StopDropped(m)
        IN  n.moving # "none" =>
              (Estimate(m, 0) # Unknown => n.from = Estimate(m, 0)) /\ n.clock = 0 /\ Duration(n) > 0
<1> DEFINE c == [m EXCEPT !.stop = NoStop]
<1>1. /\ SameButStop(m, c) /\ c.stop = NoStop /\ DOMAIN c = Fields /\ c.timer = m.timer
  BY SMT DEF Shaped, SameButStop, Fields
<1>2. Shaped(c)
  BY <1>1, NoStopShape, NoTargetIsInt DEF Shaped, SameButStop
<1>3. c.moving # "none" /\ Estimate(c, 0) = Estimate(m, 0)
  BY <1>1 DEF SameButStop, Estimate
<1>4. StopDropped(m) = ContinueToEndStop(c)
  BY DEF StopDropped
<1> HIDE DEF c
<1> QED
  BY <1>2, <1>3, <1>4, ContinueGoes

\* A report of a movement sets the clock back to its write, where it was ahead of it.
LEMMA MoveDeliveredGoes == ASSUME NEW m, Shaped(m), NEW age \in Int
  PROVE LET n == MoveDelivered(m, age)
        IN  /\ n.ownFreeRun = m.ownFreeRun
            /\ age - StartDelay >= m.clock =>
                 n.clock = m.clock /\ n.stop = m.stop /\ n.timer = m.timer /\ n.fired = m.fired
            /\ age - StartDelay < m.clock =>
                 /\ n.clock = age - StartDelay
                 /\ m.stop # NoStop =>
                      /\ n.stop.rebased /\ n.stop.frozen = m.stop.frozen
                      /\ n.stop.base = m.stop.base /\ n.stop.age = m.stop.age
                 /\ m.stop = NoStop =>
                      n.stop = NoStop /\ n.timer = Greatest(0, Remaining(n)) /\ "current" \notin n.fired
<1> DEFINE own == IF m.ownCommand # "none" /\ m.ownAt # Off THEN age ELSE m.ownAt
           heard == [m EXCEPT !.awaited = 0, !.written = age, !.ownAt = own]
           back == Rebased(heard, age - StartDelay)
           stop == IF heard.stop = NoStop THEN heard.stop ELSE [heard.stop EXCEPT !.rebased = TRUE]
<1>1. MoveDelivered(m, age) = IF age - StartDelay >= m.clock THEN heard
                              ELSE IF m.stop = NoStop THEN ArmDeadline(back) ELSE back
  <2>1. heard = [m EXCEPT !.awaited = 0, !.written = age,
                          !.ownAt = IF m.ownCommand # "none" /\ @ # Off THEN age ELSE @]
    BY SMT DEF Shaped, Fields
  <2> HIDE DEF heard
  <2> QED
    BY <2>1 DEF MoveDelivered
<1> HIDE DEF own
<1>2. /\ DOMAIN heard = Fields
      /\ heard.moving = m.moving /\ heard.from = m.from /\ heard.clock = m.clock
      /\ heard.target = m.target /\ heard.end = m.end /\ heard.pos = m.pos
      /\ heard.awaited = 0 /\ heard.stop = m.stop /\ heard.timer = m.timer
      /\ heard.fired = m.fired /\ heard.ownFreeRun = m.ownFreeRun
  <2>1. DOMAIN m = Fields
    BY DEF Shaped
  <2>2. DOMAIN heard = Fields
    BY <2>1, Zenon
  <2>3. /\ heard.moving = m.moving /\ heard.from = m.from /\ heard.clock = m.clock
        /\ heard.target = m.target /\ heard.end = m.end /\ heard.pos = m.pos
        /\ heard.awaited = 0 /\ heard.stop = m.stop /\ heard.timer = m.timer
        /\ heard.fired = m.fired /\ heard.ownFreeRun = m.ownFreeRun
    BY <2>1, SMT DEF Fields
  <2> QED
    BY <2>2, <2>3
<1> HIDE DEF heard
<1>3. /\ DOMAIN stop = StopFields /\ stop.frame = m.stop.frame /\ stop.frozen = m.stop.frozen
      /\ stop.base = m.stop.base /\ stop.age = m.stop.age
      /\ m.stop = NoStop => stop = NoStop
      /\ m.stop # NoStop => stop.rebased
  BY <1>2, SMT DEF Shaped, StopFields
<1>4. /\ DOMAIN back = Fields
      /\ back.moving = m.moving /\ back.from = m.from /\ back.clock = age - StartDelay
      /\ back.target = m.target /\ back.end = m.end /\ back.pos = m.pos
      /\ back.awaited = 0 /\ back.stop = stop /\ back.timer = m.timer
      /\ back.ownFreeRun = m.ownFreeRun
  <2> DEFINE clock == age - StartDelay
             r == [heard EXCEPT !.clock = clock, !.stop = stop]
  <2>1. back = r
    BY <1>2, SMT DEF Rebased, Fields
  <2> HIDE DEF stop, back, clock
  <2>2. DOMAIN r = Fields
    BY <1>2, Zenon
  <2>3. /\ r.moving = heard.moving /\ r.from = heard.from /\ r.clock = clock
        /\ r.target = heard.target /\ r.end = heard.end /\ r.pos = heard.pos
        /\ r.awaited = heard.awaited /\ r.stop = stop /\ r.timer = heard.timer
        /\ r.ownFreeRun = heard.ownFreeRun
    BY <1>2, SMT DEF Fields
  <2> HIDE DEF r
  <2> QED
    BY <1>2, <2>1, <2>2, <2>3 DEF clock
<1> HIDE DEF back, stop
<1>5. CASE age - StartDelay >= m.clock
  <2>1. ~(age - StartDelay < m.clock)
    BY <1>5, Constants, SMT DEF Shaped
  <2> QED
    BY <1>1, <1>2, <1>5, <2>1
<1>6. CASE ~(age - StartDelay >= m.clock)
  <2>1. Shaped(back)
    BY <1>3, <1>4, Constants, NoTargetIsInt, SMT DEF Shaped
  <2>2. Remaining(back) \in Int
    BY <2>1, DurationIsInt
  <2>3. LET n == ArmDeadline(back)
        IN  /\ Same(back, n) /\ n.timer = Greatest(0, Remaining(back)) /\ "current" \notin n.fired
            /\ n.ownFreeRun = back.ownFreeRun /\ Remaining(n) = Remaining(back)
    BY <2>1, <2>2, ArmDoes, ArmGoes, SameRemains DEF ArmDeadline
  <2> QED
    BY <1>1, <1>3, <1>4, <1>6, <2>3 DEF Same
<1> QED
  BY <1>5, <1>6

\* A delivered stop leaves the shutter at its resting place.
LEMMA StopDeliveredGoes == ASSUME NEW m, Shaped(m), NEW age \in Int, RestingPlace(m, age) # Unknown
  PROVE StopDelivered(m, age).pos = RestingPlace(m, age)
<1> DEFINE place == RestingPlace(m, age)
           s == Finish(m, place)
           dir == m.stop.interrupted
           n == [s EXCEPT !.ownAt = age, !.ownCommand = "none", !.stoppedDir = dir]
<1>1. s.pos = place /\ DOMAIN s = Fields
  <2> HIDE DEF place
  <2>1. place # Unknown
    BY DEF place
  <2> QED
    BY <2>1, FinishDoes
<1>2. StopDelivered(m, age) = n
  BY DEF StopDelivered, MarkOwnStop
<1> HIDE DEF s, dir, place
<1>3. n.pos = s.pos
  BY <1>1, SMT DEF Fields
<1> QED
  BY <1>1, <1>2, <1>3 DEF place

\* A dropped movement is one that never began.
LEMMA MoveDroppedGoes == ASSUME NEW m, Shaped(m), m.from # Unknown PROVE MoveDropped(m).pos = m.from
<1> DEFINE s == Finish(m, m.from)
           n == [s EXCEPT !.ownCommand = "none", !.ownAt = Off, !.stoppedDir = "none"]
<1>1. s.pos = m.from /\ DOMAIN s = Fields
  BY FinishDoes
<1>2. MoveDropped(m) = n
  BY DEF MoveDropped
<1> HIDE DEF s
<1>3. n.pos = s.pos
  BY <1>1, SMT DEF Fields
<1> QED
  BY <1>1, <1>2, <1>3

\* What a queued stop remembers.
LEMMA StopQueuedGoes == ASSUME NEW m, Shaped(m), NEW frozen, NEW base
  PROVE LET n == StopQueued(m, frozen, base)
        IN  /\ n.stop = [frame |-> nextId, interrupted |-> m.moving, frozen |-> frozen,
                         base |-> base, age |-> 0, rebased |-> FALSE]
            /\ n.ownFreeRun = m.ownFreeRun
<1> DEFINE stop == [frame |-> nextId, interrupted |-> m.moving, frozen |-> frozen,
                    base |-> base, age |-> 0, rebased |-> FALSE]
           fired == Outdated(m.fired)
           n == [m EXCEPT !.timer = Off, !.fired = fired, !.stop = stop]
<1>1. StopQueued(m, frozen, base) = n
  <2> HIDE DEF stop
  <2> QED
    BY SMT DEF Shaped, StopQueued, Fields, stop
<1> HIDE DEF stop, fired
<1>2. n.stop = stop /\ n.ownFreeRun = m.ownFreeRun
  BY SMT DEF Shaped, Fields
<1> QED
  BY <1>1, <1>2 DEF stop

\* The motor's answer starts the clock.
LEMMA MotorStartGoes == ASSUME NEW m, Shaped(m), MotorAnswers(m)
  PROVE LET n == MotorStart(m)
        IN  /\ n.clock = 0 /\ n.ownFreeRun = m.ownFreeRun
            /\ n.timer = Greatest(0, Remaining(n)) /\ "current" \notin n.fired
<1> DEFINE b == [m EXCEPT !.started = TRUE, !.clock = 0]
<1>1. /\ DOMAIN b = Fields /\ b.clock = 0
      /\ b.moving = m.moving /\ b.from = m.from /\ b.target = m.target
      /\ b.end = m.end /\ b.pos = m.pos /\ b.ownFreeRun = m.ownFreeRun /\ b.awaited = m.awaited
      /\ b.stop = m.stop /\ b.timer = m.timer
  BY SMT DEF Shaped, Fields
<1> HIDE DEF b
<1>2. Shaped(b)
  BY <1>1, NoTargetIsInt DEF Shaped
<1>3. Remaining(b) \in Int
  BY <1>2, DurationIsInt
<1>4. LET n == ArmDeadline(b)
      IN  /\ Same(b, n) /\ n.timer = Greatest(0, Remaining(b)) /\ "current" \notin n.fired
          /\ n.ownFreeRun = b.ownFreeRun /\ Remaining(n) = Remaining(b)
  BY <1>2, <1>3, ArmDoes, ArmGoes, SameRemains DEF ArmDeadline
<1> QED
  BY <1>1, <1>4 DEF MotorStart, b, Same

\* What the estimate is made of.
Estimates(m, n) ==
    /\ n.moving = m.moving /\ n.from = m.from /\ n.clock = m.clock /\ n.target = m.target
    /\ n.end = m.end /\ n.pos = m.pos /\ n.awaited = m.awaited /\ n.stop = m.stop
    /\ n.written = m.written /\ n.ownFreeRun = m.ownFreeRun
    /\ n.ownCommand = m.ownCommand /\ n.afterRestart = m.afterRestart
SameTimer(m, n) == n.timer = m.timer /\ n.fired = m.fired

\* An ignored frame does not touch it.
LEMMA IgnoreGoes == ASSUME NEW m, Shaped(m) PROVE Estimates(m, Ignore(m)) /\ SameTimer(m, Ignore(m))
<1> DEFINE waits == m.ownCommand # "none" /\ m.awaited # 0
           own == IF waits THEN m.ownAt ELSE Off
           recheck == IF waits \/ m.ownCommand = "none" \/ m.afterRestart THEN RecheckDelay ELSE m.recheck
           n == [m EXCEPT !.ownAt = own, !.recheck = recheck]
<1>1. Ignore(m) = n
  BY SMT DEF Shaped, Ignore, Fields
<1> HIDE DEF own, recheck
<1>2. Estimates(m, n) /\ SameTimer(m, n)
  BY SMT DEF Shaped, Estimates, SameTimer, Fields
<1> QED
  BY <1>1, <1>2

\* Where a "stopped" of the actuator leaves the shutter.
LEMMA StoppedGoes ==
  ASSUME NEW m, Shaped(m), ~IsEcho(m, "stop")
  PROVE  Handle(m, "stop") = Finish(m, IF ReachedEndStop(m) THEN m.end ELSE Estimate(m, 0))
<1>1. "stop" # m.moving /\ "stop" \notin Directions \ {m.moving}
  BY DEF Shaped, Directions
<1> QED
  BY <1>1 DEF Handle

\* What a tick does to the estimate and to the timers.
LEMMA TickGoes == ASSUME MotionInv, RangesInv, Tick
  PROVE LET n == cover'
        IN  /\ n.from = cover.from /\ n.target = cover.target /\ n.end = cover.end
            /\ n.ownFreeRun = cover.ownFreeRun
            /\ n.timer = Down(cover.timer) /\ n.fired = cover.fired
            /\ cover.stop # NoStop =>
                 /\ n.stop.frozen = cover.stop.frozen /\ n.stop.base = cover.stop.base
                 /\ n.stop.rebased = cover.stop.rebased
                 /\ n.stop.age = Least(cover.stop.age + 1, Horizon)
<1>1. Shaped(cover)
  BY Known
<1> DEFINE clock == IF cover.moving = "none" THEN 0 ELSE Least(cover.clock + 1, Horizon)
           stop == Waited(cover.stop)
           e == [cover EXCEPT !.clock = clock, !.timer = Down(@), !.recheck = Down(@),
                              !.written = Older(@), !.ownAt = Older(@), !.stop = stop]
<1>2. cover' = e
  BY DEF Tick
<1>3. cover.stop # NoStop =>
        /\ stop.frozen = cover.stop.frozen /\ stop.base = cover.stop.base
        /\ stop.rebased = cover.stop.rebased /\ stop.age = Least(cover.stop.age + 1, Horizon)
  <2> DEFINE s == cover.stop
             age == Least(s.age + 1, Horizon)
             r == [s EXCEPT !.age = age]
  <2>1. DOMAIN s = StopFields
    BY <1>1 DEF Shaped
  <2>2. s # NoStop => stop = r
    <3> HIDE DEF s
    <3>1. r = [s EXCEPT !.age = Least(@ + 1, Horizon)]
      BY <2>1, SMT DEF StopFields
    <3> QED
      BY <3>1 DEF Waited, s
  <2> HIDE DEF s, age, stop
  <2>3. r.frozen = s.frozen /\ r.base = s.base /\ r.rebased = s.rebased /\ r.age = age
    BY <2>1, SMT DEF StopFields
  <2> HIDE DEF r
  <2> QED
    BY <2>2, <2>3 DEF s, age
<1> HIDE DEF clock, stop
<1>4. /\ e.from = cover.from /\ e.target = cover.target /\ e.end = cover.end
      /\ e.ownFreeRun = cover.ownFreeRun /\ e.timer = Down(cover.timer) /\ e.fired = cover.fired
      /\ e.stop = stop
  BY <1>1, SMT DEF Shaped, Fields
<1> QED
  BY <1>2, <1>3, <1>4

\* What the deadline's steps that are not its end do to the timers.
LEMMA TimersGo == ASSUME MotionInv
  PROVE /\ TimerFires => cover'.ownFreeRun = cover.ownFreeRun /\ cover'.timer = Off
        /\ DeadlineOutdated =>
             /\ cover'.ownFreeRun = cover.ownFreeRun /\ cover'.timer = cover.timer
             /\ "current" \in cover'.fired => "current" \in cover.fired
        /\ Ran.ownFreeRun = cover.ownFreeRun
        /\ DeadlineTooEarly =>
             /\ cover'.ownFreeRun = cover.ownFreeRun /\ "current" \notin cover'.fired
             /\ cover'.timer = Greatest(0, IF cover.awaited # 0 THEN Duration(cover) ELSE Remaining(cover))
<1>1. Shaped(cover) /\ DOMAIN cover = Fields
  BY Known DEF Shaped
<1>2. ASSUME TimerFires PROVE cover'.ownFreeRun = cover.ownFreeRun /\ cover'.timer = Off
  <2> DEFINE fired == cover.fired \cup {"current"}
             n == [cover EXCEPT !.timer = Off, !.fired = fired]
  <2>1. cover' = n
    BY <1>1, <1>2, SMT DEF TimerFires, Shaped, Fields
  <2> HIDE DEF fired
  <2>2. n.ownFreeRun = cover.ownFreeRun /\ n.timer = Off
    BY <1>1, SMT DEF Fields
  <2> QED
    BY <2>1, <2>2
<1>3. \A fired : /\ [cover EXCEPT !.fired = fired].ownFreeRun = cover.ownFreeRun
                 /\ [cover EXCEPT !.fired = fired].timer = cover.timer
                 /\ [cover EXCEPT !.fired = fired].fired = fired
  BY <1>1, SMT DEF Fields
<1>4. ASSUME DeadlineOutdated
      PROVE  /\ cover'.ownFreeRun = cover.ownFreeRun /\ cover'.timer = cover.timer
             /\ "current" \in cover'.fired => "current" \in cover.fired
  <2> DEFINE fired == cover.fired \ {"stale"}
  <2>1. cover' = [cover EXCEPT !.fired = fired]
    BY <1>4 DEF DeadlineOutdated
  <2> QED
    BY <1>3, <2>1
<1>5. Ran.ownFreeRun = cover.ownFreeRun
  <2> DEFINE fired == cover.fired \ {"current"}
  <2>1. Ran = [cover EXCEPT !.fired = fired]
    BY DEF Ran
  <2> QED
    BY <1>3, <2>1
<1>6. ASSUME DeadlineTooEarly
      PROVE  /\ cover'.ownFreeRun = cover.ownFreeRun /\ "current" \notin cover'.fired
             /\ cover'.timer = Greatest(0, IF cover.awaited # 0 THEN Duration(cover) ELSE Remaining(cover))
  <2>1. Shaped(Ran) /\ Remaining(Ran) = Remaining(cover)
    BY RanIsSame, SameRemains
  <2>2. Duration(cover) \in Int /\ Remaining(cover) \in Int
    BY <1>1, DurationIsInt
  <2>3. cover' = ArmIn(Ran, IF cover.awaited # 0 THEN Duration(cover) ELSE Remaining(cover))
    BY <1>6, <2>1 DEF DeadlineTooEarly, ArmDeadline
  <2> QED
    BY <1>5, <2>1, <2>2, <2>3, ArmGoes
<1> QED
  BY <1>2, <1>4, <1>5, <1>6

--------------------------------------------------------------------------
(* Numbers                                                                 *)

\* What is known of the constants, and of the two that are made from them.
LEMMA Times ==
  /\ Full \in Nat /\ StartDelay \in Nat /\ StopLatency \in Nat /\ MaxLag \in Nat
  /\ MinStart \in Nat /\ MaxStart \in Nat /\ RecheckDelay \in Nat
  /\ Horizon \in Nat /\ Full + MaxLag <= Horizon /\ Full + StartDelay + MaxLag <= Horizon
  /\ Jitter \in Nat /\ MaxStart - StartDelay <= Jitter /\ StartDelay - MinStart <= Jitter
  BY MotionAssumption, SMT DEF MotionAssumption, Horizon, Jitter, Greatest

\* What is known of the record.
LEMMA Numbers == ASSUME NEW m, Ranged(m)
  PROVE /\ m.from \in Int /\ 0 <= m.from /\ m.from <= Full
        /\ m.end \in Int /\ 0 <= m.end /\ m.end <= Full
        /\ m.pos \in Int /\ m.pos <= Full /\ (m.pos # Unknown => 0 <= m.pos)
        /\ m.target \in Int
        /\ m.clock \in Int /\ -StartDelay <= m.clock /\ m.clock <= Horizon
        /\ m.timer \in Int /\ m.recheck \in Int
        /\ m.timer # Off => 0 <= m.timer
        /\ m.recheck # Off => 0 <= m.recheck
        /\ m.stop.base \in Int /\ m.stop.age \in Nat /\ m.stop.rebased \in BOOLEAN
<1>1. m.from \in Places /\ m.end \in Places /\ m.pos \in Places \cup {Unknown} /\ m.target \in Places \cup {NoTarget}
  BY DEF Ranged
<1>2. m.clock \in (-StartDelay)..Horizon /\ m.timer \in Timers /\ m.recheck \in Timers
  BY DEF Ranged
<1>3. m.stop.base \in Int /\ m.stop.age \in Nat /\ m.stop.rebased \in BOOLEAN
  BY DEF Ranged
<1> QED
  BY <1>1, <1>2, <1>3, Times, SMT DEF Places, Timers, Unknown, NoTarget, Off

\* What is known of the shaft and of the ages.
LEMMA Ages == ASSUME MotionInv, RangesInv
  PROVE /\ shaft \in Int /\ 0 <= shaft /\ shaft <= Full
        /\ wire.age \in Nat /\ starting.age \in Nat /\ slip \in Nat
        /\ stopping \in Int /\ (stopping # Off => 0 <= stopping)
        /\ cover.moving \in Directions \cup {"none"} /\ motor \in Directions \cup {"none"}
<1>1. shaft \in Places /\ wire.age \in Nat /\ starting.age \in Nat /\ slip \in Nat /\ stopping \in Timers
  BY DEF RangesInv
<1>2. cover.moving \in Directions \cup {"none"} /\ motor \in Directions \cup {"none"}
  BY Known DEF Shaped
<1> QED
  BY <1>1, <1>2, Times, SMT DEF Places, Timers, Off

\* Further on in time is further on in the direction, by no more than the time.
LEMMA Further ==
  ASSUME NEW k \in Directions, NEW a \in Places, NEW x \in Int, NEW y \in Int, x <= y
  PROVE  /\ Travel(k, a, x) \in Int /\ Travel(k, a, y) \in Int
         /\ 0 <= TravelTime(k, Travel(k, a, x), Travel(k, a, y))
         /\ TravelTime(k, Travel(k, a, x), Travel(k, a, y)) <= y - x
  BY Times, SMT DEF Travel, TravelTime, Least, Greatest, Places, Directions

\* Two shutters that move together come no further apart.
LEMMA Together ==
  ASSUME NEW k \in Directions, NEW a \in Int, NEW b \in Int, NEW x \in Nat, NEW n \in Nat
  PROVE  /\ Within(k, a, b, n) => Within(k, Travel(k, a, x), Travel(k, b, x), n)
         /\ Apart(a, b) <= n => Apart(Travel(k, a, x), Travel(k, b, x)) <= n
  BY Times, SMT DEF Travel, TravelTime, Within, Apart, Least, Greatest, Directions

\* One way after another is the way of both together.
LEMMA Onwards ==
  ASSUME NEW k \in Directions, NEW a \in Int, NEW x \in Int, NEW y \in Nat
  PROVE  Travel(k, Travel(k, a, x), y) = Travel(k, a, x + y)
  BY Times, SMT DEF Travel, Least, Greatest, Directions

\* The whole travel leads to the end stop, which is the furthest place.
LEMMA ToTheEnd ==
  ASSUME NEW k \in Directions, NEW a \in Places
  PROVE  /\ \A x \in Int : x >= Full => Travel(k, a, x) = EndStopOf(k)
         /\ EndStopOf(k) \in Places /\ 0 <= TravelTime(k, a, EndStopOf(k))
  BY Times, SMT DEF Travel, TravelTime, EndStopOf, Least, Greatest, Places, Directions

--------------------------------------------------------------------------
(* What every step keeps                                                   *)

\* All that is known while the estimate is exact.
Exactly == MotionInv /\ RangesInv /\ Tame /\ Phases /\ Bounds /\ Follows

\* The ages of what is on its way are bounded, however exact the estimate is.
LEMMA BoundsStep == ASSUME MotionInv, RangesInv, Bounds, MotionNext PROVE Bounds'
<1>1. /\ wire.age <= MaxLag /\ (starting # NotStarting => starting.age <= MaxStart)
      /\ stopping # Off => stopping <= StopLatency
  BY DEF Bounds
<1>2. wire = Idle => wire.age = 0
  BY DEF Idle
<1>3. /\ wire'.age <= MaxLag \/ UNCHANGED wire
      /\ starting' = NotStarting \/ starting'.age <= MaxStart \/ UNCHANGED starting
      /\ stopping' = Off \/ stopping' <= StopLatency \/ UNCHANGED stopping
      => Bounds'
  BY <1>1 DEF Bounds
<1>4. Idle.age <= MaxLag
  BY Times, SMT DEF Idle
<1>5. CASE Write
  <2>1. wire' = [id |-> Head(line).id, kind |-> Head(line).kind, age |-> 0]
    BY <1>5 DEF Write
  <2>2. wire'.age <= MaxLag
    BY <2>1, Times, SMT
  <2>3. \/ starting' = NotStarting \/ starting' = [dir |-> Head(line).kind, age |-> 0] \/ UNCHANGED starting
    BY <1>5, Zenon DEF Write
  <2>4. starting' = NotStarting \/ starting'.age <= MaxStart \/ UNCHANGED starting
    BY <2>3, Times, SMT
  <2>5. stopping' = StopLatency \/ stopping' = Off
    BY <1>5, Zenon DEF Write
  <2>6. stopping' = Off \/ stopping' <= StopLatency
    BY <2>5, Times, SMT
  <2> QED
    BY <1>3, <2>2, <2>4, <2>6
<1>6. CASE Tick
  <2>1. wire'.age <= MaxLag
    <3>1. CASE wire = Idle
      BY <1>4, <1>6, <3>1 DEF Tick
    <3>2. CASE wire # Idle
      <4>1. wire' = [wire EXCEPT !.age = @ + 1] /\ ~(wire.age >= MaxLag)
        BY <1>6, <3>2 DEF Tick, Due
      <4>2. wire'.age = wire.age + 1
        BY <4>1, SMT DEF MotionInv, PathInv
      <4> QED
        BY <4>1, <4>2, Ages, Times, SMT
    <3> QED
      BY <3>1, <3>2
  <2>2. starting' = NotStarting \/ starting'.age <= MaxStart
    <3>1. CASE starting = NotStarting
      BY <1>6, <3>1 DEF Tick
    <3>2. CASE starting # NotStarting
      <4>1. starting' = [starting EXCEPT !.age = @ + 1] /\ ~(starting.age >= MaxStart)
        BY <1>6, <3>2 DEF Tick, Due
      <4>2. starting'.age = starting.age + 1
        BY <4>1, SMT DEF MotionInv, ActuatorInv
      <4> QED
        BY <4>1, <4>2, Ages, Times, SMT
    <3> QED
      BY <3>1, <3>2
  <2>3. stopping' = Off \/ stopping' <= StopLatency
    BY <1>1, <1>6, Ages, Times, SMT DEF Tick, Down
  <2> QED
    BY <1>3, <2>1, <2>2, <2>3
<1>7. CASE Report \/ DropWritten
  BY <1>3, <1>4, <1>7 DEF Report, DropWritten, actuatorVars
<1>8. CASE MotorStarts \/ MotorStops \/ HitsEndStop \/ Keypad
  <2>1. wire' = wire /\ starting' \in {NotStarting, starting} /\ stopping' \in {Off, stopping}
    BY <1>8 DEF MotorStarts, MotorStops, HitsEndStop, Keypad, KeypadStops, KeypadMoves, pathVars
  <2> QED
    BY <1>3, <2>1
<1>9. CASE Command \/ TimerFires \/ Deadline \/ EchoRecheck \/ Drop \/ Relay \/ StatusAnswer
  <2>1. wire' = wire /\ UNCHANGED actuatorVars
    BY <1>9 DEF Command, OpenOrClose, SetPosition, SendDirection, StopCover, Queue, TimerFires, Deadline,
       DeadlineOutdated, DeadlineTooEarly, DeadlineFreeRun, DeadlineStops, DeadlineStopRefused,
       EchoRecheck, Drop, Relay, StatusAnswer, pathVars
  <2> QED
    BY <1>3, <2>1 DEF actuatorVars
<1> QED
  BY <1>5, <1>6, <1>7, <1>8, <1>9 DEF MotionNext

\* Nothing that the estimate or the shutter is made of moves.
LEMMA NothingMoves ==
  ASSUME Follows, Estimates(cover, cover'), Punctual',
         UNCHANGED <<line, wire, motor, shaft, starting, stopping, slip>>,
         cover.awaited # 0 => cover'.ownAt = cover.ownAt,
         cover.moving = "none" /\ motor # "none" /\ stopping # Off
           => ~asked' /\ (cover'.recheck = Off \/ cover'.recheck > stopping),
         cover.moving # "none" /\ StopWritten
           /\ (asked' \/ (cover'.recheck # Off /\ cover.afterRestart /\ cover'.recheck + wire.age <= MaxLag))
           => motor = "none" /\ Halted
  PROVE  Follows'
<1>1. /\ cover'.moving = cover.moving /\ cover'.from = cover.from /\ cover'.clock = cover.clock
      /\ cover'.target = cover.target /\ cover'.end = cover.end /\ cover'.pos = cover.pos
      /\ cover'.awaited = cover.awaited /\ cover'.stop = cover.stop /\ cover'.written = cover.written
      /\ cover'.ownFreeRun = cover.ownFreeRun /\ cover'.ownCommand = cover.ownCommand
      /\ cover'.afterRestart = cover.afterRestart
  BY DEF Estimates
<1>2. Aims(cover') /\ Planned(cover')
  BY <1>1 DEF Follows, Aims, Planned, Duration
<1>3. Waits'
  BY <1>1 DEF Follows, Waits
<1>4. StopAge' /\ (StopWritten' <=> StopWritten) /\ (Unwritten' <=> Unwritten)
  BY <1>1 DEF Follows, StopAge, StopWritten, Unwritten
<1>5. Final' = Final /\ Freeze' = Freeze /\ Clock' = Clock
  BY <1>1 DEF Final, Freeze, Clock, Shown, Meant
<1>6. (Halted' <=> Halted) /\ (Tracks' <=> Tracks) /\ (Starts' <=> Starts)
  BY <1>1, <1>5 DEF Halted, Tracks, Starts, Shown, Meant
<1>7. AtRest'
  BY <1>1, <1>5 DEF Follows, AtRest
<1>8. cover.moving # "none" /\ StopWritten => StopsRun'
  BY <1>1, <1>5, <1>6 DEF Follows, OnItsWay, StopsRun
<1>9. OnItsWay'
  BY <1>1, <1>4, <1>6, <1>8 DEF Follows, OnItsWay
<1> QED
  BY <1>2, <1>3, <1>4, <1>7, <1>9 DEF Follows

--------------------------------------------------------------------------
(* Timers, copies and the re-check                                         *)

\* Firing on time, and giving up a firing that is out of date, or too early.
LEMMA TimersFollow ==
  ASSUME Exactly, TimerFires \/ DeadlineOutdated \/ DeadlineTooEarly PROVE Follows'
<1>1. MotionInv /\ Follows /\ Ranged(cover)
  BY DEF Exactly, RangesInv
<1>2. /\ Same(cover, cover') /\ UNCHANGED <<line, wire, motor, shaft, starting, stopping, slip, asked>>
  BY <1>1, TimersOnly DEF TimerFires, DeadlineOutdated, DeadlineTooEarly, pathVars, actuatorVars
<1>3. Estimates(cover, cover')
  BY <1>1, <1>2, TimersGo DEF Same, Estimates
<1>4. Remaining(cover') = Remaining(cover)
  BY <1>2, SameRemains
<1>5. Punctual'
  <2> SUFFICES ASSUME cover.moving # "none", cover.stop = NoStop, cover.target # NoTarget,
                      cover.awaited = 0 \/ cover.clock < 1 - StopLatency
               PROVE  OnTime(cover')
    BY <1>2 DEF Same, Punctual
  <2>1. /\ cover.timer # Off => cover.timer = Remaining(cover)
        /\ "current" \in cover.fired => Remaining(cover) = 0
    BY <1>1 DEF Follows, Punctual, OnTime
  <2>2. CASE TimerFires
    <3>1. cover.timer = 0 /\ cover.timer # Off
      BY <2>2, SMT DEF TimerFires, Off
    <3> QED
      BY <1>1, <1>4, <2>1, <2>2, <3>1, TimersGo DEF OnTime
  <2>3. CASE DeadlineOutdated
    BY <1>1, <1>4, <2>1, <2>3, TimersGo DEF OnTime
  <2>4. CASE DeadlineTooEarly
    <3>1. Remaining(cover) = 0 /\ (cover.awaited # 0 \/ Remaining(cover) > 0)
      BY <2>1, <2>4 DEF DeadlineTooEarly, DeadlineRuns
    <3>2. cover.clock < 1 - StopLatency
      BY <3>1, SMT
    <3>3. Duration(cover) > 0
      BY <1>1 DEF Follows, Aims
    <3>4. Remaining(cover) = Duration(cover) - StopLatency - cover.clock /\ Duration(cover) \in Int
      BY <1>1, DurationStays DEF Remaining, StopOffset
    <3> QED
      BY <1>1, <3>1, <3>2, <3>3, <3>4, Numbers, Times, SMT
  <2> QED
    BY <2>2, <2>3, <2>4
<1>6. cover'.recheck = cover.recheck /\ cover'.ownAt = cover.ownAt
  BY <1>2 DEF Same
<1> QED
  BY <1>1, <1>2, <1>3, <1>5, <1>6, NothingMoves DEF Follows, AtRest, OnItsWay, StopsRun

\* An ignored frame puts off what the estimate rests on by more than the stop takes.
LEMMA IgnoreFollows ==
  ASSUME Exactly, Prompt, cover' = Ignore(cover),
         asked' => asked, UNCHANGED <<line, wire, motor, shaft, starting, stopping, slip>>
  PROVE  Follows'
<1>1. MotionInv /\ RangesInv /\ Follows /\ Bounds /\ Shaped(cover)
  BY Known DEF Exactly
<1>2. Estimates(cover, cover') /\ SameTimer(cover, cover')
  BY <1>1, IgnoreGoes
<1>3. Punctual'
  <2>1. Remaining(cover') = Remaining(cover)
    BY <1>2 DEF Estimates, Duration, Remaining, StopOffset
  <2> QED
    BY <1>1, <1>2, <2>1 DEF Estimates, SameTimer, Follows, Punctual, OnTime
<1>4. /\ cover'.recheck = cover.recheck \/ cover'.recheck = RecheckDelay
      /\ cover.afterRestart => cover'.recheck = RecheckDelay
      /\ cover.ownCommand # "none" /\ cover.awaited # 0 => cover'.ownAt = cover.ownAt
  BY <1>1, IgnoreDoes
<1>5. cover.awaited # 0 => cover'.ownAt = cover.ownAt
  BY <1>1, <1>4 DEF Follows, Waits
<1>6. ASSUME cover.moving = "none", motor # "none", stopping # Off
      PROVE  ~asked' /\ (cover'.recheck = Off \/ cover'.recheck > stopping)
  <2>1. stopping <= StopLatency /\ StopLatency < RecheckDelay
    BY <1>1, <1>6 DEF Bounds, Prompt
  <2>2. RecheckDelay > stopping
    BY <1>1, <2>1, Ages, Times, SMT
  <2> QED
    BY <1>1, <1>4, <1>6, <2>2 DEF Follows, AtRest
<1>7. ASSUME cover.moving # "none", StopWritten,
             asked' \/ (cover'.recheck # Off /\ cover.afterRestart /\ cover'.recheck + wire.age <= MaxLag)
      PROVE  motor = "none" /\ Halted
  <2>1. ~(RecheckDelay + wire.age <= MaxLag)
    BY <1>1, Ages, Times, SMT DEF Prompt
  <2> QED
    BY <1>1, <1>4, <1>7, <2>1 DEF Follows, OnItsWay, StopsRun
<1> QED
  BY <1>1, <1>2, <1>3, <1>5, <1>6, <1>7, NothingMoves

\* Nor does a question to the actuator come before the stop is over.
LEMMA RecheckFollows == ASSUME Exactly, EchoRecheck PROVE Follows'
<1>1. MotionInv /\ RangesInv /\ Follows /\ Bounds /\ Shaped(cover)
  BY Known DEF Exactly
<1>2. /\ cover.recheck = 0 /\ cover' = [cover EXCEPT !.recheck = Off]
      /\ asked' <=> (asked \/ cover.moving = "none" \/ cover.afterRestart)
      /\ UNCHANGED <<line, wire, motor, shaft, starting, stopping, slip>>
  BY DEF EchoRecheck, pathVars, actuatorVars
<1>3. /\ Estimates(cover, cover') /\ SameTimer(cover, cover')
      /\ cover'.recheck = Off /\ cover'.ownAt = cover.ownAt
  BY <1>1, <1>2, SMT DEF Shaped, Estimates, SameTimer, Fields
<1>4. Punctual'
  <2>1. Remaining(cover') = Remaining(cover)
    BY <1>3 DEF Estimates, Duration, Remaining, StopOffset
  <2> QED
    BY <1>1, <1>3, <2>1 DEF Estimates, SameTimer, Follows, Punctual, OnTime
<1>5. ~(cover.moving = "none" /\ motor # "none" /\ stopping # Off)
  <2>1. ~(0 > stopping) \/ stopping = Off
    BY <1>1, Ages, SMT
  <2>2. cover.recheck # Off
    BY <1>2, SMT DEF Off
  <2> QED
    BY <1>1, <1>2, <2>1, <2>2 DEF Follows, AtRest
<1>6. ASSUME cover.moving # "none", StopWritten, asked' PROVE motor = "none" /\ Halted
  <2>1. cover.recheck # Off /\ cover.recheck + wire.age <= MaxLag
    BY <1>1, <1>2, Ages, Times, SMT DEF Bounds, Off
  <2> QED
    BY <1>1, <1>2, <1>6, <2>1 DEF Follows, OnItsWay, StopsRun
<1> QED
  BY <1>1, <1>2, <1>3, <1>4, <1>5, <1>6, NothingMoves

\* Where no run is shown afterwards, only its place and a stop that is left are to be known.
LEMMA Rests ==
  ASSUME MotionInv', AtRest', cover'.moving = "none",
         \/ cover'.stop = NoStop
         \/ /\ Follows /\ cover.moving = "none" /\ cover'.pos = cover.pos
            /\ cover'.stop = cover.stop /\ wire' \in {wire, Idle}
  PROVE  Follows'
<1>1. cover'.awaited = 0 /\ (cover'.stop # NoStop => cover'.stop.frame # 0)
  BY NoStopShape DEF MotionInv, Sound
<1>2. Aims(cover') /\ Waits' /\ Punctual' /\ OnItsWay'
  BY <1>1 DEF Aims, Waits, Punctual, OnItsWay
<1>3. Planned(cover')
  BY DEF Follows, Planned
<1>4. StopAge'
  <2> SUFFICES ASSUME StopWritten' PROVE cover'.stop.age >= wire'.age /\ wire'.kind = "stop"
    BY <1>1 DEF StopAge
  <2>1. cover'.stop # NoStop /\ wire'.id = cover'.stop.frame /\ cover'.stop.frame # 0
    BY <1>1 DEF StopWritten
  <2>2. wire' = wire
    BY <2>1 DEF Idle
  <2> QED
    BY <2>1, <2>2 DEF Follows, StopAge, StopWritten
<1> QED
  BY <1>2, <1>3, <1>4 DEF Follows

\* What the gateway repeats of our own frames.
LEMMA RelayFollows == ASSUME Exactly, Timed, Prompt, Relay, MotionInv' PROVE Follows'
<1>1. MotionInv /\ RangesInv /\ Tame /\ Phases /\ Follows
  BY DEF Exactly
<1>2. UNCHANGED <<line, wire, motor, shaft, starting, stopping, slip, asked>>
  BY DEF Relay, pathVars, actuatorVars
<1>3. \/ cover' = cover \/ cover' = Ignore(cover)
      \/ \E k \in Directions : AtEnd(cover, k) /\ AtEnd(cover', k)
  BY <1>1, RelayIsHarmless
<1>4. CASE cover' = cover
  <2>1. Punctual'
    BY <1>1, <1>4 DEF Follows, Punctual
  <2> QED
    BY <1>1, <1>2, <1>4, <2>1, NothingMoves DEF Estimates, Follows, AtRest, OnItsWay, StopsRun
<1>5. CASE cover' = Ignore(cover)
  BY <1>2, <1>5, IgnoreFollows
<1>6. ASSUME NEW k \in Directions, AtEnd(cover, k), AtEnd(cover', k) PROVE Follows'
  <2>1. /\ cover.moving = "none" /\ cover'.moving = "none" /\ cover'.pos = cover.pos
        /\ cover'.stop = NoStop /\ cover'.recheck = Off
    BY <1>6 DEF AtEnd
  <2>2. AtRest'
    BY <1>1, <1>2, <2>1 DEF Follows, AtRest, Final
  <2> QED
    BY <2>1, <2>2, Rests
<1> QED
  BY <1>3, <1>4, <1>5, <1>6

--------------------------------------------------------------------------
(* A run that goes on                                                      *)

\* A run whose frame is on the bus and whose stop is not goes on to its end stop.
LEMMA GoesOn ==
  ASSUME Exactly, MotionInv', RangesInv',
         cover.moving # "none", cover.awaited = 0, ~StopWritten, cover.clock >= 0,
         UNCHANGED <<motor, shaft, starting, stopping, slip>>, wire' = wire,
         \/ Begun(cover', cover.moving, NoTarget, 0)
         \/ Over(cover') /\ cover'.pos = EndStopOf(cover.moving),
         cover'.moving # "none" =>
           (Estimate(cover, 0) # Unknown => cover'.from = Estimate(cover, 0)) /\ cover'.clock = 0 /\ Duration(cover') > 0
  PROVE  Follows'
<1> DEFINE k == cover.moving
           here == Meant(cover.clock)
<1>1. /\ MotionInv /\ RangesInv /\ Phases /\ Follows /\ Bounds /\ Ranged(cover)
      /\ k \in Directions /\ k # "none"
  BY Ages DEF Exactly, RangesInv
<1>2. here \in Places /\ Estimate(cover, 0) = here /\ here # Unknown
  <2>1. Greatest(0, cover.clock + 0) = cover.clock /\ cover.clock \in Nat
    BY <1>1, Numbers, SMT DEF Greatest
  <2>2. here \in Places
    BY <1>1, <2>1, TravelStays DEF Meant, Ranged
  <2>3. here # Unknown
    BY <2>2, SMT DEF Places, Unknown
  <2> QED
    BY <1>1, <2>1, <2>2, <2>3 DEF Estimate, Meant
<1>3. stopping = Off /\ ~Unwritten /\ Clock = cover.clock
  BY <1>1 DEF Follows, OnItsWay, Unwritten, Clock
<1>4. Shown(cover.clock) = here
  BY <1>1, Numbers, SMT DEF Shown, Greatest
<1>5. CASE Begun(cover', k, NoTarget, 0)
  <2>1. /\ cover'.moving = k /\ cover'.target = NoTarget /\ cover'.awaited = 0 /\ cover'.stop = NoStop
        /\ cover'.written = Off /\ cover'.from = here /\ cover'.clock = 0 /\ Duration(cover') > 0
    BY <1>1, <1>2, <1>5 DEF Begun
  <2>2. Aims(cover') /\ Waits' /\ Planned(cover') /\ StopAge' /\ Punctual' /\ AtRest'
    BY <1>1, <2>1 DEF Aims, Waits, Planned, StopAge, StopWritten, Punctual, AtRest
  <2>3. /\ Meant(Clock)' = here /\ Shown(Clock)' = here /\ Meant(cover.clock)' = here
        /\ ~StopWritten' /\ ~Unwritten' /\ Clock' = 0
    <3>1. Travel(k, here, 0) = here /\ Greatest(0, 0) = 0
      BY <1>1, <1>2, Times, SMT DEF Travel, Places, Least, Greatest, Directions
    <3> QED
      BY <2>1, <3>1 DEF Meant, Shown, Clock, StopWritten, Unwritten
  <2>4. ASSUME starting # NotStarting PROVE Starts'
    <3>1. Starts
      BY <1>1, <1>3, <2>4 DEF Follows, OnItsWay
    <3>2. /\ starting.age >= StartDelay
          /\ Apart(here, Travel(k, shaft, starting.age - StartDelay)) + Jitter <= slip
      <4>1. CASE cover.written = Off
        BY <3>1, <4>1 DEF Starts
      <4>2. CASE cover.written # Off
        <5>1. /\ Apart(cover.from, shaft) + Jitter <= slip
              /\ cover.clock = Least(starting.age - StartDelay, Horizon)
          BY <1>3, <3>1, <4>2 DEF Starts
        <5>2. starting.age >= StartDelay
          BY <1>1, <5>1, Ages, Times, Numbers, SMT DEF Least
        <5> DEFINE n == starting.age - StartDelay
        <5>3. n \in Nat
          BY <1>1, <5>2, Ages, Times, SMT
        <5>4. here = Travel(k, cover.from, n)
          <6>1. CASE n <= Horizon
            BY <1>1, <5>1, <5>3, <6>1, Times, SMT DEF Least, Meant
          <6>2. CASE ~(n <= Horizon)
            <7>1. cover.clock = Horizon /\ Horizon >= Full /\ n >= Full
              BY <1>1, <5>1, <5>3, <6>2, Times, SMT DEF Least
            <7> QED
              BY <1>1, <5>3, <7>1, ToTheEnd, Times DEF Ranged, Meant
          <6> QED
            BY <6>1, <6>2
        <5> HIDE DEF n
        <5>5. Apart(cover.from, shaft) <= slip - Jitter /\ slip - Jitter \in Nat
          BY <1>1, <5>1, Ages, Times, Numbers, SMT DEF Apart, Greatest
        <5>6. Apart(here, Travel(k, shaft, n)) <= slip - Jitter
          BY <1>1, <5>3, <5>4, <5>5, Ages, Numbers, Together
        <5> HIDE DEF here
        <5>7. Travel(k, shaft, n) \in Int /\ here \in Int
          BY <1>1, <1>2, <5>3, Ages, Times, TravelIsInt DEF Places
        <5>8. Apart(here, Travel(k, shaft, n)) \in Int
          BY <5>7, SMT DEF Apart, Greatest
        <5>9. Apart(here, Travel(k, shaft, n)) + Jitter <= slip
          BY <1>1, <5>6, <5>8, Ages, Times, SMT
        <5> QED
          BY <5>2, <5>9 DEF n
      <4> QED
        BY <4>1, <4>2
    <3>3. 0 >= 0
      OBVIOUS
    <3> QED
      BY <2>1, <2>3, <3>2, <3>3 DEF Starts, Meant
  <2>5. ASSUME motor # "none" PROVE Tracks'
    BY <1>1, <1>3, <1>4, <2>1, <2>3, <2>5 DEF Follows, OnItsWay, Tracks
  <2>6. ASSUME motor = "none", starting = NotStarting PROVE Halted'
    BY <1>1, <1>3, <2>1, <2>3, <2>6 DEF Follows, OnItsWay, Halted
  <2>7. OnItsWay'
    BY <1>3, <2>1, <2>3, <2>4, <2>5, <2>6 DEF OnItsWay
  <2> QED
    BY <2>2, <2>7 DEF Follows
<1>6. CASE Over(cover') /\ cover'.pos = EndStopOf(k)
  <2>1. cover'.moving = "none" /\ cover'.stop = NoStop /\ EndStopOf(k) # Unknown
    BY <1>6, Ends DEF Over
  <2>2. starting.dir \in {"none", k} /\ motor \in {"none", k}
    BY <1>1 DEF Phases, MotorIsSound
  <2>3. starting # NotStarting => starting.dir \in Directions
    BY <1>1, Known
  <2>4. starting # NotStarting => starting.dir = k
    BY <2>2, <2>3, Ends
  <2>5. ASSUME motor = "none", starting = NotStarting PROVE Apart(EndStopOf(k), shaft) <= slip
    <3>1. shaft = EndStopOf(k)
      BY <1>1, <1>3, <2>5 DEF Follows, OnItsWay, Halted
    <3> QED
      BY <1>1, <3>1, Ages, SMT DEF Apart, Greatest
  <2>6. AtRest'
    BY <1>3, <1>6, <2>1, <2>2, <2>4, <2>5 DEF AtRest
  <2> QED
    BY <2>1, <2>6, Rests
<1> QED
  BY <1>5, <1>6

--------------------------------------------------------------------------
(* Commands                                                                *)

\* A deadline that is not over yet when it is armed is on time.
LEMMA ArmedOnTime ==
  ASSUME NEW m, Ranged(m), m.timer = Greatest(0, Remaining(m)), "current" \notin m.fired,
         \/ 0 <= Remaining(m)
         \/ m.target # NoTarget /\ Duration(m) > 0 /\ m.clock <= 1 - StopLatency
  PROVE  OnTime(m)
<1>1. Remaining(m) \in Int /\ Duration(m) \in Int
  BY DurationStays
<1>2. 0 <= Remaining(m)
  BY <1>1, Numbers, Times, SMT DEF Remaining, StopOffset
<1> QED
  BY <1>1, <1>2, SMT DEF OnTime, Greatest

\* At rest with an empty path no stop is out, and the position is the shutter's.
LEMMA AtSettled == ASSUME Exactly, Settled
  PROVE /\ cover.moving = "none" /\ motor = "none" /\ starting = NotStarting /\ stopping = Off
        /\ line = <<>> /\ wire = Idle /\ cover.stop = NoStop /\ cover.awaited = 0
        /\ cover.pos # Unknown /\ Apart(cover.pos, shaft) <= slip
<1>1. MotionInv /\ Tame /\ Follows
  BY DEF Exactly
<1>2. /\ cover.moving = "none" /\ motor = "none" /\ starting = NotStarting
      /\ line = <<>> /\ wire = Idle
  BY DEF Settled, Resting
<1>3. stopping = Off
  BY <1>1, <1>2 DEF Tame, OneMotor
<1>4. cover.stop = NoStop
  <2> SUFFICES ASSUME cover.stop.frame # 0 PROVE FALSE
    BY <1>1, Known
  <2>1. InPath(cover.stop.frame)
    BY <1>1 DEF MotionInv, WaitsInv, Waiting
  <2>2. wire.id = 0 /\ DOMAIN line = {}
    BY <1>2 DEF Idle
  <2> QED
    BY <2>1, <2>2 DEF InPath
<1> QED
  BY <1>1, <1>2, <1>3, <1>4, Known DEF Follows, AtRest

\* A movement is sent off.
LEMMA SendFollows ==
  ASSUME Exactly, Prompt, MotionInv', RangesInv', exact', NEW dir \in Directions, NEW target \in Int,
         SendDirection(dir, target),
         target = NoTarget \/ (target # Unknown /\ TravelTime(dir, Estimate(cover, 0), target) > 0)
  PROVE  Follows'
<1> DEFINE end == IF target = NoTarget THEN EndStopOf(dir) ELSE target
<1>1. /\ MotionInv /\ RangesInv /\ Shaped(cover) /\ Ranged(cover) /\ Ranged(cover') /\ nextId \in Nat \ {0}
  BY Known DEF Exactly, RangesInv
<1>2. Settled /\ Queue(dir) /\ cover' = Start(cover, dir, target, nextId)
      /\ UNCHANGED <<motor, shaft, starting, stopping, slip>>
  BY DEF SendDirection, actuatorVars
<1>3. /\ cover.moving = "none" /\ motor = "none" /\ starting = NotStarting /\ stopping = Off
      /\ line = <<>> /\ wire = Idle
      /\ cover.pos # Unknown /\ Apart(cover.pos, shaft) <= slip /\ Estimate(cover, 0) = cover.pos
  BY <1>2, AtSettled DEF Estimate
<1>4. \/ Begun(cover', dir, target, nextId) /\ Marked(cover', dir, nextId)
      \/ Over(cover') /\ cover'.pos = IF end = Unknown THEN cover.pos ELSE end
  BY <1>1, <1>2, StartDoes
<1>5. wire' = Idle /\ line' = <<[id |-> nextId, kind |-> dir]>>
  BY <1>2, <1>3 DEF Queue
<1>6. CASE Begun(cover', dir, target, nextId) /\ Marked(cover', dir, nextId)
  <2>1. dir # "none" /\ cover'.moving = dir
    BY <1>6, Ends DEF Begun
  <2>2. /\ cover'.from = cover.pos /\ cover'.clock = -StartDelay
        /\ cover'.timer = Greatest(0, Remaining(cover')) /\ "current" \notin cover'.fired
        /\ Duration(cover') > 0 /\ (cover'.ownFreeRun => cover'.target = NoTarget)
    BY <1>1, <1>2, <1>3, <2>1, StartGoes
  <2>3. /\ cover'.awaited = nextId /\ cover'.stop = NoStop /\ cover'.written = Off
        /\ cover'.ownAt = 0 /\ cover'.ownCommand = dir
    BY <1>1, <1>6 DEF Begun, Marked
  <2>4. Aims(cover') /\ Planned(cover') /\ StopAge' /\ AtRest'
    BY <2>1, <2>2, <2>3 DEF Aims, Planned, StopAge, StopWritten, AtRest
  <2>5. Waits'
    <3>1. 0 # Off
      BY SMT DEF Off
    <3>2. line' # <<>> /\ line'[1] = [id |-> nextId, kind |-> dir]
      BY <1>5
    <3> QED
      BY <1>5, <2>1, <2>3, <3>1, <3>2 DEF Waits
  <2>6. Punctual'
    <3>1. cover'.clock <= 1 - StopLatency
      BY <2>2, Times, SMT DEF Prompt
    <3>2. cover'.target # NoTarget => OnTime(cover')
      BY <1>1, <2>2, <3>1, ArmedOnTime
    <3> QED
      BY <3>2 DEF Punctual
  <2>7. OnItsWay'
    BY <1>1, <1>2, <1>3, <1>5, <2>2, <2>3 DEF OnItsWay, StopWritten, Unwritten
  <2> QED
    BY <2>4, <2>5, <2>6, <2>7 DEF Follows
<1>7. CASE Over(cover') /\ cover'.pos = IF end = Unknown THEN cover.pos ELSE end
  <2>1. cover'.moving = "none" /\ cover'.stop = NoStop /\ dir # "none"
    BY <1>7, Ends DEF Over
  <2>2. ~(TravelTime(dir, cover.pos, end) > 0)
    <3>1. TravelTime(dir, Estimate(cover, 0), end) > 0 => Begun(cover', dir, target, nextId)
      BY <1>1, <1>2, <1>3, StartDoes
    <3> QED
      BY <1>3, <2>1, <3>1 DEF Begun
  <2>3. target = NoTarget
    BY <1>3, <2>2
  <2>4. cover'.pos = EndStopOf(dir) /\ EndStopOf(dir) # Unknown /\ ~(TravelTime(dir, cover.pos, EndStopOf(dir)) > 0)
    BY <1>7, <2>2, <2>3, Ends
  <2>5. cover'.pos = cover.pos
    BY <1>1, <1>3, <2>4, Numbers, Times, SMT DEF TravelTime, EndStopOf, Directions
  <2>6. AtRest'
    BY <1>2, <1>3, <2>1, <2>5 DEF AtRest
  <2> QED
    BY <2>1, <2>6, Rests
<1> QED
  BY <1>4, <1>6, <1>7

\* A stop is sent off, whoever sends it: what it will freeze was planned against the clock.
LEMMA StopFollows ==
  ASSUME Exactly, NEW m, Same(cover, m), m.ownFreeRun = cover.ownFreeRun, Shaped(m),
         NEW frozen, NEW base \in Int, cover' = StopQueued(m, frozen, base), cover.stop = NoStop,
         cover.moving = "none" => frozen = cover.pos,
         cover.moving # "none" =>
           /\ frozen = Travel(cover.moving, cover.from, Greatest(0, base))
           /\ base = cover.clock + StopLatency,
         Queue("stop"), UNCHANGED <<motor, shaft, starting, stopping, slip, asked>>
  PROVE  Follows'
<1>1. /\ MotionInv /\ RangesInv /\ Tame /\ Follows /\ Ranged(cover) /\ nextId \in Nat \ {0}
  BY Known DEF Exactly, RangesInv
<1>2. SameButStop(m, cover') /\ cover'.ownFreeRun = m.ownFreeRun
  BY <1>1, StopQueuedDoes, StopQueuedGoes
<1>3. cover'.stop = [frame |-> nextId, interrupted |-> m.moving, frozen |-> frozen,
                     base |-> base, age |-> 0, rebased |-> FALSE]
  BY StopQueuedGoes
<1>4. /\ cover'.moving = cover.moving /\ cover'.from = cover.from /\ cover'.clock = cover.clock
      /\ cover'.target = cover.target /\ cover'.end = cover.end /\ cover'.pos = cover.pos
      /\ cover'.awaited = cover.awaited /\ cover'.written = cover.written
      /\ cover'.ownFreeRun = cover.ownFreeRun /\ cover'.ownCommand = cover.ownCommand
      /\ cover'.ownAt = cover.ownAt /\ cover'.recheck = cover.recheck
      /\ cover'.afterRestart = cover.afterRestart
  BY <1>2, Zenon DEF Same, SameButStop
<1>5. /\ cover'.stop.frame = nextId /\ cover'.stop.interrupted = cover.moving
      /\ cover'.stop.frozen = frozen /\ cover'.stop.base = base /\ cover'.stop.age = 0
      /\ ~cover'.stop.rebased /\ cover'.stop # NoStop
  BY <1>1, <1>3, NoStopShape DEF Same
<1>6. wire' = wire /\ wire'.id # nextId /\ wire.id # nextId
  BY <1>1, Known, SMT DEF Queue, Tame, Numbered
<1>7. ~StopWritten /\ ~StopWritten' /\ (Unwritten' <=> Unwritten)
  BY <1>4, <1>5, <1>6 DEF StopWritten, Unwritten
<1>8. Aims(cover') /\ StopAge'
  BY <1>1, <1>4, <1>7 DEF Follows, Aims, Duration, StopAge
<1>9. Waits'
  <2>1. line # <<>> => line' # <<>> /\ line'[1] = line[1]
    <3>1. line \in Seq(FrameType)
      BY <1>1, Known
    <3> QED
      BY <3>1, SMT DEF Queue
  <2> QED
    BY <1>1, <1>4, <1>6, <2>1 DEF Follows, Waits
<1>10. Planned(cover')
  <2>1. 0 <= Horizon /\ base + 0 = base
    BY Times, SMT
  <2>2. cover.moving # "none" => base >= -StartDelay
    BY <1>1, Numbers, Times, SMT
  <2> QED
    BY <1>4, <1>5, <2>1, <2>2 DEF Planned
<1>11. Punctual'
  BY <1>5 DEF Punctual
<1>12. Final' = Final /\ Clock' = Clock
  BY <1>4, <1>6 DEF Final, Clock
<1>13. (Halted' <=> Halted) /\ (Tracks' <=> Tracks) /\ (Starts' <=> Starts)
  BY <1>4, <1>12 DEF Halted, Tracks, Starts, Shown, Meant
<1>14. AtRest'
  BY <1>1, <1>4, <1>12 DEF Follows, AtRest
<1>15. OnItsWay'
  BY <1>1, <1>4, <1>7, <1>13 DEF Follows, OnItsWay
<1> QED
  BY <1>8, <1>9, <1>10, <1>11, <1>14, <1>15 DEF Follows

\* What the entity is asked to do, while the estimate stays exact.
LEMMA CommandFollows ==
  ASSUME Exactly, Prompt, MotionInv', RangesInv', exact', Command PROVE Follows'
<1>1. /\ MotionInv /\ RangesInv /\ Shaped(cover) /\ Ranged(cover)
  BY Known DEF Exactly, RangesInv
<1>2. CASE OpenOrClose
  BY <1>2, NoTargetIsInt, SendFollows DEF OpenOrClose
<1>3. CASE StopCover
  <2> DEFINE base == (IF cover.moving = "none" THEN 0 ELSE cover.clock) + StopLatency
  <2>1. /\ cover.stop = NoStop /\ Queue("stop")
        /\ cover' = StopQueued(cover, Estimate(cover, StopLatency), base)
        /\ UNCHANGED <<motor, shaft, starting, stopping, slip, asked>>
    BY <1>3 DEF StopCover, PlainStop, actuatorVars
  <2>2. base \in Int
    BY <1>1, Numbers, Times, SMT
  <2>3. cover.moving = "none" => Estimate(cover, StopLatency) = cover.pos
    BY DEF Estimate
  <2>4. cover.moving # "none" =>
          /\ Estimate(cover, StopLatency) = Travel(cover.moving, cover.from, Greatest(0, base))
          /\ base = cover.clock + StopLatency
    BY DEF Estimate
  <2>5. Same(cover, cover)
    BY DEF Same
  <2> HIDE DEF base
  <2> QED
    BY <1>1, <2>1, <2>2, <2>3, <2>4, <2>5, StopFollows
<1>4. ASSUME NEW p \in 1..(Full - 1), SetPosition(p) PROVE Follows'
  <2> DEFINE current == Estimate(cover, 0)
             dir == IF p > current THEN "up" ELSE "down"
  <2>1. current # Unknown /\ p # current /\ SendDirection(dir, p) /\ dir \in Directions
    BY <1>4 DEF SetPosition, Directions
  <2>2. current \in Int /\ p \in Int /\ p # Unknown
    BY <1>1, EstimateIsInt, Times, SMT DEF Unknown
  <2>3. TravelTime(dir, current, p) > 0
    BY <2>1, <2>2, SMT DEF TravelTime
  <2> HIDE DEF dir
  <2> QED
    BY <2>1, <2>2, <2>3, SendFollows
<1> QED
  BY <1>2, <1>3, <1>4 DEF Command

--------------------------------------------------------------------------
(* The deadline, and frames that were never written                        *)

\* The deadline ends a run where it ends, sends its stop in time, or lets it go on.
LEMMA DeadlineFollows ==
  ASSUME Exactly, MotionInv', RangesInv', exact', TimerFires \/ Deadline PROVE Follows'
<1>1. /\ MotionInv /\ RangesInv /\ Tame /\ Phases /\ Follows
      /\ Shaped(cover) /\ Ranged(cover) /\ Same(cover, Ran) /\ Shaped(Ran)
      /\ Ran.ownFreeRun = cover.ownFreeRun
  BY Known, RanIsSame, TimersGo DEF Exactly, RangesInv
<1>2. RunIsOver => /\ cover.moving # "none" /\ cover.stop = NoStop /\ cover.awaited = 0
                   /\ Ran.moving = cover.moving /\ cover.moving \in Directions
                   /\ ~StopWritten /\ ~Unwritten /\ stopping = Off /\ Clock = cover.clock
  <2>1. RunIsOver => cover.moving # "none" /\ cover.stop = NoStop /\ cover.awaited = 0
    BY <1>1, DeadlineIsAlone
  <2>2. RunIsOver => ~StopWritten /\ stopping = Off
    BY <1>1, <2>1 DEF StopWritten, Follows, OnItsWay
  <2> QED
    BY <1>1, <2>1, <2>2, Ages DEF Same, Unwritten, Clock
<1>3. RunIsOver /\ cover.target # NoTarget => cover.clock + StopLatency = Duration(cover)
  <2> SUFFICES ASSUME RunIsOver, cover.target # NoTarget PROVE cover.clock + StopLatency = Duration(cover)
    OBVIOUS
  <2>1. Remaining(cover) = 0
    BY <1>1, <1>2 DEF RunIsOver, DeadlineRuns, Follows, Punctual, OnTime
  <2> QED
    BY <1>1, <2>1, Numbers, DurationStays, Times, SMT DEF Remaining, StopOffset
<1>4. CASE TimerFires \/ DeadlineOutdated \/ DeadlineTooEarly
  BY <1>4, TimersFollow
<1>5. CASE DeadlineFreeRun
  <2>1. /\ RunIsOver /\ cover.target = NoTarget /\ cover' = Finish(Ran, cover.end)
        /\ UNCHANGED <<motor, shaft, starting, stopping, slip>>
    BY <1>5 DEF DeadlineFreeRun, actuatorVars
  <2>2. cover.end = EndStopOf(cover.moving) /\ cover.end # Unknown
    BY <1>1, <1>2, <2>1, Ends DEF Tame, Tidy
  <2>3. cover'.moving = "none" /\ cover'.stop = NoStop /\ cover'.pos = EndStopOf(cover.moving)
    BY <1>1, <2>1, <2>2, FinishDoes DEF Over
  <2>4. /\ motor \in {"none", cover.moving} /\ starting.dir \in {"none", cover.moving}
        /\ starting # NotStarting => starting.dir \in Directions
    BY <1>1, <1>2, <2>1, Known DEF Phases, MotorIsSound
  <2>5. starting # NotStarting => starting.dir = cover.moving
    BY <2>4, Ends
  <2>6. ASSUME motor = "none", starting = NotStarting PROVE Apart(EndStopOf(cover.moving), shaft) <= slip
    <3>1. shaft = EndStopOf(cover.moving)
      BY <1>1, <1>2, <2>1, <2>6 DEF Follows, OnItsWay, Halted
    <3> QED
      BY <1>1, <3>1, Ages, SMT DEF Apart, Greatest
  <2>7. AtRest'
    BY <1>2, <2>1, <2>2, <2>3, <2>4, <2>5, <2>6 DEF AtRest
  <2> QED
    BY <2>3, <2>7, Rests
<1>6. CASE DeadlineStops
  <2> DEFINE base == Duration(cover)
  <2>1. /\ RunIsOver /\ cover.target # NoTarget /\ Queue("stop")
        /\ cover' = StopQueued(Ran, cover.end, base)
        /\ UNCHANGED <<motor, shaft, starting, stopping, slip, asked>>
    BY <1>6 DEF DeadlineStops, actuatorVars
  <2>2. base \in Int /\ base > 0
    BY <1>1, <1>2, <2>1, DurationStays DEF Follows, Aims
  <2>3. base = cover.clock + StopLatency
    BY <1>3, <2>1
  <2>4. cover.end = Travel(cover.moving, cover.from, Greatest(0, base))
    BY <1>1, <1>2, <2>1, <2>2, Numbers, Times, SMT DEF Duration, TravelTime, Travel, Least, Greatest, Directions
  <2> HIDE DEF base
  <2> QED
    BY <1>1, <1>2, <2>1, <2>2, <2>3, <2>4, StopFollows
<1>7. CASE DeadlineStopRefused
  <2>1. /\ RunIsOver /\ cover.target # NoTarget /\ cover' = ContinueToEndStop(Ran) /\ Restartable
        /\ wire' = wire /\ UNCHANGED <<motor, shaft, starting, stopping, slip>>
    BY <1>7 DEF DeadlineStopRefused, pathVars, actuatorVars
  <2>2. \/ Begun(cover', cover.moving, NoTarget, 0)
        \/ Over(cover') /\ cover'.pos = EndStopOf(cover.moving)
    BY <1>1, <1>2, <2>1, ContinueDoes
  <2>3. Estimate(Ran, 0) = Estimate(cover, 0)
    BY <1>1 DEF Same, Estimate
  <2>4. cover'.moving # "none" =>
          (Estimate(cover, 0) # Unknown => cover'.from = Estimate(cover, 0)) /\ cover'.clock = 0 /\ Duration(cover') > 0
    BY <1>1, <1>2, <2>1, <2>3, ContinueGoes
  <2> QED
    BY <1>2, <2>1, <2>2, <2>4, GoesOn DEF Restartable
<1> QED
  BY <1>4, <1>5, <1>6, <1>7 DEF Deadline

\* A frame is dropped that was never written.
LEMMA DropFollows ==
  ASSUME Exactly, MotionInv', RangesInv', exact', Drop PROVE Follows'
<1> DEFINE id == line[1].id
<1>1. /\ MotionInv /\ RangesInv /\ Tame /\ Phases /\ Follows /\ Shaped(cover) /\ Ranged(cover)
      /\ wire = Idle /\ line # <<>> /\ wire' = wire /\ line' = Tail(line)
      /\ UNCHANGED <<motor, shaft, starting, stopping, slip, asked>>
  BY Known DEF Exactly, RangesInv, Drop, actuatorVars
<1>2. 1 \in DOMAIN line /\ Head(line) = line[1] /\ id \in Nat \ {0} /\ wire.id = 0
  BY <1>1, Advanced, Known
<1>3. cover' = NotDelivered(cover, id) /\ (id = cover.stop.frame => Restartable)
  BY <1>2 DEF Drop
<1>4. cover.awaited # 0 => line[1] = [id |-> cover.awaited, kind |-> cover.moving] /\ cover.awaited = id
  BY <1>1, <1>2 DEF Follows, Waits
<1>5. ~StopWritten
  BY <1>1, <1>2, Known DEF StopWritten
<1>6. CASE id = cover.awaited
  <2>1. cover' = MoveDropped(cover) /\ cover.moving # "none" /\ cover.moving \in Directions
    BY <1>1, <1>2, <1>3, <1>6, Known, Ages DEF NotDelivered
  <2>2. motor = "none" /\ starting = NotStarting
    <3>1. Turns(1)
      BY <1>2, <1>4, <1>6, <2>1 DEF Turns
    <3> QED
      BY <1>1, <1>2, <3>1 DEF Phases, LineIsSound, Fresh
  <2>3. Apart(cover.from, shaft) <= slip
    BY <1>1, <1>2, <1>5, <1>6, <2>1 DEF Follows, OnItsWay, Unwritten
  <2>4. cover.from # Unknown
    BY <1>1, Numbers, SMT DEF Unknown
  <2>5. cover'.moving = "none" /\ cover'.stop = NoStop /\ cover'.pos = cover.from
    BY <1>1, <2>1, <2>4, MoveDroppedDoes, MoveDroppedGoes DEF Over
  <2>6. AtRest'
    BY <1>1, <2>2, <2>3, <2>4, <2>5 DEF AtRest
  <2> QED
    BY <2>5, <2>6, Rests
<1>7. CASE id # cover.awaited /\ id = cover.stop.frame
  <2>1. cover' = StopDropped(cover) /\ cover.awaited = 0 /\ Restartable
    BY <1>3, <1>4, <1>7 DEF NotDelivered
  <2>2. CASE cover.moving = "none"
    <3>1. SameButStop(cover, cover') /\ cover'.stop = NoStop
      BY <1>1, <2>1, <2>2, StopDroppedDoes
    <3>2. AtRest'
      BY <1>1, <2>2, <3>1 DEF SameButStop, Follows, AtRest, Final
    <3> QED
      BY <2>2, <3>1, <3>2, Rests DEF SameButStop
  <2>3. CASE cover.moving # "none"
    <3>1. \/ Begun(cover', cover.moving, NoTarget, 0)
          \/ Over(cover') /\ cover'.pos = EndStopOf(cover.moving)
      BY <1>1, <2>1, <2>3, StopDroppedDoes
    <3>2. cover'.moving # "none" =>
            (Estimate(cover, 0) # Unknown => cover'.from = Estimate(cover, 0)) /\ cover'.clock = 0 /\ Duration(cover') > 0
      BY <1>1, <2>1, <2>3, StopDroppedGoes
    <3> QED
      BY <1>1, <1>5, <2>1, <2>3, <3>1, <3>2, GoesOn DEF Restartable
  <2> QED
    BY <2>2, <2>3
<1>8. CASE id # cover.awaited /\ id # cover.stop.frame
  <2>1. cover' = cover /\ cover.awaited = 0
    BY <1>3, <1>4, <1>8 DEF NotDelivered
  <2>2. Aims(cover') /\ Waits' /\ Planned(cover') /\ StopAge' /\ Punctual'
    BY <1>1, <1>5, <2>1 DEF Follows, Waits, Punctual, StopAge, StopWritten
  <2>3. Final' = Final /\ Clock' = Clock /\ ~StopWritten' /\ ~Unwritten /\ ~Unwritten'
    BY <1>1, <1>5, <2>1 DEF Final, Clock, StopWritten, Unwritten
  <2>4. (Halted' <=> Halted) /\ (Tracks' <=> Tracks) /\ (Starts' <=> Starts)
    BY <1>1, <2>1, <2>3 DEF Halted, Tracks, Starts, Shown, Meant
  <2>5. AtRest'
    BY <1>1, <2>1, <2>3 DEF Follows, AtRest
  <2>6. OnItsWay'
    BY <1>1, <1>5, <2>1, <2>3, <2>4 DEF Follows, OnItsWay
  <2> QED
    BY <2>2, <2>5, <2>6 DEF Follows
<1> QED
  BY <1>6, <1>7, <1>8

--------------------------------------------------------------------------
(* Reports                                                                 *)

\* Where a stop leaves the shutter: where the estimate was when it was written, and the
\* coasting further.
LEMMA RestsAtFreeze ==
  ASSUME Exactly, cover.moving # "none", StopWritten
  PROVE  RestingPlace(cover, wire.age) = Freeze /\ Freeze \in Places
<1> DEFINE k == cover.moving
           s == cover.stop
           delay == s.age - wire.age
           elapsed == cover.clock + StopLatency - wire.age
<1>1. /\ MotionInv /\ RangesInv /\ Ranged(cover) /\ k \in Directions /\ k # "none" /\ cover.from \in Places
      /\ s # NoStop
  BY Ages DEF Exactly, RangesInv, Ranged, StopWritten
<1>2. /\ cover.clock \in Int /\ s.base \in Int /\ s.age \in Nat /\ s.rebased \in BOOLEAN
      /\ wire.age \in Nat /\ StopLatency \in Nat /\ wire.age <= MaxLag /\ MaxLag \in Nat /\ Full \in Nat
      /\ 0 <= delay /\ delay \in Int /\ elapsed \in Int
  <2>1. wire.age <= s.age /\ wire.age <= MaxLag
    BY DEF Exactly, Follows, StopAge, Bounds
  <2> QED
    BY <1>1, <2>1, Numbers, Ages, Times, SMT
<1>3. /\ s.interrupted = k
      /\ s.frozen = Travel(k, cover.from, Greatest(0, s.base))
      /\ ~s.rebased => \/ s.base + s.age = cover.clock + StopLatency
                       \/ s.base + s.age >= Full + MaxLag /\ cover.clock + StopLatency >= Full + MaxLag
  BY <1>1 DEF Exactly, Follows, Planned
<1>4. Freeze = Travel(k, cover.from, Greatest(0, elapsed)) /\ Freeze \in Places
  <2>1. Greatest(0, elapsed) \in Nat
    BY <1>2, LaterIsNat
  <2> QED
    BY <1>1, <2>1, TravelStays DEF Freeze, Shown, Meant
<1>5. CASE s.rebased
  <2>1. elapsed = cover.clock - wire.age + StopLatency
    BY <1>2, SMT
  <2> QED
    BY <1>1, <1>3, <1>4, <1>5, <2>1 DEF RestingPlace
<1>6. CASE ~s.rebased
  <2>0. RestingPlace(cover, wire.age) = IF delay > 0 THEN Travel(k, cover.from, Greatest(0, s.base + delay)) ELSE s.frozen
    <3>1. /\ s.interrupted # "none" /\ s.interrupted = k
          /\ (IF s.rebased THEN cover.clock - wire.age + StopLatency ELSE s.base + delay) = s.base + delay
      BY <1>1, <1>3, <1>6, Zenon
    <3> QED
      BY <1>6, <3>1, Zenon DEF RestingPlace
  <2>1. Travel(k, cover.from, Greatest(0, s.base + delay)) = Freeze
    <3>1. CASE s.base + s.age = cover.clock + StopLatency
      <4>1. s.base + delay = elapsed
        BY <1>2, <3>1, SMT
      <4> QED
        BY <1>4, <4>1
    <3>2. CASE s.base + s.age >= Full + MaxLag /\ cover.clock + StopLatency >= Full + MaxLag
      <4>1. /\ Greatest(0, s.base + delay) \in Int /\ Greatest(0, s.base + delay) >= Full
            /\ Greatest(0, elapsed) \in Int /\ Greatest(0, elapsed) >= Full
        BY <1>2, <3>2, SMT DEF Greatest
      <4> QED
        BY <1>1, <1>4, <4>1, ToTheEnd
    <3> QED
      BY <1>3, <1>6, <3>1, <3>2
  <2>2. CASE delay > 0
    BY <1>4, <2>0, <2>1, <2>2, Zenon
  <2>3. CASE ~(delay > 0)
    <3>1. s.base + delay = s.base
      BY <1>2, <2>3, SMT
    <3> QED
      BY <1>3, <1>4, <2>0, <2>1, <2>3, <3>1, Zenon
  <2> QED
    BY <2>2, <2>3
<1> QED
  BY <1>2, <1>5, <1>6

\* The report of a movement sets the clock to where the motor has it.
LEMMA MoveReported ==
  ASSUME Exactly, Prompt, MotionInv', RangesInv', Report, wire.id = cover.awaited PROVE Follows'
<1> DEFINE age == wire.age
<1>1. /\ MotionInv /\ RangesInv /\ Tame /\ Phases /\ Follows /\ Shaped(cover) /\ Ranged(cover) /\ Ranged(cover')
      /\ wire # Idle /\ wire' = Idle /\ wire.id # 0 /\ cover.awaited # 0 /\ cover.moving # "none"
      /\ cover.awaited # cover.stop.frame
      /\ UNCHANGED <<motor, shaft, starting, stopping, slip>>
  BY Known DEF Exactly, RangesInv, Report, actuatorVars
<1>2. cover' = MoveDelivered(cover, age) /\ age \in Nat /\ age <= MaxLag
  BY <1>1, Ages DEF Report, Delivered, Exactly, Bounds
<1>3. /\ cover'.moving = cover.moving /\ cover'.from = cover.from /\ cover'.target = cover.target
      /\ cover'.end = cover.end /\ cover'.awaited = 0 /\ cover'.written = age
      /\ cover'.stop.frame = cover.stop.frame /\ cover'.stop.interrupted = cover.stop.interrupted
      /\ cover'.ownFreeRun = cover.ownFreeRun
  BY <1>1, <1>2, MoveDeliveredDoes, MoveDeliveredGoes
<1>4. age - StartDelay <= cover.clock
  BY <1>1, Numbers, Ages, Times, SMT DEF Follows, Waits
<1>5. cover'.clock = age - StartDelay
  <2>1. age - StartDelay < cover.clock \/ age - StartDelay = cover.clock
    BY <1>1, <1>2, <1>4, Numbers, Times, SMT
  <2>2. age - StartDelay = cover.clock => age - StartDelay >= cover.clock
    BY <1>1, <1>2, Numbers, Times, SMT
  <2> QED
    BY <1>1, <1>2, <2>1, <2>2, MoveDeliveredGoes
<1>6. Clock = age - StartDelay /\ Clock' = Clock
  BY <1>1, <1>3, <1>5 DEF Clock
<1>7. ~StopWritten /\ ~StopWritten' /\ ~Unwritten /\ ~Unwritten'
  <2>1. wire'.id = 0 /\ (cover'.stop # NoStop => cover'.stop.frame # 0)
    BY <1>1, NoStopShape DEF MotionInv, Sound, Idle
  <2> QED
    BY <1>1, <1>3, <2>1 DEF StopWritten, Unwritten
<1>8. Aims(cover') /\ Waits' /\ StopAge' /\ AtRest'
  BY <1>1, <1>3, <1>7 DEF Follows, Aims, Duration, Waits, StopAge, AtRest
<1>9. Planned(cover')
  <2>1. CASE age - StartDelay >= cover.clock
    <3>1. cover'.clock = cover.clock /\ cover'.stop = cover.stop
      BY <1>1, <1>2, <2>1, MoveDeliveredGoes
    <3> QED
      BY <1>1, <1>3, <3>1 DEF Follows, Planned
  <2>2. CASE ~(age - StartDelay >= cover.clock)
    <3>1. age - StartDelay < cover.clock
      BY <1>1, <1>2, <2>2, Numbers, Times, SMT
    <3>2. /\ cover.stop = NoStop => cover'.stop = NoStop
          /\ cover.stop # NoStop =>
               /\ cover'.stop.rebased /\ cover'.stop.frozen = cover.stop.frozen
               /\ cover'.stop.base = cover.stop.base /\ cover'.stop.age = cover.stop.age
      BY <1>1, <1>2, <3>1, MoveDeliveredGoes
    <3> QED
      BY <1>1, <1>3, <3>2 DEF Follows, Planned
  <2> QED
    BY <2>1, <2>2
<1>10. Punctual'
  <2> SUFFICES ASSUME cover'.stop = NoStop, cover'.target # NoTarget PROVE OnTime(cover')
    BY DEF Punctual
  <2>1. age - StartDelay <= 1 - StopLatency /\ age - StartDelay < 1 - StopLatency
    BY <1>2, Times, SMT DEF Prompt
  <2>2. cover.stop = NoStop
    BY <1>1, <1>3, Known, NoStopShape
  <2>3. CASE age - StartDelay >= cover.clock
    <3>1. /\ cover'.clock = cover.clock /\ cover'.timer = cover.timer /\ cover'.fired = cover.fired
      BY <1>1, <1>2, <2>3, MoveDeliveredGoes
    <3>2. OnTime(cover)
      BY <1>1, <1>3, <1>5, <2>1, <2>2, <3>1 DEF Follows, Punctual
    <3>3. Remaining(cover') = Remaining(cover)
      BY <1>3, <3>1 DEF Remaining, Duration, StopOffset
    <3> QED
      BY <3>1, <3>2, <3>3 DEF OnTime
  <2>4. CASE ~(age - StartDelay >= cover.clock)
    <3>1. age - StartDelay < cover.clock
      BY <1>1, <1>2, <2>4, Numbers, Times, SMT
    <3>2. cover'.timer = Greatest(0, Remaining(cover')) /\ "current" \notin cover'.fired
      BY <1>1, <1>2, <2>2, <3>1, MoveDeliveredGoes
    <3>3. Duration(cover') > 0
      BY <1>1, <1>3, <1>8 DEF Aims
    <3> QED
      BY <1>1, <1>5, <2>1, <3>2, <3>3, ArmedOnTime
  <2> QED
    BY <2>3, <2>4
<1>11. age # Off
  BY <1>2, SMT DEF Off
<1>12. /\ Starts => Starts'
       /\ Tracks' <=> Tracks
       /\ Halted' <=> Halted
  <2>1. Starts => Starts'
    BY <1>1, <1>3, <1>6, <1>11 DEF Starts
  <2>2. (Tracks' <=> Tracks) /\ (Halted' <=> Halted)
    BY <1>1, <1>3, <1>6 DEF Tracks, Halted, Shown, Meant
  <2> QED
    BY <2>1, <2>2
<1>13. OnItsWay'
  BY <1>1, <1>3, <1>7, <1>12 DEF Follows, OnItsWay
<1> QED
  BY <1>8, <1>9, <1>10, <1>13 DEF Follows

\* The report of a stop leaves the position where the shutter comes to rest.
LEMMA ReportFollows ==
  ASSUME Exactly, Prompt, MotionInv', RangesInv', Report PROVE Follows'
<1> DEFINE age == wire.age
<1>1. /\ MotionInv /\ RangesInv /\ Tame /\ Phases /\ Follows /\ Shaped(cover) /\ Ranged(cover)
      /\ wire # Idle /\ wire' = Idle /\ wire.id # 0 /\ age \in Nat
      /\ UNCHANGED <<motor, shaft, starting, stopping, slip, asked, line>>
  BY Known, Ages DEF Exactly, RangesInv, Report, actuatorVars
<1>2. CASE wire.id = cover.awaited
  BY <1>2, MoveReported
<1>3. CASE wire.id # cover.awaited /\ wire.id = cover.stop.frame
  <2>1. /\ cover' = StopDelivered(cover, age) /\ StopWritten /\ cover.stop # NoStop
    BY <1>1, <1>3, Known DEF Report, Delivered, StopWritten
  <2>2. cover'.moving = "none" /\ cover'.stop = NoStop /\ cover'.recheck = Off
    BY <1>1, <2>1, StopDeliveredDoes DEF Over
  <2>3. CASE cover.moving = "none"
    <3>1. RestingPlace(cover, age) = cover.pos /\ cover.pos # Unknown
      BY <1>1, <2>1, <2>3 DEF Follows, Planned, RestingPlace, AtRest
    <3>2. cover'.pos = cover.pos
      BY <1>1, <2>1, <3>1, StopDeliveredGoes
    <3>3. AtRest'
      BY <1>1, <2>2, <2>3, <3>2 DEF Follows, AtRest, Final
    <3> QED
      BY <2>2, <3>3, Rests
  <2>4. CASE cover.moving # "none"
    <3>1. RestingPlace(cover, age) = Freeze /\ Freeze # Unknown
      <4>1. Freeze \in Places
        BY <2>1, <2>4, RestsAtFreeze
      <4>2. Freeze # Unknown
        BY <4>1, SMT DEF Places, Unknown
      <4> QED
        BY <2>1, <2>4, <4>2, RestsAtFreeze
    <3>2. cover'.pos = Freeze
      BY <1>1, <2>1, <3>1, StopDeliveredGoes
    <3>3. StopsRun /\ starting = NotStarting
      BY <1>1, <2>1, <2>4 DEF Follows, OnItsWay, StopAge, Phases, WireIsSound
    <3>4. Final' = Final /\ (motor = "none" => Final = shaft)
      BY <1>1 DEF Final
    <3>5. AtRest'
      BY <1>1, <2>2, <3>1, <3>2, <3>3, <3>4 DEF StopsRun, AtRest
    <3> QED
      BY <2>2, <3>5, Rests
  <2> QED
    BY <2>3, <2>4
<1>4. CASE wire.id # cover.awaited /\ wire.id # cover.stop.frame
  <2>1. cover' = cover
    BY <1>4 DEF Report, Delivered
  <2>2. cover.awaited = 0 /\ ~StopWritten
    BY <1>1, <1>4 DEF Follows, Waits, StopWritten
  <2>3. ~StopWritten'
    <3>1. wire'.id = 0 /\ (cover'.stop # NoStop => cover'.stop.frame # 0)
      BY <1>1, NoStopShape DEF MotionInv, Sound, Idle
    <3> QED
      BY <3>1 DEF StopWritten
  <2>4. Aims(cover') /\ Waits' /\ Planned(cover') /\ StopAge' /\ Punctual'
    BY <1>1, <2>1, <2>2, <2>3 DEF Follows, Waits, Punctual, StopAge
  <2>5. Final' = Final /\ Clock' = Clock /\ ~Unwritten /\ ~Unwritten'
    BY <1>1, <2>1, <2>2 DEF Final, Clock, Unwritten
  <2>6. (Halted' <=> Halted) /\ (Tracks' <=> Tracks) /\ (Starts' <=> Starts)
    BY <1>1, <2>1, <2>5 DEF Halted, Tracks, Starts, Shown, Meant
  <2>7. AtRest'
    BY <1>1, <2>1, <2>5 DEF Follows, AtRest
  <2>8. OnItsWay'
    BY <1>1, <2>1, <2>2, <2>3, <2>5, <2>6 DEF Follows, OnItsWay
  <2> QED
    BY <2>4, <2>7, <2>8 DEF Follows
<1> QED
  BY <1>2, <1>3, <1>4

--------------------------------------------------------------------------
(* What is written                                                         *)

\* A stop that catches the motor turning takes it along as far as it takes the estimate.
LEMMA StopCatchesMotor ==
  ASSUME NEW k \in Directions, NEW from \in Places, NEW at \in Places, NEW c \in Int, NEW far \in Nat,
         NEW later \in Nat, Within(k, Travel(k, from, c), at, far),
         Within(k, at, Travel(k, from, Greatest(0, c)), far)
  PROVE  Apart(Travel(k, from, Greatest(0, c + later)), Travel(k, at, later)) <= far
<1> DEFINE F == Travel(k, from, Greatest(0, c + later))
           X == Travel(k, at, later)
           low == Travel(k, from, c + later)
           high == Travel(k, from, Greatest(0, c) + later)
<1>1. /\ from \in Int /\ at \in Int /\ Greatest(0, c) \in Int /\ Greatest(0, c + later) \in Int
      /\ c + later \in Int /\ Greatest(0, c) + later \in Int
      /\ Travel(k, from, c) \in Int /\ Travel(k, from, Greatest(0, c)) \in Int
      /\ c + later <= Greatest(0, c + later) /\ Greatest(0, c + later) <= Greatest(0, c) + later
  BY Further, Times, SMT DEF Greatest, Places, Travel, Least
<1>2. Within(k, low, X, far)
  <2>1. Within(k, Travel(k, Travel(k, from, c), later), X, far)
    BY <1>1, Together
  <2>2. Travel(k, Travel(k, from, c), later) = low
    BY <1>1, Onwards
  <2> QED
    BY <2>1, <2>2
<1>3. Within(k, X, high, far)
  BY <1>1, Together, Onwards
<1>4. /\ 0 <= TravelTime(k, low, F) /\ 0 <= TravelTime(k, F, high)
      /\ F \in Int /\ low \in Int /\ high \in Int
  BY <1>1, Further
<1>5. X \in Int
  BY <1>1, Times, SMT DEF Travel, Least, Greatest
<1> HIDE DEF F, X, low, high
<1>6. Apart(F, X) <= far
  BY <1>2, <1>3, <1>4, <1>5, SMT DEF Within, TravelTime, Apart, Greatest
<1> QED
  BY <1>6 DEF F, X

\* A stop that catches it before it turns takes it nowhere.
LEMMA StopCatchesStart ==
  ASSUME Exactly, cover.moving # "none", cover.awaited = 0, starting # NotStarting, Starts
  PROVE  Apart(Shown(cover.clock + StopLatency), shaft) <= slip + StopLatency
<1> DEFINE k == cover.moving
           c == cover.clock
           a == starting.age
           F == Travel(k, cover.from, Greatest(0, c + StopLatency))
<1>1. /\ MotionInv /\ RangesInv /\ Ranged(cover) /\ k \in Directions /\ cover.from \in Places /\ shaft \in Places
      /\ a <= MaxStart
  BY Ages DEF Exactly, RangesInv, Ranged, Bounds
<1>2. /\ c \in Int /\ a \in Nat /\ slip \in Nat /\ cover.from \in Int /\ shaft \in Int
      /\ Greatest(0, c + StopLatency) \in Int /\ a - StartDelay \in Int /\ c + StopLatency \in Int
      /\ StopLatency \in Int /\ StartDelay \in Int
  BY <1>1, Numbers, Ages, Times, SMT DEF Greatest
<1>3. Shown(c + StopLatency) = F
  BY DEF Shown, Meant
<1>4. CASE cover.written # Off
  <2>1. Apart(cover.from, shaft) + Jitter <= slip /\ c = Least(a - StartDelay, Horizon)
    BY <1>4 DEF Starts, Clock
  <2>2. 0 <= Greatest(0, c + StopLatency) /\ Greatest(0, c + StopLatency) <= Jitter + StopLatency
    BY <1>1, <1>2, <2>1, Times, SMT DEF Least, Greatest
  <2>3. Travel(k, cover.from, 0) = cover.from
    BY <1>1, Times, SMT DEF Travel, Least, Greatest, Places
  <2>4. /\ 0 <= TravelTime(k, cover.from, F) /\ TravelTime(k, cover.from, F) <= Jitter + StopLatency
        /\ F \in Int
    <3>1. /\ 0 <= TravelTime(k, cover.from, F)
          /\ TravelTime(k, cover.from, F) <= Greatest(0, c + StopLatency) - 0
          /\ F \in Int
      <4>1. /\ 0 <= TravelTime(k, Travel(k, cover.from, 0), F)
            /\ TravelTime(k, Travel(k, cover.from, 0), F) <= Greatest(0, c + StopLatency) - 0
            /\ F \in Int
        <5>1. \A y \in Int : 0 <= y =>
                 /\ 0 <= TravelTime(k, Travel(k, cover.from, 0), Travel(k, cover.from, y))
                 /\ TravelTime(k, Travel(k, cover.from, 0), Travel(k, cover.from, y)) <= y - 0
                 /\ Travel(k, cover.from, y) \in Int
          BY <1>1, Further
        <5> QED
          BY <1>2, <2>2, <5>1, Zenon
      <4> QED
        BY <2>3, <4>1
    <3> QED
      BY <1>2, <2>2, <3>1, Times, SMT DEF TravelTime
  <2> HIDE DEF F
  <2>5. Apart(F, shaft) <= slip + StopLatency
    BY <1>2, <2>1, <2>4, Times, SMT DEF TravelTime, Apart, Greatest
  <2> QED
    BY <1>3, <2>5
<1>5. CASE cover.written = Off
  <2> DEFINE M == Travel(k, cover.from, c)
             G == Travel(k, shaft, a - StartDelay)
  <2>1. c >= 0 /\ a >= StartDelay /\ Apart(M, G) + Jitter <= slip
    BY <1>5 DEF Starts, Meant
  <2>2. c <= Greatest(0, c + StopLatency) /\ Greatest(0, c + StopLatency) <= c + StopLatency
        /\ 0 <= a - StartDelay /\ a - StartDelay <= Jitter
    BY <1>1, <1>2, <2>1, Times, SMT DEF Greatest
  <2>3. Travel(k, shaft, 0) = shaft
    BY <1>1, Times, SMT DEF Travel, Least, Greatest, Places
  <2>4. /\ 0 <= TravelTime(k, M, F) /\ TravelTime(k, M, F) <= Greatest(0, c + StopLatency) - c
        /\ F \in Int /\ M \in Int
    BY <1>1, <1>2, <2>2, Further
  <2>5. /\ 0 <= TravelTime(k, shaft, G) /\ TravelTime(k, shaft, G) <= (a - StartDelay) - 0 /\ G \in Int
    <3>1. /\ 0 <= TravelTime(k, Travel(k, shaft, 0), G)
          /\ TravelTime(k, Travel(k, shaft, 0), G) <= (a - StartDelay) - 0 /\ G \in Int
      BY <1>1, <1>2, <2>2, Further
    <3> QED
      BY <2>3, <3>1
  <2> HIDE DEF F, M, G
  <2>6. Apart(F, shaft) <= slip + StopLatency
    BY <1>2, <2>1, <2>2, <2>4, <2>5, Times, SMT DEF TravelTime, Apart, Greatest
  <2> QED
    BY <1>3, <2>6
<1> QED
  BY <1>4, <1>5

\* At the end stop it takes it nowhere either, and the estimate no further than there.
LEMMA StopCatchesHalt ==
  ASSUME Exactly, cover.moving # "none", cover.awaited = 0, Halted
  PROVE  Apart(Shown(cover.clock + StopLatency), shaft) <= slip
<1> DEFINE k == cover.moving
           c == cover.clock
           M == Travel(k, cover.from, c)
           F == Travel(k, cover.from, Greatest(0, c + StopLatency))
<1>1. /\ MotionInv /\ RangesInv /\ Ranged(cover) /\ k \in Directions /\ cover.from \in Places
  BY Ages DEF Exactly, RangesInv, Ranged
<1>2. /\ c \in Int /\ slip \in Nat /\ Greatest(0, c + StopLatency) \in Nat /\ Greatest(0, c + StopLatency) \in Int
      /\ c <= Greatest(0, c + StopLatency) /\ shaft \in Int
  BY <1>1, Numbers, Ages, Times, SMT DEF Greatest
<1>3. Shown(c + StopLatency) = F
  BY DEF Shown, Meant
<1>4. shaft = EndStopOf(k) /\ Within(k, M, shaft, slip)
  BY DEF Halted, Clock, Meant
<1>5. 0 <= TravelTime(k, M, F) /\ M \in Int /\ F \in Int
  BY <1>1, <1>2, Further
<1>6. 0 <= TravelTime(k, F, shaft)
  <2>1. F \in Places
    BY <1>1, <1>2, TravelStays
  <2> QED
    BY <1>1, <1>4, <2>1, ToTheEnd
<1> HIDE DEF M, F
<1>7. Apart(F, shaft) <= slip
  BY <1>2, <1>4, <1>5, <1>6, SMT DEF Within, TravelTime, Apart, Greatest
<1> QED
  BY <1>3, <1>7

\* A frame is written: the motor is to obey a stop, or to turn.
LEMMA WriteFollows == ASSUME Exactly, Write PROVE Follows'
<1> DEFINE kind == line[1].kind
           id == line[1].id
<1>1. /\ MotionInv /\ RangesInv /\ Tame /\ Phases /\ Bounds /\ Follows /\ Shaped(cover) /\ Ranged(cover)
      /\ wire = Idle /\ wire.id = 0 /\ line # <<>>
      /\ UNCHANGED <<cover, shaft, asked>>
      /\ 1 \in DOMAIN line /\ Head(line) = line[1] /\ id \in Nat \ {0} /\ kind \in Frames
  BY Known, Advanced DEF Exactly, RangesInv, Write
<1>2. wire' = [id |-> id, kind |-> kind, age |-> 0]
  BY <1>1 DEF Write
<1>3. wire'.id = id /\ wire'.kind = kind /\ wire'.age = 0 /\ wire' # Idle
  BY <1>1, <1>2 DEF Idle
<1>4. ~StopWritten /\ ~Unwritten'
  BY <1>1, <1>3, Known DEF StopWritten, Unwritten
<1>5. Aims(cover') /\ Planned(cover') /\ Punctual'
  BY <1>1 DEF Follows, Punctual
<1>6. CASE kind = "stop"
  <2>1. /\ motor' = motor /\ starting' = NotStarting
        /\ stopping' = IF motor # "none" THEN StopLatency ELSE Off
        /\ slip' = IF starting # NotStarting THEN slip + StopLatency ELSE slip
    BY <1>1, <1>6, Zenon DEF Write
  <2>2. ~Turns(1) /\ cover.awaited = 0
    BY <1>1, <1>6, Ends, Known, Ages DEF Turns, Follows, Waits
  <2>3. Waits' /\ StopAge' /\ ~Unwritten
    BY <1>1, <1>3, <1>6, <2>2, Numbers DEF Waits, StopAge, StopWritten, Unwritten
  <2>4. ASSUME ~Still PROVE cover.moving # "none" /\ StopWritten'
    <3>1. Pending(cover, id)
      BY <1>1, <2>2, <2>4 DEF Phases, LineIsSound
    <3> QED
      BY <1>1, <1>3, <3>1, NoStopShape DEF Pending, StopWritten
  <2>5. Still => motor = "none" /\ starting = NotStarting
    BY DEF Still
  <2>6. AtRest'
    BY <1>1, <2>1, <2>4, <2>5 DEF Follows, AtRest
  <2>7. ASSUME cover.moving # "none" PROVE OnItsWay'
    <3>1. cover.moving \in Directions /\ (motor # "none" => motor = cover.moving /\ stopping = Off)
      BY <1>1, <1>4, <2>7, Ages DEF Phases, MotorIsSound, Follows, OnItsWay
    <3>2. Clock = cover.clock /\ Clock' = cover.clock
      BY <1>1, <2>2 DEF Clock
    <3>3. motor = "none" /\ starting = NotStarting => Halted /\ Halted' /\ slip' = slip
      BY <1>1, <1>4, <2>1, <2>3, <2>7, <3>2 DEF Follows, OnItsWay, Halted, Meant
    <3>4. stopping' # Off => StopWritten'
      BY <2>1, <2>4, <2>5
    <3>5. Freeze' = Shown(cover.clock + StopLatency)
      <4>1. cover.clock + StopLatency - 0 = cover.clock + StopLatency
        BY <1>1, Numbers, Times, SMT
      <4> QED
        BY <1>1, <1>3, <4>1 DEF Freeze, Shown, Meant
    <3>6. Apart(Freeze', Final') <= slip'
      <4>1. CASE motor # "none"
        <5>1. Tracks /\ starting = NotStarting
          BY <1>1, <1>4, <2>7, <4>1 DEF Follows, OnItsWay, Tame, OneMotor
        <5>2. Final' = Travel(cover.moving, shaft, StopLatency) /\ slip' = slip
          <6>1. StopLatency # Off
            BY Times, SMT DEF Off
          <6> QED
            BY <1>1, <2>1, <3>1, <4>1, <5>1, <6>1 DEF Final
        <5>3. Apart(Travel(cover.moving, cover.from, Greatest(0, cover.clock + StopLatency)),
                    Travel(cover.moving, shaft, StopLatency)) <= slip
          <6>1. /\ Within(cover.moving, Travel(cover.moving, cover.from, cover.clock), shaft, slip)
                /\ Within(cover.moving, shaft, Travel(cover.moving, cover.from, Greatest(0, cover.clock)), slip)
            BY <3>2, <5>1 DEF Tracks, Meant, Shown
          <6>2. cover.from \in Places /\ shaft \in Places /\ cover.clock \in Int /\ slip \in Nat /\ StopLatency \in Nat
            BY <1>1, Numbers, Ages, Times DEF RangesInv, Ranged
          <6> QED
            BY <3>1, <6>1, <6>2, StopCatchesMotor
        <5> QED
          BY <3>5, <5>2, <5>3 DEF Shown, Meant
      <4>2. CASE motor = "none" /\ starting # NotStarting
        <5>1. Starts
          BY <1>1, <1>4, <2>7, <4>2 DEF Follows, OnItsWay
        <5>2. Final' = shaft /\ slip' = slip + StopLatency
          BY <1>1, <2>1, <4>2 DEF Final
        <5> QED
          BY <2>2, <2>7, <3>5, <4>2, <5>1, <5>2, StopCatchesStart
      <4>3. CASE motor = "none" /\ starting = NotStarting
        <5>1. Final' = shaft
          BY <1>1, <2>1, <4>3 DEF Final
        <5> QED
          BY <2>2, <2>7, <3>3, <3>5, <4>3, <5>1, StopCatchesHalt
      <4> QED
        BY <4>1, <4>2, <4>3
    <3>7. StopsRun'
      <4>1. motor' # "none" => stopping' # Off
        <5>1. StopLatency # Off
          BY Times, SMT DEF Off
        <5> QED
          BY <2>1, <5>1
      <4>2. asked \/ (cover.recheck # Off /\ cover.afterRestart) => Still
        BY <1>1, <2>7 DEF Phases, RecheckIsSound
      <4> QED
        BY <1>1, <2>1, <2>5, <3>3, <3>6, <4>1, <4>2 DEF StopsRun
    <3> QED
      BY <1>1, <1>4, <2>1, <2>4, <2>5, <3>3, <3>4, <3>7 DEF OnItsWay
  <2>8. cover.moving = "none" => OnItsWay'
    BY <1>1 DEF OnItsWay
  <2> QED
    BY <1>5, <2>3, <2>6, <2>7, <2>8 DEF Follows
<1>7. CASE kind \in Directions
  <2>1. Turns(1) /\ Fresh(1) /\ kind # "stop" /\ kind # "none"
    BY <1>1, <1>7, Ends DEF Turns, Phases, LineIsSound
  <2>2. motor = "none" /\ starting = NotStarting /\ stopping = Off /\ ~asked
        /\ (AtEnd(cover, kind) \/ Sent(cover, kind, id))
    BY <1>1, <2>1 DEF Fresh, Tame, OneMotor
  <2>3. /\ motor' = "none" /\ starting' = [dir |-> kind, age |-> 0] /\ stopping' = Off
        /\ slip' = slip + Jitter
    <3>1. kind # motor
      BY <1>7, <2>2, Ends
    <3> QED
      BY <1>1, <2>1, <3>1, Zenon DEF Write
  <2>4. starting'.dir = kind /\ starting'.age = 0 /\ starting' # NotStarting
    BY <2>1, <2>3 DEF NotStarting
  <2> HIDE DEF kind, id
  <2>5. CASE AtEnd(cover, kind)
    <3>1. cover.moving = "none" /\ cover.pos = EndStopOf(kind) /\ cover.stop = NoStop /\ cover.awaited = 0
      BY <1>1, <2>5, Known DEF AtEnd
    <3>2. AtRest'
      BY <1>1, <2>3, <2>4, <3>1, Ends DEF AtRest
    <3> QED
      BY <1>1, <1>5, <3>1, <3>2 DEF Follows, Waits, StopAge, StopWritten, OnItsWay
  <2>6. CASE Sent(cover, kind, id)
    <3>1. /\ cover.moving = kind /\ cover.awaited = id /\ cover.ownCommand = kind /\ cover.ownAt # Off
          /\ cover.written = Off /\ cover.awaited # 0 /\ id # cover.stop.frame
      BY <1>1, <2>6, Known DEF Sent
    <3>2. ~StopWritten' /\ StopAge' /\ AtRest'
      BY <1>1, <1>3, <2>1, <3>1 DEF StopWritten, StopAge, AtRest
    <3>3. Waits'
      <4>1. cover.clock >= 0 - StartDelay
        BY <1>1, Numbers, Times, SMT
      <4> QED
        BY <1>1, <1>3, <2>1, <3>1, <4>1 DEF Waits
    <3>4. Starts'
      <4>1. Apart(cover.from, shaft) <= slip
        BY <1>1, <1>4, <2>1, <3>1 DEF Follows, OnItsWay, Unwritten
      <4>2. Apart(cover.from, shaft) + Jitter <= slip + Jitter
        BY <1>1, <4>1, Numbers, Ages, Times, SMT DEF Apart, Greatest
      <4>3. Clock' = 0 - StartDelay
        BY <1>1, <1>3, <3>1 DEF Clock
      <4>4. 0 - StartDelay = Least(0 - StartDelay, Horizon)
        BY Times, SMT DEF Least
      <4> QED
        BY <1>1, <2>3, <2>4, <3>1, <4>2, <4>3, <4>4 DEF Starts
    <3>5. OnItsWay'
      BY <1>1, <1>4, <2>3, <2>4, <3>2, <3>4 DEF OnItsWay
    <3> QED
      BY <1>5, <3>2, <3>3, <3>5 DEF Follows
  <2> QED
    BY <2>2, <2>5, <2>6
<1> QED
  BY <1>1, <1>6, <1>7 DEF Frames

--------------------------------------------------------------------------
(* The motor starts                                                        *)

\* When the motor starts, the clock and the shaft are as far apart as its start is off.
LEMMA TracksAtStart ==
  ASSUME Exactly, cover.moving # "none", starting # NotStarting, starting.age >= MinStart, Starts
  PROVE  Tracks
<1> DEFINE k == cover.moving
           c == Clock
           a == starting.age
           y == Greatest(0, c)
           M == Travel(k, cover.from, c)
           S == Travel(k, cover.from, y)
<1>1. /\ MotionInv /\ RangesInv /\ Ranged(cover) /\ k \in Directions /\ cover.from \in Places /\ shaft \in Places
      /\ a <= MaxStart
  BY Ages DEF Exactly, RangesInv, Ranged, Bounds
<1>2. /\ a \in Nat /\ slip \in Nat /\ cover.from \in Int /\ shaft \in Int
      /\ a - StartDelay \in Int /\ StartDelay \in Int
      /\ MinStart - StartDelay <= a - StartDelay /\ -Jitter <= a - StartDelay /\ a - StartDelay <= Jitter
  BY <1>1, Numbers, Ages, Times, SMT
<1>3. Travel(k, cover.from, 0) = cover.from /\ Travel(k, shaft, 0) = shaft
  BY <1>1, Times, SMT DEF Travel, Least, Greatest, Places
<1>4. Within(k, M, shaft, slip) /\ Within(k, shaft, S, slip) => Tracks
  BY DEF Tracks, Meant, Shown
<1>5. ASSUME NEW x \in Int, NEW z \in Int, x <= z, NEW at \in Places
      PROVE  /\ Travel(k, at, x) \in Int /\ Travel(k, at, z) \in Int
             /\ 0 <= TravelTime(k, Travel(k, at, x), Travel(k, at, z))
             /\ TravelTime(k, Travel(k, at, x), Travel(k, at, z)) <= z - x
  BY <1>1, <1>5, Further
<1>6. CASE cover.awaited # 0 \/ cover.written # Off
  <2>1. Apart(cover.from, shaft) + Jitter <= slip /\ c = Least(a - StartDelay, Horizon)
    BY <1>6 DEF Starts
  <2> HIDE DEF c
  <2>2. c \in Int /\ y \in Int /\ -Jitter <= c /\ 0 <= y /\ y <= Jitter
    BY <1>2, <2>1, Times, SMT DEF Least, Greatest
  <2> HIDE DEF y
  <2>3. M \in Int /\ S \in Int /\ TravelTime(k, cover.from, S) <= Jitter
    <3>1. /\ Travel(k, cover.from, 0) \in Int /\ S \in Int
          /\ TravelTime(k, Travel(k, cover.from, 0), S) <= y - 0
      BY <1>1, <1>5, <2>2
    <3>2. M \in Int
      BY <1>1, <1>5, <2>2
    <3> QED
      BY <1>2, <1>3, <2>2, <3>1, <3>2, Times, SMT DEF TravelTime
  <2>4. TravelTime(k, M, cover.from) <= Jitter
    <3>1. CASE c <= 0
      <4>1. TravelTime(k, M, Travel(k, cover.from, 0)) <= 0 - c
        BY <1>1, <1>5, <2>2, <3>1
      <4> QED
        BY <1>2, <1>3, <2>2, <2>3, <4>1, Times, SMT DEF TravelTime
    <3>2. CASE 0 <= c
      <4>1. 0 <= TravelTime(k, Travel(k, cover.from, 0), M)
        BY <1>1, <1>5, <2>2, <3>2
      <4> QED
        BY <1>2, <1>3, <2>2, <2>3, <4>1, Times, SMT DEF TravelTime
    <3> QED
      BY <2>2, <3>1, <3>2, SMT
  <2> HIDE DEF M, S
  <2>5. Within(k, M, shaft, slip) /\ Within(k, shaft, S, slip)
    BY <1>2, <2>1, <2>3, <2>4, Times, SMT DEF Within, TravelTime, Apart, Greatest
  <2> QED
    BY <1>4, <2>5
<1>7. CASE cover.awaited = 0 /\ cover.written = Off
  <2> DEFINE G == Travel(k, shaft, a - StartDelay)
  <2>1. c = cover.clock /\ c >= 0 /\ a >= StartDelay /\ Apart(M, G) + Jitter <= slip
    BY <1>7 DEF Starts, Meant, Clock
  <2>2. c \in Int /\ 0 <= a - StartDelay
    BY <1>1, <1>2, <2>1, Numbers, SMT
  <2> HIDE DEF c
  <2>3. y = c
    BY <2>1, <2>2, SMT DEF Greatest
  <2> HIDE DEF y
  <2>4. M \in Int /\ S = M
    BY <1>1, <1>5, <2>2, <2>3
  <2>5. /\ 0 <= TravelTime(k, Travel(k, shaft, 0), G)
        /\ TravelTime(k, Travel(k, shaft, 0), G) <= (a - StartDelay) - 0 /\ G \in Int
    BY <1>1, <1>2, <1>5, <2>2
  <2> HIDE DEF M, G, S
  <2>6. Within(k, M, shaft, slip) /\ Within(k, shaft, S, slip)
    BY <1>2, <1>3, <2>1, <2>4, <2>5, Times, SMT DEF Within, TravelTime, Apart, Greatest
  <2> QED
    BY <1>4, <2>6
<1> QED
  BY <1>6, <1>7

\* The motor starts, seen or not: the clock starts with it, or was never far off.
LEMMA StartFollows ==
  ASSUME Exactly, Prompt, MotionInv', RangesInv', MotorStarts PROVE Follows'
<1> DEFINE d == starting.dir
<1>1. /\ MotionInv /\ RangesInv /\ Tame /\ Phases /\ Bounds /\ Follows /\ Shaped(cover) /\ Ranged(cover) /\ Ranged(cover')
      /\ starting # NotStarting /\ starting.age >= MinStart /\ motor' = d /\ starting' = NotStarting
      /\ cover' = Handle(cover, d) \/ cover' = cover
      /\ UNCHANGED <<line, wire, shaft, stopping, asked, slip>>
  BY Known DEF Exactly, RangesInv, MotorStarts, Sees, pathVars
<1>2. d \in Directions /\ d \in Frames /\ d # "none" /\ d # "stop" /\ motor = "none" /\ stopping = Off
  BY <1>1, Known, Ends DEF Tame, OneMotor
<1>3. \A i \in DOMAIN line : ~Turns(i)
  BY <1>1 DEF Phases, LineIsSound, Fresh, Still
<1>4. wire.kind # "stop" /\ ~StopWritten
  BY <1>1 DEF Phases, WireIsSound, Still, Follows, StopAge
<1>5. ~Unwritten
  <2> SUFFICES ASSUME Unwritten PROVE FALSE
    OBVIOUS
  <2>1. wire.id = 0 /\ line # <<>> /\ line[1].kind = cover.moving /\ cover.moving \in Directions
    BY <1>1, Known, Ages DEF Unwritten, Follows, Waits
  <2>2. 1 \in DOMAIN line
    BY <1>1, <2>1, Known, SMT
  <2> QED
    BY <1>3, <2>1, <2>2 DEF Turns
<1> HIDE DEF d
<1>6. CASE cover.moving # "none"
  <2>1. cover.moving = d /\ Starts
    BY <1>1, <1>2, <1>4, <1>6 DEF d, Phases, MotorIsSound, Follows, OnItsWay
  <2>2. cover' = cover \/ (MotorAnswers(cover) /\ cover' = MotorStart(cover))
    BY <1>1, <1>2, <2>1, HandleDoes, MotorStartDoes
  <2>3. CASE cover' = cover
    <3>1. Tracks
      BY <1>1, <1>6, <2>1, TracksAtStart
    <3>2. Clock' = Clock /\ ~StopWritten' /\ ~Unwritten'
      BY <1>1, <1>4, <1>5, <2>3 DEF Clock, StopWritten, Unwritten
    <3>3. Tracks'
      BY <1>1, <2>3, <3>1, <3>2 DEF Tracks, Shown, Meant
    <3>4. Aims(cover') /\ Waits' /\ Planned(cover') /\ StopAge' /\ Punctual'
      BY <1>1, <2>3, <3>2 DEF Follows, Waits, Punctual, StopAge
    <3>5. AtRest' /\ OnItsWay'
      BY <1>1, <1>2, <1>6, <2>3, <3>2, <3>3 DEF AtRest, OnItsWay
    <3> QED
      BY <3>4, <3>5 DEF Follows
  <2>4. CASE MotorAnswers(cover) /\ cover' = MotorStart(cover)
    <3>1. cover.stop = NoStop /\ cover.written # Off /\ cover.awaited = 0
      BY <1>1, <2>4 DEF MotorAnswers, Follows, Waits
    <3>2. /\ cover'.moving = cover.moving /\ cover'.from = cover.from /\ cover'.target = cover.target
          /\ cover'.end = cover.end /\ cover'.awaited = 0 /\ cover'.stop = NoStop /\ cover'.clock = 0
          /\ cover'.ownFreeRun = cover.ownFreeRun
          /\ cover'.timer = Greatest(0, Remaining(cover')) /\ "current" \notin cover'.fired
      BY <1>1, <2>4, <3>1, MotorStartDoes, MotorStartGoes
    <3>3. /\ Apart(cover.from, shaft) + Jitter <= slip
          /\ cover.clock = Least(starting.age - StartDelay, Horizon)
      BY <2>1, <3>1 DEF Starts, Clock
    <3>4. Tracks'
      <4>1. cover.moving \in Directions /\ cover.from \in Places /\ shaft \in Int /\ slip \in Nat
        BY <1>1, <1>2, <2>1, Ages DEF Ranged
      <4>2. Travel(cover.moving, cover.from, 0) = cover.from /\ Greatest(0, 0) = 0
        BY <4>1, Times, SMT DEF Travel, Least, Greatest, Places
      <4>3. /\ Within(cover.moving, cover.from, shaft, slip)
            /\ Within(cover.moving, shaft, cover.from, slip)
        BY <1>1, <3>3, <4>1, Numbers, Times, SMT DEF Within, TravelTime, Apart, Greatest
      <4> QED
        BY <1>1, <3>2, <4>2, <4>3 DEF Tracks, Shown, Meant, Clock
    <3>5. Aims(cover') /\ Waits' /\ Planned(cover') /\ StopAge'
      BY <1>1, <3>2 DEF Follows, Aims, Duration, Waits, Planned, StopAge, StopWritten
    <3>6. Punctual'
      <4> SUFFICES ASSUME cover'.target # NoTarget PROVE OnTime(cover')
        BY DEF Punctual
      <4>1. Duration(cover') > 0
        BY <1>6, <3>2, <3>5 DEF Aims
      <4>2. CASE StopLatency <= 1
        <5>1. cover'.clock <= 1 - StopLatency
          BY <3>2, <4>2, Times, SMT
        <5> QED
          BY <1>1, <3>2, <4>1, <5>1, ArmedOnTime
      <4>3. CASE StartDelay <= MinStart
        <5>1. OnTime(cover) /\ (cover.timer # Off \/ "current" \in cover.fired)
          BY <1>1, <1>6, <3>1, <3>2, Known DEF Follows, Punctual, IsArmed
        <5>2. 0 <= Remaining(cover) /\ Remaining(cover) \in Int
          BY <1>1, <5>1, Numbers, DurationStays, SMT DEF OnTime
        <5>3. 0 <= cover.clock
          BY <1>1, <3>3, <4>3, Ages, Times, SMT DEF Least
        <5>4. /\ Remaining(cover) = Duration(cover) - StopOffset(cover) - cover.clock
              /\ Remaining(cover') = Duration(cover) - StopOffset(cover) - 0
          BY <3>2 DEF Remaining, Duration, StopOffset
        <5>5. Duration(cover) \in Int /\ StopOffset(cover) \in Int
          BY <1>1, DurationStays, Times, SMT DEF StopOffset
        <5>6. 0 <= Remaining(cover')
          BY <1>1, <5>2, <5>3, <5>4, <5>5, Numbers, SMT
        <5> QED
          BY <1>1, <3>2, <5>6, ArmedOnTime
      <4> QED
        BY <4>2, <4>3 DEF Prompt
    <3>7. ~StopWritten' /\ ~Unwritten'
      BY <3>2 DEF StopWritten, Unwritten
    <3>8. AtRest' /\ OnItsWay'
      BY <1>1, <1>2, <1>6, <3>2, <3>4, <3>7 DEF AtRest, OnItsWay
    <3> QED
      BY <3>5, <3>6, <3>8 DEF Follows
  <2> QED
    BY <2>2, <2>3, <2>4
<1>7. CASE cover.moving = "none"
  <2>1. cover.pos = EndStopOf(d) /\ cover.pos # Unknown
    BY <1>1, <1>7 DEF d, Follows, AtRest
  <2>2. CASE cover' = cover
    <3>1. AtRest'
      BY <1>1, <1>2, <2>1, <2>2 DEF AtRest
    <3> QED
      BY <1>1, <1>7, <2>2, <3>1, Rests
  <2>3. CASE cover' = Handle(cover, d)
    <3>1. cover.ownCommand # "none" \/ cover.ownAt = Off
      BY <1>1, <1>7 DEF Phases, MotorIsSound
    <3>2. ~IsEcho(cover, d)
      BY <1>2, <3>1 DEF IsEcho
    <3>3. cover' = Start(cover, d, NoTarget, 0)
      BY <1>1, <1>2, <1>7, <2>3, <3>2, HandleDoes
    <3>4. Over(cover')
      BY <1>1, <1>2, <1>7, <2>1, <3>3, NoTargetIsInt, StartDoes
    <3>5. Begun(cover', d, NoTarget, 0) \/ cover'.pos = EndStopOf(d)
      BY <1>1, <1>2, <2>1, <3>3, NoTargetIsInt, StartDoes
    <3>6. cover'.moving = "none" /\ cover'.stop = NoStop /\ cover'.pos = EndStopOf(d)
      BY <1>2, <3>4, <3>5 DEF Begun, Over
    <3>7. AtRest'
      BY <1>1, <1>2, <2>1, <3>6 DEF AtRest
    <3> QED
      BY <3>6, <3>7, Rests
  <2> QED
    BY <1>1, <2>2, <2>3
<1> QED
  BY <1>6, <1>7

--------------------------------------------------------------------------
(* The motor halts                                                         *)

\* A run that the actuator says is over has brought the shutter to its end stop, and the
\* estimate near it.
LEMMA EndsAtHalt ==
  ASSUME Exactly, cover.moving # "none", cover.awaited = 0, Halted
  PROVE  LET p == IF ReachedEndStop(cover) THEN cover.end ELSE Estimate(cover, 0)
         IN  Apart(p, shaft) <= slip /\ p # Unknown
<1> DEFINE k == cover.moving
           p == IF ReachedEndStop(cover) THEN cover.end ELSE Estimate(cover, 0)
<1>1. /\ MotionInv /\ RangesInv /\ Tame /\ Follows /\ Ranged(cover) /\ k \in Directions
      /\ shaft \in Int /\ slip \in Nat /\ cover.from \in Places
  BY Ages DEF Exactly, RangesInv, Ranged
<1>2. CASE ReachedEndStop(cover)
  <2>1. p = shaft
    BY <1>1, <1>2 DEF ReachedEndStop, Follows, Aims, Tame, Tidy, Halted
  <2>2. shaft # Unknown
    BY <1>1, Ages, SMT DEF Unknown
  <2> QED
    BY <1>1, <2>1, <2>2, SMT DEF Apart, Greatest
<1>3. CASE ~ReachedEndStop(cover)
  <2> DEFINE c == cover.clock
             M == Travel(k, cover.from, c)
  <2>1. c + 0 = c /\ c \in Int /\ c <= Greatest(0, c) /\ Greatest(0, c) \in Int
    BY <1>1, Numbers, SMT DEF Greatest
  <2>2. p = Travel(k, cover.from, Greatest(0, c)) /\ p \in Places
    BY <1>1, <1>3, <2>1, EstimateStays DEF Estimate
  <2>3. Within(k, M, shaft, slip) /\ 0 <= TravelTime(k, p, shaft)
    BY <1>1, <2>2, ToTheEnd DEF Halted, Meant, Clock
  <2>4. 0 <= TravelTime(k, M, p) /\ M \in Int
    BY <1>1, <2>1, <2>2, Further
  <2>5. p \in Int /\ p # Unknown
    BY <2>2, Times, SMT DEF Places, Unknown
  <2> HIDE DEF p, M
  <2>6. Apart(p, shaft) <= slip
    BY <1>1, <2>3, <2>4, <2>5, SMT DEF Within, TravelTime, Apart, Greatest
  <2> QED
    BY <2>5, <2>6 DEF p
<1> QED
  BY <1>2, <1>3

\* The motor halts at the end of its coasting, or at the end stop before: where it was
\* known to come to rest.
LEMMA HaltFollows ==
  ASSUME Exactly, Prompt, MotionInv', RangesInv', exact', MotorStops \/ HitsEndStop PROVE Follows'
<1> DEFINE k == cover.moving
<1>1. /\ MotionInv /\ RangesInv /\ Tame /\ Phases /\ Bounds /\ Follows /\ Shaped(cover) /\ Ranged(cover) /\ Ranged(cover')
      /\ motor' = "none" /\ stopping' = Off
      /\ cover' = Handle(cover, "stop") \/ cover' = cover
      /\ UNCHANGED <<line, wire, shaft, asked, slip>> /\ ~StopOutrun
      /\ shaft \in Places /\ slip \in Nat
  BY Known DEF Exactly, RangesInv, MotorStops, HitsEndStop, Sees, pathVars
<1>2. /\ motor \in Directions /\ motor # "none" /\ starting = NotStarting /\ starting' = NotStarting
      /\ stopping = 0 \/ shaft = EndStopOf(motor)
      /\ stopping = Off => shaft = EndStopOf(motor)
  <2>1. CASE MotorStops
    <3>1. stopping = 0 /\ stopping # Off
      BY <2>1, SMT DEF MotorStops, Off
    <3> QED
      BY <1>1, <2>1, <3>1, Known DEF MotorStops, Tame, OneMotor
  <2>2. CASE HitsEndStop
    BY <1>1, <2>2, Ends DEF HitsEndStop, AtEndStop, Tame, OneMotor
  <2> QED
    BY <2>1, <2>2
<1>3. ~Unwritten
  <2> SUFFICES ASSUME Unwritten PROVE FALSE
    OBVIOUS
  <2>1. wire.id = 0 /\ line # <<>> /\ line[1].kind = cover.moving /\ cover.moving \in Directions
    BY <1>1, Known, Ages DEF Unwritten, Follows, Waits
  <2>2. 1 \in DOMAIN line
    BY <1>1, <2>1, Known, SMT
  <2> QED
    BY <1>1, <1>2, <2>1, <2>2 DEF Turns, Phases, LineIsSound, Fresh
<1>4. Final = shaft /\ Final' = shaft
  <2>1. stopping # Off => Travel(motor, shaft, stopping) = shaft
    BY <1>1, <1>2, Ages, Times, SMT DEF Travel, EndStopOf, Least, Greatest, Places, Directions
  <2> QED
    BY <1>1, <2>1 DEF Final
<1>5. cover.moving # "stop" /\ "stop" \in Frames /\ "stop" \notin Directions
  BY <1>1, Ends DEF Shaped
<1>6. \/ cover' = cover
      \/ cover' = Ignore(cover)
      \/ /\ ~IsEcho(cover, "stop")
         /\ cover' = Finish(cover, IF ReachedEndStop(cover) THEN cover.end ELSE Estimate(cover, 0))
  BY <1>1, <1>5, HandleDoes, StoppedGoes
<1>7. CASE cover.moving = "none"
  <2>1. Apart(cover.pos, shaft) <= slip /\ cover.pos # Unknown
    <3>1. CASE stopping = Off
      <4>1. cover.pos = shaft
        BY <1>1, <1>2, <1>7, <3>1 DEF Follows, AtRest
      <4> QED
        BY <1>1, <1>7, <4>1, Ages, SMT DEF Apart, Greatest, Follows, AtRest
    <3>2. CASE stopping # Off
      BY <1>1, <1>2, <1>4, <1>7, <3>2 DEF Follows, AtRest
    <3> QED
      BY <3>1, <3>2
  <2>2. cover'.moving = "none" /\ cover'.pos = cover.pos /\ (cover'.stop = NoStop \/ cover'.stop = cover.stop)
    <3>1. CASE cover' = Finish(cover, IF ReachedEndStop(cover) THEN cover.end ELSE Estimate(cover, 0))
      <4>1. cover' = Finish(cover, cover.pos)
        BY <1>7, <3>1 DEF ReachedEndStop, Estimate
      <4> QED
        BY <1>1, <4>1, FinishDoes DEF Over
    <3>2. CASE cover' = Ignore(cover)
      BY <1>1, <1>7, <3>2, IgnoreDoes DEF SameButWindow
    <3> QED
      BY <1>6, <1>7, <3>1, <3>2
  <2>3. AtRest'
    BY <1>1, <1>2, <2>1, <2>2 DEF AtRest
  <2> QED
    BY <1>1, <1>7, <2>2, <2>3, Rests
<1>8. CASE cover.moving # "none"
  <2>1. motor = k /\ k \in Directions
    BY <1>1, <1>2, <1>8 DEF Phases, MotorIsSound
  <2>2. ~StopWritten => stopping = Off /\ Tracks /\ shaft = EndStopOf(k)
    BY <1>1, <1>2, <1>8, <2>1 DEF Follows, OnItsWay
  <2>3. CASE /\ ~IsEcho(cover, "stop")
             /\ cover' = Finish(cover, IF ReachedEndStop(cover) THEN cover.end ELSE Estimate(cover, 0))
    <3> DEFINE p == IF ReachedEndStop(cover) THEN cover.end ELSE Estimate(cover, 0)
    <3>1. Over(cover') /\ cover'.pos = IF p = Unknown THEN cover.pos ELSE p
      BY <1>1, <2>3, FinishDoes
    <3>2. cover'.moving = "none" /\ cover'.stop = NoStop /\ cover.stop = NoStop
      BY <1>1, <3>1 DEF Over, StopOutrun
    <3>3. Tracks /\ shaft = EndStopOf(k)
      BY <2>2, <3>2 DEF StopWritten
    <3>4. cover.awaited = 0 /\ Clock = cover.clock
      BY <1>1, <2>3 DEF Follows, Waits, IsEcho, Clock
    <3>5. Apart(p, shaft) <= slip /\ p # Unknown
      <4>1. Halted
        BY <3>3, <3>4 DEF Tracks, Halted
      <4> QED
        BY <1>8, <3>4, <4>1, EndsAtHalt
    <3> HIDE DEF p
    <3>6. AtRest'
      BY <1>1, <1>2, <3>1, <3>2, <3>5 DEF AtRest
    <3> QED
      BY <3>2, <3>6, Rests
  <2>4. CASE cover' = cover \/ cover' = Ignore(cover)
    <3>1. /\ Estimates(cover, cover') /\ SameTimer(cover, cover')
          /\ cover'.recheck = cover.recheck \/ cover'.recheck = RecheckDelay
          /\ cover.ownCommand # "none" /\ cover.awaited # 0 => cover'.ownAt = cover.ownAt
      BY <1>1, <2>4, IgnoreGoes, IgnoreDoes DEF Estimates, SameTimer
    <3>2. /\ cover'.moving = cover.moving /\ cover'.from = cover.from /\ cover'.clock = cover.clock
          /\ cover'.target = cover.target /\ cover'.end = cover.end /\ cover'.pos = cover.pos
          /\ cover'.awaited = cover.awaited /\ cover'.stop = cover.stop /\ cover'.written = cover.written
          /\ cover'.ownFreeRun = cover.ownFreeRun /\ cover'.ownCommand = cover.ownCommand
          /\ cover'.afterRestart = cover.afterRestart
      BY <3>1 DEF Estimates
    <3>3. Aims(cover') /\ Planned(cover')
      BY <1>1, <3>2 DEF Follows, Aims, Planned, Duration
    <3>4. Waits'
      BY <1>1, <3>1, <3>2 DEF Follows, Waits
    <3>5. StopAge' /\ (StopWritten' <=> StopWritten) /\ ~Unwritten' /\ AtRest'
      BY <1>1, <1>3, <1>8, <3>2 DEF Follows, StopAge, StopWritten, Unwritten, AtRest
    <3>6. Punctual'
      <4>1. Remaining(cover') = Remaining(cover)
        BY <3>2 DEF Duration, Remaining, StopOffset
      <4> QED
        BY <1>1, <3>1, <3>2, <4>1 DEF SameTimer, Follows, Punctual, OnTime
    <3>7. Freeze' = Freeze /\ Clock' = Clock
      BY <1>1, <3>2 DEF Freeze, Clock, Shown, Meant
    <3>8. ~StopWritten => Halted'
      BY <1>1, <2>2, <3>2, <3>7 DEF Tracks, Halted, Meant
    <3>9. StopWritten => StopsRun'
      <4>1. ~(RecheckDelay + wire.age <= MaxLag)
        BY <1>1, Ages, Times, SMT DEF Prompt
      <4> QED
        BY <1>1, <1>2, <1>4, <1>8, <3>1, <3>2, <3>7, <4>1 DEF Follows, OnItsWay, StopsRun
    <3>10. OnItsWay'
      BY <1>1, <1>2, <3>5, <3>8, <3>9 DEF OnItsWay
    <3> QED
      BY <3>3, <3>4, <3>5, <3>6, <3>10 DEF Follows
  <2> QED
    BY <1>6, <2>3, <2>4
<1> QED
  BY <1>7, <1>8

--------------------------------------------------------------------------
(* The actuator answers                                                    *)

\* What the actuator says of itself is what the estimate has come to.
LEMMA AnswerFollows ==
  ASSUME Exactly, Prompt, MotionInv', RangesInv', StatusAnswer PROVE Follows'
<1>1. /\ MotionInv /\ RangesInv /\ Tame /\ Phases /\ Bounds /\ Follows /\ Shaped(cover) /\ Ranged(cover) /\ Ranged(cover')
      /\ asked /\ ~asked'
      /\ cover' = Handle(cover, Status) \/ cover' = cover
      /\ UNCHANGED <<line, wire, motor, shaft, starting, stopping, slip>>
      /\ shaft \in Places /\ slip \in Nat
  BY Known DEF Exactly, RangesInv, StatusAnswer, Sees, pathVars, actuatorVars
<1>2. /\ starting = NotStarting /\ NoTurns /\ (cover.moving # "none" => motor = "none")
      /\ motor \in Directions \cup {"none"}
  BY <1>1, Known DEF Phases, RecheckIsSound, Still
<1>3. cover.moving # "stop" /\ "stop" \in Frames /\ "stop" \notin Directions
  BY <1>1, Ends DEF Shaped
<1>4. CASE cover' = cover
  <2>1. Estimates(cover, cover') /\ Punctual'
    BY <1>1, <1>4 DEF Estimates, Follows, Punctual
  <2> QED
    BY <1>1, <1>2, <1>4, <2>1, NothingMoves DEF Follows, AtRest, OnItsWay, StopsRun
<1>5. CASE cover' = Ignore(cover)
  BY <1>1, <1>5, IgnoreFollows
<1>6. CASE motor = "none" /\ cover' # cover /\ cover' # Ignore(cover)
  <2> DEFINE k == cover.moving
             p == IF ReachedEndStop(cover) THEN cover.end ELSE Estimate(cover, 0)
  <2>1. ~IsEcho(cover, "stop") /\ cover' = Finish(cover, p)
    BY <1>1, <1>3, <1>6, HandleDoes, StoppedGoes DEF Status
  <2>2. Over(cover') /\ cover'.pos = IF p = Unknown THEN cover.pos ELSE p
    BY <1>1, <2>1, FinishDoes
  <2>3. cover'.moving = "none" /\ cover'.stop = NoStop
    BY <2>2 DEF Over
  <2>4. Apart(p, shaft) <= slip /\ p # Unknown
    <3>1. CASE cover.moving = "none"
      <4>1. p = cover.pos
        BY <3>1 DEF ReachedEndStop, Estimate
      <4> QED
        BY <1>1, <1>2, <1>6, <3>1, <4>1 DEF Follows, AtRest
    <3>2. CASE cover.moving # "none"
      <4>1. cover.awaited = 0 /\ Clock = cover.clock /\ ~Unwritten /\ k \in Directions
        BY <1>1, <2>1, <3>2, Ages DEF Follows, Waits, IsEcho, Clock, Unwritten
      <4>2. Halted
        BY <1>1, <1>2, <1>6, <3>2, <4>1 DEF Follows, OnItsWay, StopsRun
      <4> QED
        BY <3>2, <4>1, <4>2, EndsAtHalt
    <3> QED
      BY <3>1, <3>2
  <2> HIDE DEF p
  <2>5. AtRest'
    BY <1>1, <1>2, <1>6, <2>2, <2>3, <2>4 DEF AtRest
  <2> QED
    BY <2>3, <2>5, Rests
<1>7. CASE motor # "none" /\ cover' # cover /\ cover' # Ignore(cover)
  <2>1. cover.moving = "none" /\ motor \in Directions /\ Status = motor
    BY <1>2, <1>7 DEF Status
  <2>2. stopping = Off /\ cover.pos = EndStopOf(motor) /\ cover.pos # Unknown
    BY <1>1, <1>7, <2>1 DEF Follows, AtRest
  <2>3. ~IsEcho(cover, motor)
    BY <1>1, <1>7, <2>1, Ends, HandleDoes
  <2>4. cover' = Start(cover, motor, NoTarget, 0)
    BY <1>1, <1>7, <2>1, <2>3, Ends, HandleDoes
  <2>5. Over(cover')
    BY <1>1, <2>1, <2>2, <2>4, NoTargetIsInt, StartDoes
  <2>6. Begun(cover', motor, NoTarget, 0) \/ cover'.pos = EndStopOf(motor)
    BY <1>1, <2>1, <2>2, <2>4, NoTargetIsInt, StartDoes
  <2>7. cover'.moving = "none" /\ cover'.stop = NoStop /\ cover'.pos = EndStopOf(motor)
    BY <1>7, <2>5, <2>6 DEF Begun, Over
  <2>8. AtRest'
    BY <1>1, <1>2, <1>7, <2>2, <2>7 DEF AtRest
  <2> QED
    BY <2>7, <2>8, Rests
<1> QED
  BY <1>4, <1>5, <1>6, <1>7

--------------------------------------------------------------------------
(* Time passes                                                             *)

\* What a tick does to what surrounds the record, and what it waits for.
LEMMA TickAround == ASSUME MotionInv, RangesInv, Tick
  PROVE /\ UNCHANGED <<line, motor, asked, slip>>
        /\ wire'.id = wire.id /\ wire'.kind = wire.kind
        /\ wire = Idle => wire' = Idle
        /\ wire # Idle => wire' # Idle /\ wire'.age = wire.age + 1 /\ wire'.age <= MaxLag
        /\ shaft' = IF motor = "none" THEN shaft ELSE Travel(motor, shaft, 1)
        /\ starting' = NotStarting <=> starting = NotStarting
        /\ starting'.dir = starting.dir
        /\ starting # NotStarting => starting'.age = starting.age + 1
        /\ stopping = Off => stopping' = Off
        /\ stopping # Off => stopping' = stopping - 1 /\ stopping' # Off /\ stopping - 1 \in Nat
        /\ cover.recheck = Off => cover'.recheck = Off
        /\ cover.recheck # Off => cover'.recheck = cover.recheck - 1
        /\ cover.timer # 0 /\ cover.fired = {}
<1>1. wire \in [id: Nat, kind: Frames \cup {"none"}, age: Int]
  BY DEF MotionInv, PathInv
<1>2. starting \in [dir: Directions \cup {"none"}, age: Int]
  BY DEF MotionInv, ActuatorInv
<1>3. /\ UNCHANGED <<line, motor, asked, slip>>
      /\ shaft' = IF motor = "none" THEN shaft ELSE Travel(motor, shaft, 1)
      /\ cover.timer # 0 /\ cover.fired = {} /\ cover.recheck # 0 /\ stopping # 0
      /\ wire # Idle => ~(wire.age >= MaxLag)
      /\ wire' = IF wire = Idle THEN Idle ELSE [wire EXCEPT !.age = @ + 1]
      /\ starting' = IF starting = NotStarting THEN starting ELSE [starting EXCEPT !.age = @ + 1]
      /\ stopping' = Down(stopping)
  BY DEF Tick, Due
<1>4. /\ wire'.id = wire.id /\ wire'.kind = wire.kind
      /\ wire # Idle => wire'.age = wire.age + 1
  BY <1>1, <1>3, SMT
<1>5. wire # Idle => wire' # Idle /\ wire'.age <= MaxLag
  <2>1. wire # Idle => wire.id # 0
    BY DEF MotionInv, PathInv
  <2>2. wire # Idle => wire' # Idle
    BY <1>4, <2>1 DEF Idle
  <2> QED
    BY <1>3, <1>4, <2>2, Ages, Times, SMT
<1>6. /\ starting'.dir = starting.dir
      /\ starting # NotStarting => starting'.age = starting.age + 1
  BY <1>2, <1>3, SMT
<1>7. starting # NotStarting => starting' # NotStarting
  <2>1. starting # NotStarting => starting.dir \in Directions
    BY Known
  <2> QED
    BY <1>6, <2>1, Ends DEF NotStarting
<1>8. /\ stopping = Off => stopping' = Off
      /\ stopping # Off => stopping' = stopping - 1 /\ stopping' # Off /\ stopping - 1 \in Nat
  BY <1>3, Ages, SMT DEF Down, Off
<1>9. /\ cover.recheck = Off => cover'.recheck = Off
      /\ cover.recheck # Off => cover'.recheck = cover.recheck - 1
  BY TickDoes, SMT DEF Down, Off
<1> QED
  BY <1>3, <1>4, <1>5, <1>6, <1>7, <1>8, <1>9

\* One tick is one more of the way, as it is meant, and no more of it as it is shown.
LEMMA WayMoves ==
  ASSUME NEW k \in Directions, NEW a \in Places, NEW c \in Int, c <= Horizon
  PROVE  /\ Travel(k, a, Least(c + 1, Horizon)) = Travel(k, Travel(k, a, c), 1)
         /\ 0 <= TravelTime(k, Travel(k, a, Greatest(0, Least(c + 1, Horizon))),
                               Travel(k, Travel(k, a, Greatest(0, c)), 1))
<1>1. /\ c + 1 \in Int /\ Greatest(0, c) \in Int /\ Greatest(0, c) + 1 \in Int /\ a \in Int
      /\ Greatest(0, Least(c + 1, Horizon)) \in Int
      /\ Greatest(0, Least(c + 1, Horizon)) <= Greatest(0, c) + 1
  BY Times, SMT DEF Least, Greatest, Places
<1>2. /\ Travel(k, Travel(k, a, c), 1) = Travel(k, a, c + 1)
      /\ Travel(k, Travel(k, a, Greatest(0, c)), 1) = Travel(k, a, Greatest(0, c) + 1)
  BY <1>1, Onwards
<1>3. Travel(k, a, Least(c + 1, Horizon)) = Travel(k, a, c + 1)
  <2>1. CASE c + 1 <= Horizon
    BY <2>1 DEF Least
  <2>2. CASE ~(c + 1 <= Horizon)
    <3>1. Least(c + 1, Horizon) = Horizon /\ Horizon >= Full /\ c + 1 >= Full /\ Horizon \in Int
      BY <1>1, <2>2, Times, SMT DEF Least
    <3> QED
      BY <1>1, <3>1, ToTheEnd
  <2> QED
    BY <2>1, <2>2
<1>4. 0 <= TravelTime(k, Travel(k, a, Greatest(0, Least(c + 1, Horizon))),
                          Travel(k, a, Greatest(0, c) + 1))
  BY <1>1, Further
<1> QED
  BY <1>2, <1>3, <1>4

\* The clock of a run goes on with the time, unless its frame is still in the queue.
LEMMA ClockMoves == ASSUME MotionInv, RangesInv, Bounds, Tick, cover.moving # "none"
  PROVE /\ Clock \in Int /\ Clock <= Horizon /\ (cover.awaited = 0 => Clock = cover.clock)
        /\ ~Unwritten => Clock' = Least(Clock + 1, Horizon)
<1>1. /\ Ranged(cover) /\ wire.age <= MaxLag
      /\ cover'.awaited = cover.awaited /\ cover'.clock = Least(cover.clock + 1, Horizon)
  BY TickDoes DEF RangesInv, Bounds
<1>2. CASE cover.awaited = 0
  BY <1>1, <1>2, Numbers DEF Clock, Unwritten
<1>3. CASE cover.awaited # 0
  <2>1. Clock = wire.age - StartDelay /\ Clock' = wire'.age - StartDelay
    BY <1>1, <1>3 DEF Clock
  <2>2. ~Unwritten => wire'.age = wire.age + 1 /\ wire'.age <= MaxLag
    BY <1>3, TickAround DEF Unwritten
  <2>3. Clock \in Int /\ Clock <= Horizon
    BY <1>1, <2>1, Ages, Times, SMT
  <2>4. ~Unwritten => Clock' = Least(Clock + 1, Horizon)
    BY <1>1, <2>1, <2>2, Ages, Times, SMT DEF Least
  <2> QED
    BY <1>3, <2>3, <2>4
<1> QED
  BY <1>2, <1>3

\* Where the shutter comes to rest does not change on its way there, ...
LEMMA FinalStays == ASSUME MotionInv, RangesInv, Tick, motor = "none" \/ stopping # Off
  PROVE Final' = Final
<1>1. CASE motor = "none"
  BY <1>1, TickAround DEF Final
<1>2. CASE motor # "none" /\ stopping # Off
  <2>1. /\ motor' = motor /\ stopping' = stopping - 1 /\ stopping' # Off /\ stopping - 1 \in Nat
        /\ shaft' = Travel(motor, shaft, 1) /\ motor \in Directions
    BY <1>2, TickAround, Ages
  <2>2. Travel(motor, Travel(motor, shaft, 1), stopping - 1) = Travel(motor, shaft, 1 + (stopping - 1))
    BY <2>1, Ages, Onwards
  <2>3. 1 + (stopping - 1) = stopping
    BY Ages, SMT
  <2> QED
    BY <1>2, <2>1, <2>2, <2>3 DEF Final
<1> QED
  BY <1>1, <1>2

\* ... and neither does what the report of its stop will freeze.
LEMMA FreezeStays == ASSUME MotionInv, RangesInv, Bounds, Tick, cover.moving # "none", StopWritten
  PROVE Freeze' = Freeze
<1> DEFINE k == cover.moving
           x == cover.clock + StopLatency - wire.age
           y == cover'.clock + StopLatency - wire'.age
<1>1. /\ Ranged(cover) /\ k \in Directions /\ cover.from \in Places
      /\ cover'.clock = Least(cover.clock + 1, Horizon) /\ cover'.from = cover.from /\ cover'.moving = k
  BY TickDoes, TickGoes, Ages DEF RangesInv, Ranged
<1>2. wire # Idle /\ wire'.age = wire.age + 1 /\ wire'.age <= MaxLag
  <2>1. wire # Idle
    BY Known DEF StopWritten
  <2> QED
    BY <2>1, TickAround
<1>3. /\ Freeze = Travel(k, cover.from, Greatest(0, x))
      /\ Freeze' = Travel(k, cover.from, Greatest(0, y))
  BY <1>1 DEF Freeze, Shown, Meant
<1>4. CASE x = y
  BY <1>3, <1>4
<1>5. CASE x # y
  <2>1. /\ Greatest(0, x) \in Int /\ Greatest(0, x) >= Full
        /\ Greatest(0, y) \in Int /\ Greatest(0, y) >= Full
    BY <1>1, <1>2, <1>5, Numbers, Ages, Times, SMT DEF Least, Greatest
  <2> QED
    BY <1>1, <1>3, <2>1, ToTheEnd
<1> QED
  BY <1>4, <1>5

\* The frame of a run, the plan of its stop and its deadline, as time passes.
LEMMA TickKeepsPlan == ASSUME Exactly, Tick
  PROVE Aims(cover') /\ Waits' /\ Planned(cover') /\ StopAge' /\ Punctual'
<1>1. /\ MotionInv /\ RangesInv /\ Bounds /\ Follows /\ Ranged(cover) /\ wire.age <= MaxLag
      /\ cover'.moving = cover.moving /\ cover'.from = cover.from /\ cover'.target = cover.target
      /\ cover'.end = cover.end /\ cover'.pos = cover.pos /\ cover'.awaited = cover.awaited
      /\ cover'.ownCommand = cover.ownCommand /\ cover'.ownFreeRun = cover.ownFreeRun
      /\ cover'.stop.frame = cover.stop.frame /\ cover'.stop.interrupted = cover.stop.interrupted
      /\ cover'.stop = NoStop <=> cover.stop = NoStop
      /\ UNCHANGED line /\ wire'.id = wire.id /\ wire'.kind = wire.kind
  BY TickDoes, TickGoes, TickAround DEF Exactly, RangesInv, Bounds
<1>2. cover.moving # "none" => /\ cover'.clock = Least(cover.clock + 1, Horizon)
                               /\ cover.clock <= cover'.clock /\ cover'.clock \in Int
  <2>1. cover.moving # "none" => cover'.clock = Least(cover.clock + 1, Horizon)
    BY <1>1, TickDoes
  <2> QED
    BY <1>1, <2>1, Numbers, Times, SMT DEF Least
<1>3. Aims(cover')
  BY <1>1 DEF Follows, Aims, Duration
<1>4. Waits'
  <2> SUFFICES ASSUME cover.awaited # 0 PROVE Waits'
    BY <1>1 DEF Waits
  <2>1. /\ cover.ownCommand # "none" /\ cover.ownAt # Off /\ cover.written = Off /\ cover.moving # "none"
        /\ \/ wire = Idle /\ line # <<>> /\ line[1] = [id |-> cover.awaited, kind |-> cover.moving]
           \/ wire.id = cover.awaited /\ cover.clock >= wire.age - StartDelay
    BY <1>1, Known DEF Follows, Waits
  <2>2. cover'.ownAt # Off /\ cover'.written = Off
    BY <1>1, <2>1, TickDoes, Aging DEF Ranged
  <2>3. CASE wire = Idle /\ line # <<>> /\ line[1] = [id |-> cover.awaited, kind |-> cover.moving]
    BY <1>1, <2>1, <2>2, <2>3, TickAround DEF Waits
  <2>4. CASE wire.id = cover.awaited /\ cover.clock >= wire.age - StartDelay
    <3>1. wire # Idle
      BY <1>1, <2>4, Known
    <3>2. wire'.age = wire.age + 1 /\ wire'.age <= MaxLag
      BY <1>1, <3>1, TickAround DEF Exactly
    <3>3. cover'.clock >= wire'.age - StartDelay
      <4>1. cover'.clock = Least(cover.clock + 1, Horizon) /\ cover.clock \in Int /\ wire.age \in Nat
        BY <1>1, <1>2, <2>1, Numbers, Ages
      <4> QED
        BY <2>4, <3>2, <4>1, Times, SMT DEF Least
    <3> QED
      BY <1>1, <2>1, <2>2, <2>4, <3>3 DEF Waits
  <2> QED
    BY <2>1, <2>3, <2>4
<1>5. cover.stop # NoStop =>
        /\ cover'.stop.frozen = cover.stop.frozen /\ cover'.stop.base = cover.stop.base
        /\ cover'.stop.rebased = cover.stop.rebased
        /\ cover'.stop.age = Least(cover.stop.age + 1, Horizon)
  BY <1>1, TickGoes DEF Exactly
<1>6. Planned(cover')
  <2> SUFFICES ASSUME cover.stop # NoStop PROVE Planned(cover')
    BY <1>1 DEF Planned
  <2> DEFINE b == cover.stop.base
             a == cover.stop.age
             e == cover'.stop.age
             c == cover.clock
             d == cover'.clock
  <2>1. /\ a <= Horizon /\ e = Least(a + 1, Horizon)
        /\ cover.moving # "none" => d = Least(c + 1, Horizon) /\ b >= -StartDelay
    BY <1>1, <1>2, <1>5 DEF Follows, Planned
  <2>2. a \in Nat /\ b \in Int /\ c \in Int /\ c <= Horizon
    BY <1>1, Numbers
  <2>3. e <= Horizon /\ a <= e /\ e \in Int
    BY <2>1, <2>2, Times, SMT DEF Least
  <2> HIDE DEF a, b, c, d, e
  <2>4. ASSUME cover.moving # "none", b + a = c + StopLatency
        PROVE  b + e = d + StopLatency \/ (b + e >= Full + MaxLag /\ d + StopLatency >= Full + MaxLag)
    BY <2>1, <2>2, <2>3, <2>4, Times, SMT DEF Least
  <2>5. ASSUME cover.moving # "none", b + a >= Full + MaxLag, c + StopLatency >= Full + MaxLag
        PROVE  b + e >= Full + MaxLag /\ d + StopLatency >= Full + MaxLag
    BY <2>1, <2>2, <2>3, <2>5, Times, SMT DEF Least
  <2>6. ASSUME cover.moving # "none", ~cover.stop.rebased
        PROVE  b + e = d + StopLatency \/ (b + e >= Full + MaxLag /\ d + StopLatency >= Full + MaxLag)
    BY <1>1, <2>4, <2>5, <2>6 DEF Follows, Planned, a, b, c
  <2> QED
    BY <1>1, <1>5, <2>3, <2>6 DEF Follows, Planned, b, d, e
<1>7. StopAge'
  <2> SUFFICES ASSUME StopWritten PROVE StopAge'
    BY <1>1 DEF StopAge, StopWritten
  <2>1. cover.stop.age >= wire.age /\ wire.kind = "stop" /\ cover.awaited = 0 /\ cover.stop # NoStop
    BY <1>1 DEF Follows, StopAge, StopWritten
  <2>2. wire # Idle
    BY <1>1, Known DEF StopWritten
  <2>3. wire'.age = wire.age + 1 /\ wire'.age <= MaxLag
    BY <1>1, <2>2, TickAround DEF Exactly
  <2>4. cover'.stop.age >= wire'.age
    BY <1>1, <1>5, <2>1, <2>3, Numbers, Ages, Times, SMT DEF Least
  <2> QED
    BY <1>1, <2>1, <2>4 DEF StopAge
<1>8. Punctual'
  <2> SUFFICES ASSUME cover.moving # "none", cover.stop = NoStop, cover.target # NoTarget,
                      cover.awaited = 0 \/ cover'.clock < 1 - StopLatency
               PROVE  OnTime(cover')
    BY <1>1 DEF Punctual
  <2>1. cover.awaited = 0 \/ cover.clock < 1 - StopLatency
    BY <1>1, <1>2, Numbers, Times, SMT
  <2>2. cover.timer # Off => cover.timer = Remaining(cover)
    BY <1>1, <2>1 DEF Follows, Punctual, OnTime
  <2>3. /\ cover'.timer = Down(cover.timer) /\ cover'.fired = {} /\ cover.timer # 0
    BY <1>1, TickGoes, TickAround DEF Exactly
  <2>4. /\ Remaining(cover) = Duration(cover) - StopOffset(cover) - cover.clock
        /\ Remaining(cover') = Duration(cover) - StopOffset(cover) - cover'.clock
    BY <1>1 DEF Remaining, Duration, StopOffset
  <2>5. Duration(cover) \in Int /\ StopOffset(cover) \in Nat /\ Duration(cover) <= Full
    BY <1>1, Numbers, Times, SMT DEF StopOffset, Duration, TravelTime
  <2>6. cover'.timer # Off => cover'.timer = Remaining(cover')
    BY <1>1, <1>2, <2>2, <2>3, <2>4, <2>5, Numbers, Times, SMT DEF Down, Off, Least
  <2> QED
    BY <2>3, <2>6 DEF OnTime
<1> QED
  BY <1>3, <1>4, <1>6, <1>7, <1>8

\* A shutter at its end stop stays there, and the estimate comes nearer.
LEMMA HaltStays ==
  ASSUME MotionInv, RangesInv, Bounds, Tick, cover.moving # "none", motor = "none", Halted, ~Unwritten
  PROVE  Halted'
<1> DEFINE k == cover.moving
           c == Clock
           e == Least(c + 1, Horizon)
           M == Travel(k, cover.from, c)
           N == Travel(k, cover.from, e)
<1>1. /\ k \in Directions /\ cover.from \in Places /\ shaft' = shaft /\ slip' = slip
      /\ shaft \in Int /\ slip \in Nat
      /\ cover'.moving = k /\ cover'.from = cover.from /\ Clock' = e /\ c \in Int /\ c <= Horizon
  BY TickDoes, TickGoes, TickAround, ClockMoves, Ages DEF RangesInv, Ranged
<1>2. shaft = EndStopOf(k) /\ Within(k, M, shaft, slip)
  BY DEF Halted, Meant
<1> HIDE DEF c
<1>3. e \in Int /\ c <= e
  BY <1>1, Times, SMT DEF Least
<1>4. M \in Int /\ N \in Int /\ 0 <= TravelTime(k, M, N)
  BY <1>1, <1>3, Further
<1>5. Halted' <=> (shaft = EndStopOf(k) /\ Within(k, N, shaft, slip))
  BY <1>1 DEF Halted, Meant
<1> HIDE DEF M, N
<1>6. Within(k, N, shaft, slip)
  BY <1>1, <1>2, <1>4, SMT DEF Within, TravelTime
<1> QED
  BY <1>2, <1>5, <1>6

\* The motor and the clock go on together.
LEMMA TrackStays ==
  ASSUME MotionInv, RangesInv, Bounds, Tick, cover.moving # "none", motor = cover.moving, Tracks, ~Unwritten
  PROVE  Tracks'
<1> DEFINE k == cover.moving
           c == Clock
           e == Least(c + 1, Horizon)
           S == Travel(k, cover.from, Greatest(0, c))
           T == Travel(k, cover.from, Greatest(0, e))
           X == Travel(k, shaft, 1)
<1>1. /\ k \in Directions /\ k # "none" /\ cover.from \in Places /\ slip' = slip /\ shaft' = X
      /\ shaft \in Int /\ slip \in Nat
      /\ cover'.moving = k /\ cover'.from = cover.from /\ Clock' = e /\ c \in Int /\ c <= Horizon
  BY TickDoes, TickGoes, TickAround, ClockMoves, Ages DEF RangesInv, Ranged
<1>2. /\ Within(k, Travel(k, cover.from, c), shaft, slip)
      /\ Within(k, shaft, S, slip)
  BY DEF Tracks, Meant, Shown
<1>3. Tracks' <=> Within(k, Travel(k, cover.from, e), X, slip) /\ Within(k, X, T, slip)
  BY <1>1 DEF Tracks, Meant, Shown
<1> HIDE DEF c
<1>4. /\ Travel(k, cover.from, e) = Travel(k, Travel(k, cover.from, c), 1)
      /\ 0 <= TravelTime(k, T, Travel(k, S, 1))
  BY <1>1, WayMoves
<1>5. /\ Travel(k, cover.from, c) \in Int /\ S \in Int /\ T \in Int /\ X \in Int
      /\ Travel(k, S, 1) \in Int
  BY <1>1, Times, SMT DEF Travel, Least, Greatest, Places
<1>6. Within(k, Travel(k, cover.from, e), X, slip)
  BY <1>1, <1>2, <1>4, <1>5, Together
<1>7. Within(k, X, Travel(k, S, 1), slip)
  BY <1>1, <1>2, <1>5, Together
<1> HIDE DEF S, T, X
<1>8. Within(k, X, T, slip)
  BY <1>1, <1>4, <1>5, <1>7, SMT DEF Within, TravelTime
<1> QED
  BY <1>3, <1>6, <1>8

\* The motor that is about to start is one tick nearer to it, and so is the clock.
LEMMA StartComes ==
  ASSUME MotionInv, RangesInv, Bounds, Tick, cover.moving # "none", starting # NotStarting,
         motor = "none", Starts, ~Unwritten
  PROVE  Starts'
<1> DEFINE k == cover.moving
           c == cover.clock
           a == starting.age
<1>1. /\ k \in Directions /\ k # "none" /\ cover.from \in Places /\ slip' = slip /\ shaft' = shaft
      /\ shaft \in Places /\ slip \in Nat /\ a \in Nat /\ starting'.age = a + 1 /\ Ranged(cover)
      /\ cover'.moving = k /\ cover'.from = cover.from /\ cover'.awaited = cover.awaited
      /\ cover'.clock = Least(c + 1, Horizon)
      /\ cover'.written = Off <=> cover.written = Off
      /\ Clock' = Least(Clock + 1, Horizon) /\ Clock \in Int /\ Clock <= Horizon
  BY TickDoes, TickGoes, TickAround, ClockMoves, Ages, Aging DEF RangesInv, Ranged
<1>2. CASE cover.awaited # 0 \/ cover.written # Off
  <2>1. Apart(cover.from, shaft) + Jitter <= slip /\ Clock = Least(a - StartDelay, Horizon)
    BY <1>2 DEF Starts
  <2>2. Least(Clock + 1, Horizon) = Least((a + 1) - StartDelay, Horizon)
    BY <1>1, <2>1, Times, SMT DEF Least
  <2> QED
    BY <1>1, <1>2, <2>1, <2>2 DEF Starts
<1>3. CASE cover.awaited = 0 /\ cover.written = Off
  <2> DEFINE M == Travel(k, cover.from, c)
             G == Travel(k, shaft, a - StartDelay)
             N == Travel(k, cover.from, Least(c + 1, Horizon))
             H == Travel(k, shaft, (a + 1) - StartDelay)
  <2>1. c >= 0 /\ a >= StartDelay /\ Apart(M, G) + Jitter <= slip
    BY <1>3 DEF Starts, Meant
  <2>2. /\ c \in Int /\ c <= Horizon /\ a - StartDelay \in Int /\ (a + 1) - StartDelay = (a - StartDelay) + 1
        /\ a + 1 >= StartDelay /\ Least(c + 1, Horizon) >= 0 /\ shaft \in Int
    BY <1>1, <2>1, Numbers, Ages, Times, SMT DEF Least
  <2>3. N = Travel(k, M, 1)
    BY <1>1, <2>2, WayMoves
  <2>4. H = Travel(k, G, 1)
    BY <1>1, <2>2, Onwards
  <2>5. M \in Int /\ G \in Int
    BY <1>1, <2>2, Times, SMT DEF Travel, Least, Greatest, Places
  <2>6. Starts' <=> /\ Least(c + 1, Horizon) >= 0 /\ a + 1 >= StartDelay
                    /\ Apart(N, H) + Jitter <= slip
    BY <1>1, <1>3 DEF Starts, Meant
  <2> HIDE DEF M, G, N, H
  <2>7. slip - Jitter \in Nat /\ Apart(M, G) <= slip - Jitter
    BY <1>1, <2>1, <2>5, Times, SMT DEF Apart, Greatest
  <2>8. Apart(N, H) <= slip - Jitter /\ Apart(N, H) \in Int
    <3>1. Apart(N, H) <= slip - Jitter
      BY <1>1, <2>3, <2>4, <2>5, <2>7, Together
    <3>2. N \in Int /\ H \in Int
      BY <2>3, <2>4, <2>5, Times, SMT DEF Travel, Least, Greatest
    <3> QED
      BY <3>1, <3>2, SMT DEF Apart, Greatest
  <2>9. Apart(N, H) + Jitter <= slip
    BY <1>1, <2>8, Times, SMT
  <2> QED
    BY <2>2, <2>6, <2>9
<1> QED
  BY <1>2, <1>3

\* Time passes: the estimate and the shutter go on together.
LEMMA TickFollows == ASSUME Exactly, Tick PROVE Follows'
<1>1. /\ MotionInv /\ RangesInv /\ Tame /\ Phases /\ Bounds /\ Follows
      /\ cover'.moving = cover.moving /\ cover'.pos = cover.pos /\ cover'.from = cover.from
      /\ cover'.awaited = cover.awaited /\ cover'.afterRestart = cover.afterRestart
      /\ cover'.stop.frame = cover.stop.frame
      /\ cover'.stop = NoStop <=> cover.stop = NoStop
  BY TickDoes, TickGoes DEF Exactly
<1>2. /\ UNCHANGED <<line, motor, asked, slip>> /\ wire'.id = wire.id
      /\ motor = "none" => shaft' = shaft
      /\ starting' = NotStarting <=> starting = NotStarting
      /\ starting'.dir = starting.dir
      /\ stopping = Off => stopping' = Off
      /\ stopping # Off => stopping' = stopping - 1 /\ stopping' # Off /\ stopping - 1 \in Nat
      /\ cover.recheck = Off => cover'.recheck = Off
      /\ cover.recheck # Off => cover'.recheck = cover.recheck - 1
      /\ wire = Idle <=> wire' = Idle
      /\ wire # Idle => wire'.age = wire.age + 1
  BY <1>1, TickAround
<1>3. (StopWritten' <=> StopWritten) /\ (Unwritten' <=> Unwritten)
  BY <1>1, <1>2 DEF StopWritten, Unwritten
<1>4. AtRest'
  <2> SUFFICES ASSUME cover.moving = "none" PROVE AtRest'
    BY <1>1 DEF AtRest
  <2>1. motor # "none" /\ stopping # Off => Final' = Final
    BY <1>1, FinalStays DEF Exactly
  <2>2. stopping # Off /\ cover.recheck # Off /\ cover.recheck > stopping => cover'.recheck > stopping'
    BY <1>1, <1>2, Ages, Numbers, SMT DEF RangesInv
  <2> QED
    BY <1>1, <1>2, <2>1, <2>2 DEF Follows, AtRest
<1>5. ASSUME cover.moving # "none", Unwritten PROVE motor = "none" /\ starting = NotStarting
  <2>1. wire.id = 0 /\ line # <<>> /\ line[1].kind = cover.moving /\ cover.moving \in Directions
    BY <1>1, <1>5, Known, Ages DEF Unwritten, Follows, Waits
  <2>2. 1 \in DOMAIN line
    BY <1>1, <2>1, Known, SMT
  <2> QED
    BY <1>1, <2>1, <2>2 DEF Turns, Phases, LineIsSound, Fresh
<1>6. ASSUME cover.moving # "none" PROVE OnItsWay'
  <2>1. motor # "none" => motor = cover.moving
    BY <1>1, <1>6 DEF Phases, MotorIsSound
  <2>2. StopWritten => StopsRun'
    <3> SUFFICES ASSUME StopWritten PROVE StopsRun'
      OBVIOUS
    <3>1. /\ motor # "none" => stopping # Off
          /\ Apart(Freeze, Final) <= slip
          /\ asked \/ (cover.recheck # Off /\ cover.afterRestart /\ cover.recheck + wire.age <= MaxLag)
               => motor = "none" /\ Halted
      BY <1>1, <1>6 DEF Follows, OnItsWay, StopsRun
    <3>2. Freeze' = Freeze /\ Final' = Final
      BY <1>1, <1>6, <3>1, FreezeStays, FinalStays DEF Exactly
    <3>3. ~Unwritten /\ wire # Idle
      BY <1>1, Known DEF Follows, StopAge, Unwritten, StopWritten
    <3>4. motor = "none" /\ Halted => Halted'
      BY <1>1, <1>6, <3>3, HaltStays DEF Exactly
    <3>5. cover'.recheck # Off /\ cover'.recheck + wire'.age <= MaxLag
            => cover.recheck # Off /\ cover.recheck + wire.age <= MaxLag
      <4>1. cover.recheck \in Int
        BY <1>1, Numbers DEF RangesInv
      <4> QED
        BY <1>1, <1>2, <3>3, <4>1, Ages, Times, SMT
    <3> QED
      BY <1>1, <1>2, <3>1, <3>2, <3>4, <3>5 DEF StopsRun
  <2>3. ~StopWritten /\ Unwritten => Apart(cover.from, shaft') <= slip
    BY <1>1, <1>2, <1>5, <1>6 DEF Follows, OnItsWay
  <2>4. ~StopWritten /\ starting # NotStarting => Starts'
    BY <1>1, <1>5, <1>6, StartComes DEF Follows, OnItsWay, Tame, OneMotor
  <2>5. ~StopWritten /\ motor # "none" => Tracks'
    BY <1>1, <1>5, <1>6, <2>1, TrackStays DEF Follows, OnItsWay
  <2>6. ~StopWritten /\ motor = "none" /\ starting = NotStarting /\ ~Unwritten => Halted'
    BY <1>1, <1>6, HaltStays DEF Follows, OnItsWay
  <2>7. stopping' # Off => StopWritten
    BY <1>1, <1>2, <1>6 DEF Follows, OnItsWay
  <2> QED
    BY <1>1, <1>2, <1>3, <2>2, <2>3, <2>4, <2>5, <2>6, <2>7 DEF OnItsWay
<1>7. cover.moving = "none" => OnItsWay'
  BY <1>1 DEF OnItsWay
<1> QED
  BY <1>4, <1>6, <1>7, TickKeepsPlan DEF Follows

--------------------------------------------------------------------------
(* The theorem                                                             *)

\* It holds initially.
LEMMA FollowInit == MotionInit => FollowInv
<1> SUFFICES ASSUME MotionInit PROVE FollowInv
  OBVIOUS
<1>1. /\ wire = Idle /\ starting = NotStarting /\ stopping = Off /\ motor = "none" /\ slip = 0
      /\ shaft \in 0..Full
  BY DEF MotionInit
<1>2. Bounds
  BY <1>1, Times, SMT DEF Bounds, Idle
<1>3. PICK p \in {shaft, Unknown} : cover = [CoverInit EXCEPT !.pos = p] /\ exact = (p = shaft)
  BY DEF MotionInit
<1>4. /\ cover.moving = "none" /\ cover.pos = p /\ cover.awaited = 0 /\ cover.stop = NoStop
  BY <1>3, SMT DEF CoverInit
<1>5. ASSUME exact PROVE AtRest
  <2>1. cover.pos = shaft /\ shaft \in Int /\ shaft # Unknown
    <3>1. cover.pos = shaft
      BY <1>3, <1>4, <1>5, Zenon
    <3> QED
      BY <1>1, <3>1, Times, SMT DEF Unknown
  <2>2. Apart(cover.pos, shaft) <= slip
    BY <1>1, <2>1, SMT DEF Apart, Greatest
  <2> QED
    BY <1>1, <2>1, <2>2 DEF AtRest
<1>6. Aims(cover) /\ Waits /\ Planned(cover) /\ StopAge /\ Punctual /\ OnItsWay
  BY <1>4 DEF Aims, Waits, Planned, StopAge, StopWritten, Punctual, OnItsWay
<1> QED
  BY <1>2, <1>5, <1>6 DEF FollowInv, Follows

\* Every step keeps it, whatever it is.
LEMMA FollowStep ==
  ASSUME Timed, Prompt, MotionInv, RangesInv, EchoInv, FollowInv, [MotionNext]_motionVars,
         MotionInv', RangesInv'
  PROVE  FollowInv'
<1>1. Tame /\ Bounds /\ (exact => Phases /\ Follows)
  BY DEF EchoInv, FollowInv
<1>2. exact => Exactly
  BY <1>1 DEF Exactly
<1>3. CASE UNCHANGED motionVars
  <2>1. /\ cover' = cover /\ exact' = exact /\ asked' = asked
        /\ UNCHANGED <<line, wire, motor, shaft, starting, stopping, slip>>
    BY <1>3 DEF motionVars
  <2>2. Bounds'
    BY <1>1, <2>1 DEF Bounds
  <2>3. Estimates(cover, cover') /\ (exact => Punctual')
    BY <1>1, <2>1 DEF Estimates, Follows, Punctual
  <2>4. exact => Follows'
    BY <1>1, <2>1, <2>3, NothingMoves DEF Follows, AtRest, OnItsWay, StopsRun
  <2> QED
    BY <2>1, <2>2, <2>4 DEF FollowInv
<1>4. CASE MotionNext
  <2>1. Bounds'
    BY <1>1, <1>4, BoundsStep
  <2>2. ASSUME exact' PROVE Follows'
    <3>1. Exactly
      BY <1>2, <1>4, <2>2, ExactWas
    <3>2. ~DropWritten /\ ~Keypad
      BY <2>2 DEF DropWritten, Keypad, KeypadStops, KeypadMoves
    <3>3. CASE Command \/ TimerFires \/ Deadline \/ EchoRecheck
      BY <2>2, <3>1, <3>3, CommandFollows, DeadlineFollows, RecheckFollows
    <3>4. CASE Write \/ Report \/ Drop \/ Relay
      BY <2>2, <3>1, <3>4, WriteFollows, ReportFollows, DropFollows, RelayFollows
    <3>5. CASE MotorStarts \/ MotorStops \/ HitsEndStop \/ StatusAnswer \/ Tick
      BY <2>2, <3>1, <3>5, StartFollows, HaltFollows, AnswerFollows, TickFollows
    <3> QED
      BY <1>4, <3>2, <3>3, <3>4, <3>5 DEF MotionNext
  <2> QED
    BY <2>1, <2>2 DEF FollowInv
<1> QED
  BY <1>3, <1>4

\* Where everything has come to rest, so has the estimate.
LEMMA FollowInvImplies ==
  MotionInv /\ RangesInv /\ EchoInv /\ FollowInv => EstimateFollowsTheMotor
<1> SUFFICES ASSUME MotionInv, RangesInv, EchoInv, FollowInv, exact, Resting
             PROVE  Apart(cover.pos, shaft) <= slip
  BY DEF EstimateFollowsTheMotor
<1> QED
  BY DEF FollowInv, Follows, AtRest, Resting

\* However long its frames and its stop waited, and also when they were dropped or
\* refused, a movement leaves the position within the jitter of the starts and the
\* coasting of early stops of where the shutter is (_estimate, _apply_movement_delivery,
\* _apply_stop_delivery and _async_movement_timeout in cover.py): for every travel, delay,
\* window and number of frames, where the gateway has answered a write before its movement
\* begins, and the actuator is asked again only after it has obeyed.
THEOREM TheEstimateIsTheMotors ==
  ASSUME Timed, Prompt PROVE MotionSpec => []EstimateFollowsTheMotor
<1>1. MotionSpec => []RangesInv
  BY MotionInvHolds, RangesInit, RangesStep, PTL DEF MotionSpec
<1>2. MotionInv /\ RangesInv /\ EchoInv /\ [MotionNext]_motionVars => EchoInv'
  BY EchoStep
<1>3. MotionSpec => []EchoInv
  BY <1>1, <1>2, MotionInvHolds, EchoInit, PTL DEF MotionSpec
<1>4. MotionInv /\ RangesInv /\ EchoInv /\ FollowInv /\ [MotionNext]_motionVars /\ MotionInv' /\ RangesInv'
        => FollowInv'
  BY FollowStep
<1> QED
  BY <1>1, <1>3, <1>4, MotionInvHolds, FollowInit, FollowInvImplies, PTL DEF MotionSpec
==========================================================================
