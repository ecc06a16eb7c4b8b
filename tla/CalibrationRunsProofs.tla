----------------------- MODULE CalibrationRunsProofs -----------------------
(***************************************************************************)
(* What TLAPS proves of CalibrationRuns, for any covers and any bounds:    *)
(* that one task at a time drives, that a cover that has not settled is    *)
(* driven, that no write begins beside a measured run, that an entity      *)
(* waits for frames of the command path only, and that a run that was cut  *)
(* short after its frame was written is stopped before its cover settles.  *)
(* Every step moves at most one run (RunStep) and at most one frame        *)
(* (LineStep); the invariants are proved of these, not action by action.   *)
(***************************************************************************)
EXTENDS CalibrationRuns, SequenceTheorems, TLAPS

\* The tasks that take the lock: all but the stop beside the conversation's job.
Drivers == Tasks \ {Stopper}
Frame == [kind : Directions \cup {"stop"}, by : Tasks \cup {Nobody}]

\* The types, in the parts that the provers can each do, with what bounds the models.
TasksOK == task \in [Tasks -> TaskType]
EntitiesOK == entity \in [Covers -> EntityType]
LinesOK == line \in [Covers -> Seq(Frame)]
LockOK == lock \in [holder : Drivers \cup {Nobody}, waiters : Seq(Drivers)]
FlagsOK == settled \in [Covers -> BOOLEAN] /\ owed \in [Covers -> BOOLEAN] /\ mixed \in BOOLEAN
RestOK ==
    /\ talk \in SUBSET Covers /\ reload \in Covers \cup {"no", "done"}
    /\ bound \in BoundType /\ others \in 0..bound.others
    /\ writing \in Covers \cup {"no"}
    /\ \A c \in Covers : Newest(c) <= others
\* The stop beside the conversation's job is sent, or there is none.
StopperOK == task[Stopper].pc \in {"idle", "stopping"}
\* Some write of the panel begins.
AWriteBegins == \E c \in Covers, holder \in {{}, talk} : WriteBegins(c, holder)
RunsTypes == TasksOK /\ StopperOK /\ EntitiesOK /\ LinesOK /\ LockOK /\ FlagsOK /\ RestOK

--------------------------------------------------------------------------
(* The entity *)

LEMMA FinishType ==
    ASSUME NEW e \in EntityType, NEW place \in Ends \cup {"between"}
    PROVE  Finish(e, place) \in EntityType
BY DEF Finish, EntityType, CurrentMovementModel

LEMMA StartType ==
    ASSUME NEW e \in EntityType, NEW d \in Directions
    PROVE  Start(e, d, TRUE) \in EntityType /\ Start(e, d, FALSE) \in EntityType
<1>1. EndOf(d) \in Ends \cup {"between"}
  BY DEF EndOf, Ends
<1>2. CASE e.moving = "none" /\ e.place = EndOf(d)
  <2>1. Finish(e, EndOf(d)) \in EntityType
    BY <1>1, FinishType
  <2> QED BY <1>2, <2>1 DEF Start, EntityType
<1>3. CASE ~(e.moving = "none" /\ e.place = EndOf(d))
  BY <1>3 DEF Start, EntityType, CurrentMovementModel
<1> QED BY <1>2, <1>3

LEMMA ContinueType ==
    ASSUME NEW e \in EntityType
    PROVE  Continue(e) \in EntityType
<1>1. e.moving = "none" \/ e.moving \in Directions
  BY DEF EntityType
<1> QED BY <1>1, StartType DEF Continue

LEMMA HeardType ==
    ASSUME NEW e \in EntityType, NEW kind, NEW last, NEW taken
    PROVE  Heard(e, kind, last, taken) \in EntityType
<1> DEFINE fate == IF taken THEN "written" ELSE "dropped"
           known == IF last /\ kind # "stop" THEN [e EXCEPT !.direction = fate] ELSE e
<1>1. known \in EntityType
  BY DEF EntityType
<1> HIDE DEF known
<1>2. [known EXCEPT !.awaited = FALSE] \in EntityType
  BY <1>1 DEF EntityType
<1>3. e.from \in Ends \cup {"between"}
  BY DEF EntityType
<1>4. Finish(known, e.from) \in EntityType
  BY <1>1, <1>3, FinishType
<1>5. [Finish(known, "between") EXCEPT !.stopped = TRUE] \in EntityType
  <2>1. Finish(known, "between") \in EntityType
    BY <1>1, FinishType
  <2> QED BY <2>1 DEF EntityType
<1>6. Continue([known EXCEPT !.pending = FALSE]) \in EntityType
  <2>1. [known EXCEPT !.pending = FALSE] \in EntityType
    BY <1>1 DEF EntityType
  <2> QED BY <2>1, ContinueType
<1> QED BY <1>1, <1>2, <1>4, <1>5, <1>6 DEF Heard, known

\* An entity takes a step with the model it has.
EntityStep ==
    \/ UNCHANGED entity
    \/ \E c \in Covers, e \in EntityType :
          entity' = [entity EXCEPT ![c] = e] /\ e.model = entity[c].model

\* The operators keep the model of the entity.
LEMMA ModelKept ==
    ASSUME NEW e \in EntityType
    PROVE  /\ \A place : Finish(e, place).model = e.model
           /\ \A d : Start(e, d, TRUE).model = e.model /\ Start(e, d, FALSE).model = e.model
           /\ Continue(e).model = e.model
<1>1. \A f \in EntityType : \A place : Finish(f, place).model = f.model
  BY DEF Finish, EntityType
<1>2. \A f \in EntityType : \A d : Start(f, d, TRUE).model = f.model /\ Start(f, d, FALSE).model = f.model
  BY DEF Start, Finish, EntityType
<1>3. \A f \in EntityType : Continue(f).model = f.model
  BY <1>2 DEF Continue
<1> QED BY <1>1, <1>2, <1>3

\* What is heard of a frame, too.
LEMMA HeardModel ==
    ASSUME NEW e \in EntityType, NEW kind, NEW last, NEW taken
    PROVE  Heard(e, kind, last, taken).model = e.model
<1> DEFINE known == IF last /\ kind # "stop"
                    THEN [e EXCEPT !.direction = IF taken THEN "written" ELSE "dropped"] ELSE e
           freed == [known EXCEPT !.pending = FALSE]
<1>1. known \in EntityType /\ known.model = e.model
  BY DEF EntityType
<1> HIDE DEF known
<1>2. freed \in EntityType /\ freed.model = e.model
  BY <1>1 DEF EntityType
<1>3. Continue(freed).model = e.model
  <2> HIDE DEF freed
  <2> QED BY <1>2, ModelKept, Zenon
<1>4. [Finish(known, "between") EXCEPT !.stopped = TRUE].model = e.model
  BY <1>1 DEF Finish, EntityType
<1>5. [known EXCEPT !.awaited = FALSE].model = e.model
  BY <1>1 DEF EntityType
<1>6. Finish(known, e.from).model = e.model
  BY <1>1, ModelKept, Zenon
<1> QED BY <1>1, <1>3, <1>4, <1>5, <1>6 DEF Heard, known

\* What the four ways of commanding a cover do to its entity.
LEMMA CommandedEntity ==
    ASSUME EntitiesOK, NEW c \in Covers, NEW d \in Directions, NEW by,
           \/ DirectionQueued(c, d, by) \/ DirectionRefused(c)
           \/ StopQueued(c, by) \/ StopRefused(c)
    PROVE  EntityStep
<1>0. entity[c] \in EntityType
  BY DEF EntitiesOK
<1>1. CASE DirectionQueued(c, d, by)
  <2> DEFINE s == Start(entity[c], d, TRUE)
  <2>1. s \in EntityType
    BY <1>0, StartType, Zenon
  <2>2. s.model = entity[c].model
    BY <1>0, ModelKept, Zenon
  <2>3. entity' = [entity EXCEPT ![c] = [s EXCEPT !.direction = "queued"]]
    BY <1>1, Zenon DEF DirectionQueued
  <2> HIDE DEF s
  <2>4. [s EXCEPT !.direction = "queued"] \in EntityType /\ [s EXCEPT !.direction = "queued"].model = s.model
    BY <2>1 DEF EntityType
  <2> QED BY <2>1, <2>2, <2>3, <2>4 DEF EntityStep
<1>2. CASE DirectionRefused(c)
  <2> DEFINE e == [entity[c] EXCEPT !.direction = "none"]
  <2>1. e \in EntityType /\ e.model = entity[c].model /\ entity' = [entity EXCEPT ![c] = e]
    BY <1>0, <1>2 DEF DirectionRefused, EntityType, EntitiesOK
  <2> QED BY <2>1 DEF EntityStep
<1>3. CASE StopQueued(c, by)
  <2> DEFINE e == [entity[c] EXCEPT !.pending = TRUE, !.stopped = FALSE]
  <2>1. e \in EntityType /\ e.model = entity[c].model /\ entity' = [entity EXCEPT ![c] = e]
    BY <1>0, <1>3 DEF StopQueued, EntityType, EntitiesOK
  <2> QED BY <2>1 DEF EntityStep
<1>4. CASE StopRefused(c)
  <2> DEFINE e == [entity[c] EXCEPT !.stopped = FALSE]
  <2>1. e \in EntityType /\ e.model = entity[c].model /\ entity' = [entity EXCEPT ![c] = e]
    BY <1>0, <1>4 DEF StopRefused, EntityType, EntitiesOK
  <2> QED BY <2>1 DEF EntityStep
<1> QED BY <1>1, <1>2, <1>3, <1>4

\* A frame that is decided.
LEMMA DecidedEntity ==
    ASSUME EntitiesOK, NEW c \in Covers, NEW taken, Decided(c, taken)
    PROVE  EntityStep
<1> DEFINE f == Head(line[c])
           last == ~\E i \in 2..Len(line[c]) : (line[c][i].kind = "stop") = (f.kind = "stop")
           e == Heard(entity[c], f.kind, last, taken)
<1>1. entity' = [entity EXCEPT ![c] = e]
  BY Zenon DEF Decided
<1>2. entity[c] \in EntityType
  BY DEF EntitiesOK
<1> HIDE DEF f, last
<1>3. e \in EntityType
  BY <1>2, HeardType
<1>4. e.model = entity[c].model
  BY <1>2, HeardModel
<1> HIDE DEF e
<1> QED BY <1>1, <1>3, <1>4, Zenon DEF EntityStep

\* The motor, the estimate and the keypad.
LEMMA PhysicsEntity ==
    ASSUME EntitiesOK, NEW c \in Covers,
           \/ MotorReported(c) \/ EstimateArrives(c)
           \/ \E key \in Directions \cup {"stop"} : Keypad(c, key)
    PROVE  EntityStep
<1>0. entity[c] \in EntityType
  BY DEF EntitiesOK
<1>1. CASE MotorReported(c)
  <2> DEFINE e == [entity[c] EXCEPT !.started = TRUE]
  <2>1. e \in EntityType /\ e.model = entity[c].model /\ entity' = [entity EXCEPT ![c] = e]
    BY <1>0, <1>1 DEF MotorReported, EntityType, EntitiesOK
  <2> QED BY <2>1 DEF EntityStep
<1>2. CASE EstimateArrives(c)
  <2> DEFINE e == Finish(entity[c], EndOf(entity[c].moving))
  <2>1. EndOf(entity[c].moving) \in Ends \cup {"between"}
    BY DEF EndOf, Ends
  <2>2. e \in EntityType /\ e.model = entity[c].model
    BY <1>0, <2>1, FinishType, ModelKept, Zenon
  <2>3. entity' = [entity EXCEPT ![c] = e]
    BY <1>2, Zenon DEF EstimateArrives
  <2> QED BY <2>2, <2>3, Zenon DEF EntityStep
<1>3. ASSUME NEW key \in Directions \cup {"stop"}, Keypad(c, key) PROVE EntityStep
  <2> DEFINE old == entity[c]
             place == IF old.moving = "none" THEN old.place ELSE "between"
  <2>1. old \in EntityType /\ place \in Ends \cup {"between"}
    BY <1>0 DEF EntityType
  <2>2. Finish(old, place) \in EntityType /\ Finish(old, place).model = old.model
    BY <2>1, FinishType, ModelKept, Zenon
  <2>3. key # "stop" => Start(old, key, FALSE) \in EntityType /\ Start(old, key, FALSE).model = old.model
    <3>1. key # "stop" => Start(old, key, FALSE) \in EntityType
      BY <2>1, StartType, Zenon
    <3> QED BY <2>1, <3>1, ModelKept, Zenon
  <2>4. \/ entity' = entity
        \/ entity' = [entity EXCEPT ![c] = IF key = old.moving THEN old
                                           ELSE IF key = "stop" THEN Finish(old, place)
                                           ELSE Start(old, key, FALSE)]
    BY <1>3, Zenon DEF Keypad
  <2>5. PICK e \in EntityType : e.model = old.model /\ entity' \in {entity, [entity EXCEPT ![c] = e]}
    <3>1. CASE key = old.moving
      BY <2>1, <2>4, <3>1
    <3>2. CASE key # old.moving /\ key = "stop"
      BY <2>2, <2>4, <3>2
    <3>3. CASE key # old.moving /\ key # "stop"
      BY <2>3, <2>4, <3>3
    <3> QED BY <3>1, <3>2, <3>3
  <2> QED BY <2>5, Zenon DEF EntityStep
<1> QED BY <1>1, <1>2, <1>3

\* A task that waits for the lock, or has it, commands its cover or leaves the entity alone.
LEMMA DriveEntity ==
    ASSUME TasksOK, EntitiesOK, NEW t \in Tasks, NEW c \in Covers, NEW d \in Directions, NEW prim,
           Drive(t, c, d, prim) \/ Take(t, c, d, prim)
    PROVE  EntityStep
<1>1. ASSUME Drive(t, c, d, prim) PROVE EntityStep
  <2>1. \/ UNCHANGED entity \/ DirectionRefused(c)
        \/ \E dir \in {d, Opposite(d)} : DirectionQueued(c, dir, t)
    BY <1>1, Zenon DEF Drive, Homing, FreeRun, TimedRun, Measuring, Sent
  <2>2. {d, Opposite(d)} \subseteq Directions
    BY DEF Opposite, Directions
  <2> QED BY <2>1, <2>2, CommandedEntity, Zenon DEF EntityStep
<1>2. CASE Take(t, c, d, prim)
  BY <1>1, <1>2, Zenon DEF Take, EntityStep
<1> QED BY <1>1, <1>2

\* Only a write of the panel changes a model.
LEMMA EntityMoves ==
    ASSUME RunsTypes, [Next]_runVars
    PROVE  EntityStep \/ \E c \in Covers : ApplyCalibration(c)
<1>0. /\ \A t \in Tasks : task[t].cover \in Covers /\ task[t].dir \in Directions
      /\ TasksOK /\ EntitiesOK
  BY DEF RunsTypes, TasksOK, TaskType
<1>1. CASE UNCHANGED runVars \/ HomeDone \/ CloseTalk \/ CloseDialog \/ Reload \/ ReloadAnyway
           \/ AWriteBegins
  BY <1>1, Zenon DEF runVars, HomeDone, CloseTalk, CloseDialog, Abort, Reload, ReloadAnyway,
                     GatewayReloaded, AWriteBegins, WriteBegins, EntityStep
<1>2. ASSUME NEW c \in Covers, Physics(c) PROVE EntityStep
  BY <1>0, <1>2, DecidedEntity, PhysicsEntity, Zenon
     DEF Physics, FrameTaken, FrameDropped, MotorArrives, EntityStep
<1>3. ASSUME NEW c \in Covers, ServiceHomed(c) \/ OpenTalk(c) \/ GuideStops(c) PROVE EntityStep
  <2>1. \E d \in Directions : \E by : \/ UNCHANGED entity \/ DirectionQueued(c, d, by)
                                         \/ DirectionRefused(c) \/ StopQueued(c, by) \/ StopRefused(c)
    <3>1. c \in Tasks /\ task[c].dir \in Directions
      BY <1>0, Zenon DEF Tasks
    <3> QED BY <1>3, <3>1, Zenon DEF ServiceHomed, TimedRun, Measuring, Sent, OpenTalk, GuideStops, Stops
  <2> QED BY <1>0, <2>1, CommandedEntity, Zenon DEF EntityStep
<1>4. ASSUME NEW c \in Covers, NEW d \in Directions, Dashboard(c, d) \/ ServiceCalled(c, d)
      PROVE  EntityStep
  <2>1. CASE Dashboard(c, d)
    BY <1>0, <2>1, CommandedEntity, Zenon DEF Dashboard
  <2>2. CASE ServiceCalled(c, d)
    BY <1>0, <2>2, DriveEntity, Zenon DEF ServiceCalled, Tasks
  <2> QED BY <1>4, <2>1, <2>2
<1>5. ASSUME NEW c \in Covers, NEW key \in Directions \cup {"stop"}, Keypad(c, key) PROVE EntityStep
  BY <1>0, <1>5, PhysicsEntity, Zenon
<1>6. ASSUME NEW c \in Covers, NEW d \in Directions, NEW prim \in bound.prims, GuideRuns(c, d, prim)
      PROVE  EntityStep
  BY <1>0, <1>6, DriveEntity, Zenon DEF GuideRuns, Tasks
<1>7. ASSUME NEW t \in Tasks, Progress(t) PROVE EntityStep
  <2>1. CASE DeliveryKnown(t) \/ NotDelivered(t) \/ EchoHeard(t) \/ NoEcho(t) \/ Stopped(t)
    BY <2>1, Zenon DEF DeliveryKnown, NotDelivered, EchoHeard, NoEcho, Abort, Stopped, EntityStep
  <2>2. CASE Woken(t)
    BY <1>0, <2>2, DriveEntity, Zenon DEF Woken
  <2>3. CASE TidyUp(t) \/ RunElapsed(t)
    <3>1. \E by : StopQueued(task[t].cover, by) \/ StopRefused(task[t].cover)
      BY <2>3, Zenon DEF TidyUp, RunElapsed, Stops
    <3> QED BY <1>0, <3>1, CommandedEntity, Zenon
  <2> QED BY <1>7, <2>1, <2>2, <2>3, Zenon DEF Progress
<1>8. CASE DialogExpires
  <2>1. PICK c \in talk : UNCHANGED entity \/ \E by : StopQueued(c, by) \/ StopRefused(c)
    BY <1>8, Zenon DEF DialogExpires, Stops
  <2>2. c \in Covers /\ "up" \in Directions
    BY DEF RunsTypes, RestOK, Directions
  <2> QED BY <1>0, <2>1, <2>2, CommandedEntity, Zenon DEF EntityStep
<1> QED BY <1>1, <1>2, <1>3, <1>4, <1>5, <1>6, <1>7, <1>8, Zenon DEF Next, AWriteBegins

--------------------------------------------------------------------------
(* The command path *)

\* One more frame at the end of the line of c, and the frames before it forgotten by
\* the task that waits for the new one.
QueuedAt(c, kind, by) ==
    \A d \in Covers :
        LET n == Len(line[d])
        IN  /\ n \in Nat /\ DOMAIN line[d] = 1..n
            /\ line'[d] \in Seq(Frame) /\ DOMAIN line'[d] = 1..Len(line'[d])
            /\ Len(line'[d]) = IF d = c THEN n + 1 ELSE n
            /\ \A i \in 1..n : line'[d][i] = Forgotten(line[d][i], kind, by)
            /\ d = c => line'[d][n + 1] = [kind |-> kind, by |-> by]

\* The oldest frame of c is gone.
TakenAt(c) ==
    /\ \A d \in Covers \ {c} : line'[d] = line[d]
    /\ line[c] # <<>> /\ line[c] \in Seq(Frame)
    /\ line'[c] = Tail(line[c])

\* What Queue does to the lines.
LEMMA QueueShape ==
    ASSUME LinesOK, NEW c \in Covers, NEW kind \in Directions \cup {"stop"},
           NEW by \in Tasks \cup {Nobody}, Queue(c, kind, by)
    PROVE  QueuedAt(c, kind, by) /\ LinesOK'
<1> DEFINE old(d) == [i \in DOMAIN line[d] |-> Forgotten(line[d][i], kind, by)]
           new(d) == IF d = c THEN <<[kind |-> kind, by |-> by]>> ELSE <<>>
<1>1. line' = [d \in Covers |-> old(d) \o new(d)]
  BY Zenon DEF Queue
<1>2. ASSUME NEW d \in Covers
      PROVE  /\ Len(line[d]) \in Nat /\ DOMAIN line[d] = 1..Len(line[d])
             /\ old(d) \in Seq(Frame) /\ Len(old(d)) = Len(line[d])
             /\ \A i \in 1..Len(line[d]) : old(d)[i] = Forgotten(line[d][i], kind, by)
  <2>1. line[d] \in Seq(Frame)
    BY DEF LinesOK
  <2>2. Len(line[d]) \in Nat /\ DOMAIN line[d] = 1..Len(line[d])
    BY <2>1, LenProperties
  <2>3. ASSUME NEW i \in 1..Len(line[d]) PROVE Forgotten(line[d][i], kind, by) \in Frame
    <3>1. line[d][i] \in Frame
      BY <2>1, <2>2, <2>3
    <3> QED BY <3>1 DEF Forgotten, Frame
  <2>4. old(d) \in [1..Len(line[d]) -> Frame]
    BY <2>2, <2>3
  <2>5. old(d) \in Seq(Frame) /\ Len(old(d)) = Len(line[d])
    BY <2>2, <2>4
  <2> QED BY <2>2, <2>5
<1>3. ASSUME NEW d \in Covers
      PROVE  /\ new(d) \in Seq(Frame) /\ Len(new(d)) = IF d = c THEN 1 ELSE 0
             /\ d = c => new(d)[1] = [kind |-> kind, by |-> by]
  <2>1. [kind |-> kind, by |-> by] \in Frame
    BY DEF Frame
  <2> QED BY <2>1
<1> HIDE DEF old, new
<1>4. ASSUME NEW d \in Covers
      PROVE  LET n == Len(line[d])
             IN  /\ n \in Nat /\ DOMAIN line[d] = 1..n
                 /\ line'[d] \in Seq(Frame) /\ DOMAIN line'[d] = 1..Len(line'[d])
                 /\ Len(line'[d]) = IF d = c THEN n + 1 ELSE n
                 /\ \A i \in 1..n : line'[d][i] = Forgotten(line[d][i], kind, by)
                 /\ d = c => line'[d][n + 1] = [kind |-> kind, by |-> by]
  <2> DEFINE n == Len(line[d])
             s == old(d)
             t == new(d)
             u == line'[d]
  <2>1. u = s \o t
    BY <1>1
  <2>2. /\ n \in Nat /\ DOMAIN line[d] = 1..n
        /\ s \in Seq(Frame) /\ Len(s) = n
        /\ \A i \in 1..n : s[i] = Forgotten(line[d][i], kind, by)
    BY <1>2
  <2>3. /\ t \in Seq(Frame) /\ Len(t) = IF d = c THEN 1 ELSE 0
        /\ d = c => t[1] = [kind |-> kind, by |-> by]
    BY <1>3
  <2> HIDE DEF s, t, u
  <2> HIDE DEF n
  <2>4. /\ u \in Seq(Frame) /\ Len(u) = n + Len(t) /\ Len(t) \in Nat
        /\ \A i \in 1..(n + Len(t)) : u[i] = IF i <= n THEN s[i] ELSE t[i - n]
    <3>1. /\ u \in Seq(Frame) /\ Len(u) = Len(s) + Len(t)
          /\ \A i \in 1..(Len(s) + Len(t)) : u[i] = IF i <= Len(s) THEN s[i] ELSE t[i - Len(s)]
      BY <2>1, <2>2, <2>3, ConcatProperties, Zenon
    <3>2. Len(t) \in Nat
      BY <2>3, LenProperties, Zenon
    <3> QED BY <2>2, <3>1, <3>2, Zenon
  <2>5. DOMAIN u = 1..Len(u)
    BY <2>4, LenProperties, Zenon
  <2>6. Len(u) = IF d = c THEN n + 1 ELSE n
    BY <2>2, <2>3, <2>4
  <2>7. d = c => u[n + 1] = [kind |-> kind, by |-> by]
    <3> SUFFICES ASSUME d = c PROVE u[n + 1] = [kind |-> kind, by |-> by]
      OBVIOUS
    <3>1. Len(t) = 1 /\ t[1] = [kind |-> kind, by |-> by]
      BY <2>3
    <3>2. n + 1 \in 1..(n + 1) /\ ~(n + 1 <= n) /\ (n + 1) - n = 1
      BY <2>2
    <3> QED BY <2>4, <3>1, <3>2
  <2>8. \A i \in 1..n : u[i] = Forgotten(line[d][i], kind, by)
    <3>1. \A i \in 1..n : u[i] = s[i]
      BY <2>2, <2>4
    <3> QED BY <2>2, <3>1, Zenon
  <2> QED BY <2>2, <2>4, <2>5, <2>6, <2>7, <2>8, Zenon DEF n, u
<1>5. LinesOK'
  <2>1. \A d \in Covers : line'[d] \in Seq(Frame)
    BY <1>4, Zenon
  <2>2. line' = [d \in Covers |-> line'[d]]
    BY <1>1, Zenon
  <2> HIDE DEF Frame
  <2> QED BY <2>1, <2>2 DEF LinesOK
<1> QED BY <1>4, <1>5, Zenon DEF QueuedAt

\* How a step moves the command path.
LineStep ==
    \/ UNCHANGED line
    \/ \E c \in Covers, kind \in Directions \cup {"stop"}, by \in Tasks \cup {Nobody} :
          Queue(c, kind, by)
    \/ \E c \in Covers : \E taken : line[c] # <<>> /\ Decided(c, taken)

\* Every step moves it so.
LEMMA LineMoves ==
    ASSUME RunsTypes, [Next]_runVars
    PROVE  LineStep
<1>0. /\ \A t \in Tasks : task[t].cover \in Covers /\ task[t].dir \in Directions
      /\ talk \subseteq Covers
      /\ \A d \in Directions : Opposite(d) \in Directions
      /\ Directions \subseteq Directions \cup {"stop"} /\ "stop" \in Directions \cup {"stop"}
      /\ Tasks \subseteq Tasks \cup {Nobody} /\ Nobody \in Tasks \cup {Nobody}
      /\ Guide \in Tasks /\ Stopper \in Tasks /\ Covers \subseteq Tasks
  BY DEF RunsTypes, TasksOK, TaskType, RestOK, Directions, Opposite, Tasks
<1>1. CASE UNCHANGED runVars \/ HomeDone \/ CloseTalk \/ CloseDialog \/ Reload \/ ReloadAnyway
           \/ AWriteBegins
  BY <1>1, Zenon DEF runVars, HomeDone, CloseTalk, CloseDialog, Abort, Reload, ReloadAnyway,
                     GatewayReloaded, AWriteBegins, WriteBegins, LineStep, pathVars
<1>2. ASSUME NEW c \in Covers, Physics(c) PROVE LineStep
  BY <1>2, Zenon DEF Physics, FrameTaken, FrameDropped, MotorArrives, MotorReported,
                     EstimateArrives, LineStep, pathVars
<1>3. ASSUME NEW c \in Covers, ServiceHomed(c) \/ OpenTalk(c) \/ GuideStops(c) \/ ApplyCalibration(c)
      PROVE  LineStep
  BY <1>0, <1>3, Zenon
     DEF ServiceHomed, TimedRun, Measuring, Sent, OpenTalk, GuideStops, Stops, ApplyCalibration,
         DirectionQueued, DirectionRefused, StopQueued, StopRefused, Refuse, LineStep, pathVars
<1>4. ASSUME NEW t \in Tasks, NEW c \in Covers, NEW d \in Directions, NEW prim,
             Drive(t, c, d, prim) \/ Take(t, c, d, prim)
      PROVE  LineStep
  <2>1. ASSUME Drive(t, c, d, prim) PROVE LineStep
    <3>1. UNCHANGED line \/ \E dir \in {d, Opposite(d)} : Queue(c, dir, t)
      BY <2>1, Zenon DEF Drive, Homing, FreeRun, TimedRun, Measuring, Sent, DirectionQueued,
                         DirectionRefused, Refuse, pathVars
    <3> QED BY <1>0, <3>1, Zenon DEF LineStep
  <2> QED BY <1>4, <2>1, Zenon DEF Take, LineStep, pathVars
<1>5. ASSUME NEW c \in Covers, NEW d \in Directions, Dashboard(c, d) \/ ServiceCalled(c, d)
      PROVE  LineStep
  BY <1>0, <1>4, <1>5, Zenon
     DEF Dashboard, ServiceCalled, DirectionQueued, DirectionRefused, Refuse, LineStep
<1>6. ASSUME NEW c \in Covers, NEW key \in Directions \cup {"stop"}, Keypad(c, key) PROVE LineStep
  BY <1>6, Zenon DEF Keypad, LineStep, pathVars
<1>7. ASSUME NEW c \in Covers, NEW d \in Directions, NEW prim \in bound.prims, GuideRuns(c, d, prim)
      PROVE  LineStep
  BY <1>0, <1>4, <1>7, Zenon DEF GuideRuns
<1>8. ASSUME NEW t \in Tasks, Progress(t) PROVE LineStep
  BY <1>0, <1>4, <1>8, Zenon
     DEF Progress, DeliveryKnown, NotDelivered, EchoHeard, NoEcho, Abort, Stopped, Woken, TidyUp,
         RunElapsed, Stops, StopQueued, StopRefused, Refuse, LineStep, pathVars
<1>9. CASE DialogExpires
  BY <1>0, <1>9, Zenon DEF DialogExpires, Stops, StopQueued, StopRefused, Refuse, LineStep, pathVars
<1> QED BY <1>1, <1>2, <1>3, <1>5, <1>6, <1>7, <1>8, <1>9, Zenon DEF Next, AWriteBegins

\* The lines hold frames.
LEMMA LinesStep ==
    ASSUME RunsTypes, [Next]_runVars
    PROVE  LinesOK'
<1>1. CASE UNCHANGED line
  BY <1>1, Zenon DEF RunsTypes, LinesOK
<1>2. ASSUME NEW c \in Covers, NEW taken, line[c] # <<>>, Decided(c, taken) PROVE LinesOK'
  <2>1. line' = [line EXCEPT ![c] = Tail(line[c])] /\ line \in [Covers -> Seq(Frame)]
    BY <1>2, Zenon DEF Decided, RunsTypes, LinesOK
  <2>2. Tail(line[c]) \in Seq(Frame)
    BY <1>2, <2>1, HeadTailProperties, Zenon
  <2> QED BY <2>1, <2>2 DEF LinesOK
<1> QED BY <1>1, <1>2, LineMoves, QueueShape, Zenon DEF LineStep, RunsTypes

--------------------------------------------------------------------------
(* The runs *)

\* A step leaves the run of a task where it is.
SameRun(u) ==
    task'[u].pc = task[u].pc /\ task'[u].cover = task[u].cover /\ task'[u].newest = task[u].newest
Only(t) == \A u \in Drivers \ {t} : SameRun(u)

\* The task joins those that wait for the lock.
Waits(t) ==
    task[t].pc = "idle" /\ task'[t].pc = "lock" /\ lock'.holder = lock.holder /\ UNCHANGED settled
\* It has the lock, and its first frame goes out; or the service goes on from its homing.
Starts(t) ==
    /\ \/ lock.holder = Nobody /\ lock'.holder = t
       \/ task[t].pc = "homing" /\ lock' = lock
    /\ task'[t].cover \in Covers /\ task'[t].newest = Newest(task'[t].cover)
    /\ \/ task'[t].pc = "homing" /\ UNCHANGED settled
       \/ task'[t].pc = "delivery" /\ settled' = [settled EXCEPT ![task'[t].cover] = FALSE]
\* It has the lock, and there is nothing to do with it.
Returns(t) ==
    lock.holder = Nobody /\ lock'.holder = Nobody /\ task'[t].pc = "idle" /\ UNCHANGED settled
\* Its run goes on.
GoesOn(t) ==
    /\ Underway(t) /\ task'[t].pc \in {"echo", "running", "stopping", "tidying"}
    /\ task'[t].cover = task[t].cover /\ task'[t].newest = task[t].newest
    /\ UNCHANGED <<lock, settled>>
\* Its run is over.
IsOver(t) ==
    /\ InBlock(t) /\ task'[t].pc = "idle" /\ lock' = Released(t)
    /\ \/ task[t].pc = "homing" /\ UNCHANGED settled
       \/ settled' = [settled EXCEPT ![task[t].cover] = TRUE]

\* How a step moves the runs: none, or one of them.
RunStep ==
    \/ (\A u \in Drivers : SameRun(u)) /\ lock'.holder = lock.holder /\ UNCHANGED settled
    \/ \E t \in Drivers : Only(t) /\ (Waits(t) \/ Starts(t) \/ Returns(t) \/ GoesOn(t) \/ IsOver(t))

\* Who takes the lock waits for it, starts a run or has nothing to do.
LEMMA TakeRuns ==
    ASSUME RunsTypes, NEW t \in Drivers, NEW c \in Covers, NEW d \in Directions, NEW prim,
           \/ lock.holder = Nobody /\ Drive(t, c, d, prim)
           \/ task[t].pc = "idle" /\ Take(t, c, d, prim)
    PROVE  RunStep
<1>0. /\ task \in [Tasks -> TaskType] /\ lock \in [holder : Drivers \cup {Nobody}, waiters : Seq(Drivers)]
      /\ t \in Tasks /\ Drivers \subseteq Tasks
  BY DEF RunsTypes, TasksOK, LockOK, Drivers
<1>1. ASSUME NEW dir, NEW pc, Sent(t, prim, pc, c, d, dir)
      PROVE  /\ Only(t) /\ task'[t].pc = pc /\ task'[t].cover = c
             /\ task'[t].newest = Newest(c)
  BY <1>0, <1>1 DEF Sent, Run, Asleep, Only, SameRun
<1>2. ASSUME task' = [task EXCEPT ![t] = Asleep] PROVE Only(t) /\ task'[t].pc = "idle"
  BY <1>0, <1>2 DEF Asleep, Only, SameRun
<1>3. ASSUME lock.holder = Nobody, Drive(t, c, d, prim) PROVE RunStep
  <2>1. CASE /\ lock' = [holder |-> t, waiters |-> Without(lock.waiters, t)]
             /\ Homing(t, c, d, prim) \/ FreeRun(t, c, d) \/ TimedRun(t, c, d, prim)
    <3>1. lock'.holder = t
      BY <2>1
    <3>2. CASE Homing(t, c, d, prim)
      <4>1. Only(t) /\ Starts(t)
        BY <1>1, <1>3, <3>1, <3>2, Zenon DEF Homing, Starts
      <4> QED BY <4>1, Zenon DEF RunStep
    <3>3. CASE Measuring(t, c, d, prim) \/ Measuring(t, c, d, "start")
      <4>1. Sent(t, prim, "delivery", c, d, d) \/ Sent(t, "start", "delivery", c, d, d)
        BY <3>3, Zenon DEF Measuring
      <4>2. /\ Only(t) /\ task'[t].pc = "delivery" /\ task'[t].cover = c
            /\ task'[t].newest = Newest(c)
        BY <1>0, <4>1 DEF Sent, Run, Asleep, Only, SameRun
      <4>3. settled' = [settled EXCEPT ![c] = FALSE]
        BY <3>3, Zenon DEF Measuring
      <4> QED BY <1>3, <3>1, <4>2, <4>3, Zenon DEF RunStep, Starts
    <3> QED BY <2>1, <3>2, <3>3, Zenon DEF FreeRun, TimedRun
  <2>2. CASE task' = [task EXCEPT ![t] = Asleep] /\ UNCHANGED settled
             /\ lock' = [lock EXCEPT !.waiters = Without(@, t)]
    <3>1. lock'.holder = Nobody
      BY <1>0, <1>3, <2>2
    <3> QED BY <1>2, <1>3, <2>2, <3>1, Zenon DEF RunStep, Returns
  <2> QED BY <1>3, <2>1, <2>2, Zenon DEF Drive
<1>4. CASE /\ task[t].pc = "idle" /\ UNCHANGED settled
           /\ lock' = [lock EXCEPT !.waiters = Append(@, t)]
           /\ task' = [task EXCEPT ![t] = Run(prim, "lock", c, d)]
  <2>1. Only(t) /\ task'[t].pc = "lock" /\ lock'.holder = lock.holder
    BY <1>0, <1>4 DEF Run, Asleep, Only, SameRun
  <2> QED BY <1>4, <2>1, Zenon DEF RunStep, Waits
<1> QED BY <1>3, <1>4, Zenon DEF Take

\* Every step moves the runs so.
LEMMA RunMoves ==
    ASSUME RunsTypes, [Next]_runVars
    PROVE  RunStep
<1>0. /\ task \in [Tasks -> TaskType] /\ lock \in [holder : Drivers \cup {Nobody}, waiters : Seq(Drivers)]
      /\ settled \in [Covers -> BOOLEAN]
      /\ \A t \in Tasks : task[t].cover \in Covers /\ task[t].dir \in Directions
  BY DEF RunsTypes, TasksOK, TaskType, LockOK, FlagsOK
<1>1. /\ Guide \in Drivers /\ Covers \subseteq Drivers /\ Drivers \subseteq Tasks
      /\ Stopper \in Tasks /\ Stopper \notin Drivers /\ Stopper # Nobody /\ Nobody \notin Drivers
  BY RunsAssumption DEF RunsAssumption, Drivers, Tasks
<1>2. ASSUME task' = task, lock' = lock, settled' = settled PROVE RunStep
  BY <1>2, Zenon DEF RunStep, SameRun
<1>3. ASSUME NEW t \in Tasks, Over(t) PROVE
        /\ Only(t) /\ task'[t].pc = "idle" /\ lock' = Released(t)
  BY <1>0, <1>1, <1>3 DEF Over, Asleep, Only, SameRun
<1>4. ASSUME NEW t \in Drivers, InBlock(t), Over(t),
             \/ task[t].pc = "homing" /\ UNCHANGED settled
             \/ settled' = [settled EXCEPT ![task[t].cover] = TRUE]
      PROVE  RunStep
  BY <1>1, <1>3, <1>4, Zenon DEF RunStep, IsOver
<1>5. ASSUME NEW t \in Drivers, Underway(t), NEW pc \in {"echo", "running", "stopping", "tidying"},
             NEW next, next \in {task[t], [task[t] EXCEPT !.stop = "queued"]},
             task' = [task EXCEPT ![t] = [next EXCEPT !.pc = pc]], UNCHANGED <<lock, settled>>
      PROVE  RunStep
  <2> DEFINE new == [next EXCEPT !.pc = pc]
  <2>1. next \in TaskType /\ next.cover = task[t].cover /\ next.newest = task[t].newest
    <3>1. task[t] \in TaskType
      BY <1>0, <1>1
    <3>2. CASE next = [task[t] EXCEPT !.stop = "queued"]
      BY <3>1, <3>2 DEF TaskType
    <3> QED BY <1>5, <3>1, <3>2
  <2>2. new.pc = pc /\ new.cover = task[t].cover /\ new.newest = task[t].newest
    BY <2>1 DEF TaskType
  <2> HIDE DEF new
  <2>3. Only(t) /\ task'[t] = new
    <3>1. task' = [task EXCEPT ![t] = new]
      BY <1>5, Zenon DEF new
    <3> QED BY <1>0, <1>1, <3>1 DEF Only, SameRun
  <2> QED BY <1>5, <2>2, <2>3, Zenon DEF RunStep, GoesOn
<1>6. ASSUME NEW c \in Covers, NEW taken, Decided(c, taken), UNCHANGED <<lock, settled>>
      PROVE  RunStep
  <2>1. \A u \in Tasks : SameRun(u)
    BY <1>0, <1>6 DEF Decided, SameRun, TaskType
  <2> QED BY <1>1, <1>6, <2>1, Zenon DEF RunStep
<1>7. ASSUME NEW t \in Drivers, Underway(t), NEW pc \in {"echo", "running", "tidying"},
             task' = [task EXCEPT ![t].pc = pc], UNCHANGED <<lock, settled>>
      PROVE  RunStep
  <2>1. task' = [task EXCEPT ![t] = [task[t] EXCEPT !.pc = pc]]
    BY <1>7
  <2> QED BY <1>5, <1>7, <2>1
<1>8. ASSUME NEW t \in Drivers, InBlock(t), NEW why, Abort(t, why) PROVE RunStep
  <2> DEFINE c == task[t].cover
  <2>1. CASE OwesAStop(t, why) /\ task' = [task EXCEPT ![t].pc = "tidying"] /\ UNCHANGED <<lock, settled>>
    BY <1>7, <2>1, Zenon DEF OwesAStop
  <2>2. CASE Over(t) /\ settled' = [settled EXCEPT ![c] = IF task[t].pc = "homing" THEN @ ELSE TRUE]
    <3>1. CASE task[t].pc = "homing"
      <4>1. settled' = settled
        BY <1>0, <2>2, <3>1, Zenon
      <4> QED BY <1>4, <1>8, <2>2, <3>1, <4>1, Zenon
    <3>2. CASE task[t].pc # "homing"
      BY <1>4, <1>8, <2>2, <3>2, Zenon
    <3> QED BY <3>1, <3>2
  <2> QED BY <1>8, <2>1, <2>2, Zenon DEF Abort
<1>9. ASSUME NEW c \in Covers, NEW next, task[Stopper].pc = "idle" \/ next = task[Stopper],
             Stops(Stopper, c, next), UNCHANGED <<lock, settled>>
      PROVE  RunStep
  <2>1. \A u \in Drivers : SameRun(u)
    BY <1>0, <1>1, <1>9 DEF Stops, SameRun
  <2> QED BY <1>9, <2>1, Zenon DEF RunStep
<1>10. CASE UNCHANGED runVars \/ CloseTalk \/ Reload \/ ReloadAnyway \/ AWriteBegins
  BY <1>2, <1>10, Zenon DEF runVars, CloseTalk, Reload, ReloadAnyway, GatewayReloaded, AWriteBegins, WriteBegins
<1>11. ASSUME NEW c \in Covers, Physics(c) PROVE RunStep
  BY <1>2, <1>6, <1>11, Zenon
     DEF Physics, FrameTaken, FrameDropped, MotorArrives, MotorReported, EstimateArrives
<1>12. ASSUME NEW c \in Covers, ApplyCalibration(c) \/ OpenTalk(c)
              \/ \E key \in Directions \cup {"stop"} : Keypad(c, key)
       PROVE  RunStep
  BY <1>2, <1>12, Zenon DEF ApplyCalibration, OpenTalk, Keypad
<1>13. ASSUME NEW c \in Covers, GuideStops(c) PROVE RunStep
  BY <1>9, <1>13, Zenon DEF GuideStops
<1>14. CASE DialogExpires
  <2>1. PICK c \in talk : \/ UNCHANGED task
                         \/ Stops(Stopper, c, Run("stop", "stopping", c, "up"))
    BY <1>14, Zenon DEF DialogExpires
  <2>2. c \in Covers
    BY DEF RunsTypes, RestOK
  <2> QED BY <1>2, <1>9, <1>14, <2>1, <2>2, Zenon DEF DialogExpires
<1>15. ASSUME NEW c \in Covers, ServiceHomed(c) PROVE RunStep
  <2>1. CASE TimedRun(c, c, task[c].dir, "service") /\ UNCHANGED lock
    <3>1. /\ Only(c) /\ task'[c].pc = "delivery" /\ task'[c].cover = c
          /\ task'[c].newest = Newest(c)
      BY <1>0, <1>1, <2>1 DEF TimedRun, Measuring, Sent, Run, Asleep, Only, SameRun
    <3>2. settled' = [settled EXCEPT ![c] = FALSE]
      BY <2>1, Zenon DEF TimedRun, Measuring
    <3>3. Starts(c)
      BY <1>15, <2>1, <3>1, <3>2, Zenon DEF ServiceHomed, Homed, Starts
    <3> QED BY <1>1, <3>1, <3>3, Zenon DEF RunStep
  <2>2. CASE Over(c) /\ UNCHANGED settled
    <3>1. InBlock(c) /\ task[c].pc = "homing"
      BY <1>15 DEF ServiceHomed, Homed, InBlock
    <3> QED BY <1>1, <1>4, <2>2, <3>1, Zenon
  <2> QED BY <1>15, <2>1, <2>2, Zenon DEF ServiceHomed
<1>16. CASE HomeDone
  <2>1. InBlock(Guide) /\ task[Guide].pc = "homing"
    BY <1>16 DEF HomeDone, Homed, InBlock
  <2> QED BY <1>1, <1>4, <1>16, <2>1, Zenon DEF HomeDone
<1>17. ASSUME NEW c \in Covers, NEW d \in Directions, Dashboard(c, d) PROVE RunStep
  <2>1. \A u \in Tasks : SameRun(u)
    BY <1>0, <1>17 DEF Dashboard, SameRun, TaskType
  <2> QED BY <1>1, <1>17, <2>1, Zenon DEF Dashboard, RunStep
<1>18. ASSUME NEW c \in Covers, NEW d \in Directions, ServiceCalled(c, d) PROVE RunStep
  BY <1>1, <1>18, TakeRuns, Zenon DEF ServiceCalled
<1>19. ASSUME NEW c \in Covers, NEW d \in Directions, NEW prim \in bound.prims, GuideRuns(c, d, prim)
       PROVE  RunStep
  BY <1>1, <1>19, TakeRuns, Zenon DEF GuideRuns
<1>20. CASE CloseDialog
  <2>1. InBlock(Guide) /\ Abort(Guide, "cancelled")
    BY <1>20 DEF CloseDialog, InBlock
  <2> QED BY <1>1, <1>8, <2>1
<1>21. ASSUME NEW t \in Tasks, Progress(t), t # Stopper PROVE RunStep
  <2>0. t \in Drivers
    BY <1>21, Zenon DEF Drivers
  <2>1. CASE Woken(t)
    BY <1>0, <2>0, <2>1, TakeRuns, Zenon DEF Woken
  <2>2. CASE DeliveryKnown(t)
    BY <1>7, <2>0, <2>2 DEF DeliveryKnown, Underway
  <2>3. CASE NotDelivered(t) \/ NoEcho(t)
    <3>1. InBlock(t)
      BY <2>3 DEF NotDelivered, NoEcho, InBlock
    <3> QED BY <1>8, <2>0, <2>3, <3>1, Zenon DEF NotDelivered, NoEcho
  <2>4. CASE EchoHeard(t)
    <3>1. InBlock(t) /\ Underway(t)
      BY <2>4 DEF EchoHeard, InBlock, Underway
    <3>2. CASE Over(t) /\ settled' = [settled EXCEPT ![task[t].cover] = TRUE]
      BY <1>4, <2>0, <3>1, <3>2, Zenon
    <3>3. CASE task' = [task EXCEPT ![t].pc = "running"] /\ UNCHANGED <<settled, lock>>
      BY <1>7, <2>0, <3>1, <3>3
    <3> QED BY <2>4, <3>2, <3>3, Zenon DEF EchoHeard
  <2>5. CASE TidyUp(t) \/ Stopped(t)
    <3>1. InBlock(t) /\ Over(t)
      BY <2>5 DEF TidyUp, Stopped, InBlock
    <3>2. settled' = [settled EXCEPT ![task[t].cover] = TRUE]
      BY <1>21, <2>5, Zenon DEF TidyUp, Stopped
    <3> QED BY <1>4, <2>0, <3>1, <3>2, Zenon
  <2>6. CASE RunElapsed(t)
    <3> DEFINE stopping == [task[t] EXCEPT !.pc = "stopping"]
    <3>1. Underway(t) /\ UNCHANGED <<lock, settled>>
      BY <2>6 DEF RunElapsed, Underway
    <3>2. \/ task' = [task EXCEPT ![t] = stopping]
          \/ task' = [task EXCEPT ![t] = [stopping EXCEPT !.stop = "queued"]]
      BY <2>6, Zenon DEF RunElapsed, Stops
    <3>3. task[t] \in TaskType
      BY <1>0
    <3>4. [stopping EXCEPT !.stop = "queued"] = [[task[t] EXCEPT !.stop = "queued"] EXCEPT !.pc = "stopping"]
      BY <3>3 DEF TaskType
    <3> QED BY <1>5, <2>0, <3>1, <3>2, <3>4
  <2> QED BY <1>21, <2>1, <2>2, <2>3, <2>4, <2>5, <2>6, Zenon DEF Progress
<1>22. ASSUME Progress(Stopper) PROVE RunStep
  <2>1. ~Woken(Stopper)
    <3>1. lock.waiters # <<>> => Head(lock.waiters) \in Drivers
      BY <1>0, HeadTailProperties
    <3> QED BY <1>1, <3>1, Zenon DEF Woken
  <2>2. Stopped(Stopper)
    BY <1>22, <2>1 DEF Progress, DeliveryKnown, NotDelivered, EchoHeard, NoEcho, TidyUp, RunElapsed,
                       RunsTypes, StopperOK
  <2>3. Over(Stopper) /\ UNCHANGED settled
    BY <2>2, Zenon DEF Stopped
  <2>4. \A u \in Drivers : SameRun(u)
    BY <1>1, <1>3, <2>3, Zenon DEF Only
  <2>5. lock' = lock
    BY <1>0, <1>1, <2>3 DEF Over, Released
  <2> QED BY <2>3, <2>4, <2>5, Zenon DEF RunStep
<1> QED BY <1>10, <1>11, <1>12, <1>13, <1>14, <1>15, <1>16, <1>17, <1>18, <1>19, <1>20, <1>21,
           <1>22, Zenon DEF Next, AWriteBegins

--------------------------------------------------------------------------
(* The types *)

\* What a step leaves of a task is a task, and the stop beside the job stays one.
TaskStep ==
    \/ UNCHANGED task
    \/ \E t \in Tasks, k \in TaskType :
          task' = [task EXCEPT ![t] = k] /\ (t = Stopper => k.pc \in {"idle", "stopping"})
    \/ \E c \in Covers, d \in Directions : Dashboard(c, d)

AnyPrim == {"none", "home", "start", "timed", "stop", "service"}

\* Every model that is in force or on its way came of a write that was counted.
LEMMA NewestBound ==
    ASSUME RunsTypes, NEW c \in Covers
    PROVE  Newest(c) \in 0..bound.others
BY DEF RunsTypes, EntitiesOK, EntityType, RestOK, BoundType, Newest

\* A task that waits for the lock, or takes it.
LEMMA TakeTasks ==
    ASSUME RunsTypes, NEW t \in Drivers, NEW c \in Covers, NEW d \in Directions,
           NEW prim \in AnyPrim, Drive(t, c, d, prim) \/ Take(t, c, d, prim)
    PROVE  /\ \E k \in TaskType : task' = [task EXCEPT ![t] = k]
           /\ \/ lock' = [holder |-> t, waiters |-> Without(lock.waiters, t)]
              \/ lock' = [lock EXCEPT !.waiters = Without(@, t)]
              \/ lock' = [lock EXCEPT !.waiters = Append(@, t)]
<1>0. Newest(c) \in 0..bound.others /\ Asleep \in TaskType
  <2>1. AnyCover \in Covers
    BY RunsAssumption DEF RunsAssumption, AnyCover
  <2>2. 0 \in 0..bound.others
    BY DEF RunsTypes, RestOK, BoundType
  <2> QED BY <2>1, <2>2, NewestBound DEF TaskType, Asleep, Directions
<1>1. ASSUME NEW pc \in {"lock", "homing", "delivery"} PROVE Run(prim, pc, c, d) \in TaskType
  BY <1>0 DEF AnyPrim, Run, Asleep, TaskType
<1>2. ASSUME NEW p \in {prim, "start"}, NEW pc \in {"homing", "delivery"}, NEW dir, Sent(t, p, pc, c, d, dir)
      PROVE  \E k \in TaskType : task' = [task EXCEPT ![t] = k]
  <2> DEFINE k == [Run(p, pc, c, d) EXCEPT !.sent = "queued", !.newest = Newest(c)]
  <2>1. k \in TaskType
    BY <1>0, <1>2 DEF AnyPrim, Run, Asleep, TaskType
  <2>2. task' = [task EXCEPT ![t] = k]
    BY <1>2, Zenon DEF Sent
  <2> QED BY <2>1, <2>2, Zenon
<1>3. ASSUME Drive(t, c, d, prim)
      PROVE  /\ \E k \in TaskType : task' = [task EXCEPT ![t] = k]
             /\ \/ lock' = [holder |-> t, waiters |-> Without(lock.waiters, t)]
                \/ lock' = [lock EXCEPT !.waiters = Without(@, t)]
  <2>1. ASSUME Homing(t, c, d, prim) \/ FreeRun(t, c, d) \/ TimedRun(t, c, d, prim)
        PROVE  \E k \in TaskType : task' = [task EXCEPT ![t] = k]
    <3>1. \E p \in {prim, "start"}, pc \in {"homing", "delivery"} : \E dir : Sent(t, p, pc, c, d, dir)
      BY <2>1, Zenon DEF Homing, FreeRun, TimedRun, Measuring
    <3> QED BY <1>2, <3>1, Zenon
  <2> QED BY <1>0, <1>3, <2>1, Zenon DEF Drive
<1>4. ASSUME /\ lock' = [lock EXCEPT !.waiters = Append(@, t)]
             /\ task' = [task EXCEPT ![t] = Run(prim, "lock", c, d)]
      PROVE  \E k \in TaskType : task' = [task EXCEPT ![t] = k]
  BY <1>1, <1>4, Zenon
<1> QED BY <1>3, <1>4, Zenon DEF Take

\* Every step leaves tasks.
LEMMA TaskMoves ==
    ASSUME RunsTypes, [Next]_runVars
    PROVE  TaskStep
<1>0. /\ task \in [Tasks -> TaskType] /\ lock \in [holder : Drivers \cup {Nobody}, waiters : Seq(Drivers)]
      /\ \A t \in Tasks : /\ task[t].cover \in Covers /\ task[t].dir \in Directions
                          /\ task[t].prim \in AnyPrim
                          /\ task[t] \in TaskType
      /\ task[Stopper].pc \in {"idle", "stopping"}
      /\ bound.prims \subseteq AnyPrim /\ "service" \in AnyPrim
  BY DEF AnyPrim, RunsTypes, TasksOK, TaskType, LockOK, RestOK, BoundType, Prims, StopperOK
<1>1. /\ Guide \in Drivers /\ Covers \subseteq Drivers /\ Drivers \subseteq Tasks
      /\ Stopper \in Tasks /\ Stopper \notin Drivers
  BY RunsAssumption DEF RunsAssumption, Drivers, Tasks
<1>2. Asleep \in TaskType /\ Asleep.pc = "idle"
  <2>1. AnyCover \in Covers
    BY RunsAssumption DEF RunsAssumption, AnyCover
  <2>2. 0 \in 0..bound.others
    BY DEF RunsTypes, RestOK, BoundType
  <2> QED BY <2>1, <2>2 DEF TaskType, Asleep, Directions
<1>3. ASSUME NEW t \in Tasks, NEW k \in TaskType, task' = [task EXCEPT ![t] = k],
             t = Stopper => k.pc \in {"idle", "stopping"}
      PROVE  TaskStep
  BY <1>3, Zenon DEF TaskStep
<1>4. ASSUME NEW t \in Tasks, task' = [task EXCEPT ![t] = Asleep] PROVE TaskStep
  BY <1>2, <1>3, <1>4
<1>5. ASSUME NEW t \in Drivers, NEW c \in Covers, NEW d \in Directions,
             NEW prim \in AnyPrim, Drive(t, c, d, prim) \/ Take(t, c, d, prim)
      PROVE  TaskStep
  <2>1. \E k \in TaskType : task' = [task EXCEPT ![t] = k]
    BY <1>5, TakeTasks, Zenon
  <2> QED BY <1>1, <1>3, <2>1, Zenon
<1>6. ASSUME NEW t \in Drivers, NEW pc \in {"echo", "running", "tidying"},
             task' = [task EXCEPT ![t].pc = pc]
      PROVE  TaskStep
  <2> DEFINE k == [task[t] EXCEPT !.pc = pc]
  <2>0. task[t] \in TaskType
    BY <1>0, <1>1, Zenon
  <2>1. k \in TaskType
    BY <2>0 DEF TaskType
  <2>2. task' = [task EXCEPT ![t] = k]
    BY <1>6
  <2> QED BY <1>1, <1>3, <2>1, <2>2, Zenon
<1>7. ASSUME NEW t \in Tasks, NEW c, NEW k \in TaskType, Stops(t, c, k), k.pc = "stopping" PROVE TaskStep
  <2> DEFINE q == [k EXCEPT !.stop = "queued"]
  <2>1. q \in TaskType /\ q.pc = "stopping"
    BY <1>7 DEF TaskType
  <2>2. task' = [task EXCEPT ![t] = k] \/ task' = [task EXCEPT ![t] = q]
    BY <1>7, Zenon DEF Stops
  <2> QED BY <1>3, <1>7, <2>1, <2>2
<1>8. ASSUME NEW c \in Covers
      PROVE  Run("stop", "stopping", c, "up") \in TaskType /\ Run("stop", "stopping", c, "up").pc = "stopping"
  BY <1>2 DEF Run, Asleep, TaskType, Directions
<1>9. ASSUME NEW t \in Drivers, NEW why, Abort(t, why) PROVE TaskStep
  BY <1>1, <1>4, <1>6, <1>9, Zenon DEF Abort, Over
<1>10. CASE UNCHANGED runVars \/ CloseTalk \/ Reload \/ ReloadAnyway \/ AWriteBegins
  BY <1>10, Zenon DEF runVars, CloseTalk, Reload, ReloadAnyway, GatewayReloaded, AWriteBegins, WriteBegins, TaskStep
<1>11. ASSUME NEW c \in Covers, NEW taken, line[c] # <<>>, Decided(c, taken) PROVE TaskStep
  <2> DEFINE f == Head(line[c])
             fate == IF taken THEN "written" ELSE "dropped"
             t == f.by
             k == IF f.kind = "stop" THEN [task[t] EXCEPT !.stop = fate] ELSE [task[t] EXCEPT !.sent = fate]
  <2>1. f \in Frame
    BY <1>11, HeadTailProperties DEF RunsTypes, LinesOK
  <2>2. UNCHANGED task \/ (t # Nobody /\ task' = [task EXCEPT ![t] = k])
    BY <1>11 DEF Decided
  <2>3. t # Nobody => t \in Tasks
    BY <2>1 DEF Frame
  <2>4. t \in Tasks => k \in TaskType /\ k.pc = task[t].pc
    <3>1. t \in Tasks => task[t] \in TaskType
      BY <1>0, Zenon
    <3> QED BY <3>1 DEF TaskType
  <2> HIDE DEF k, t
  <2> QED BY <1>0, <1>3, <2>2, <2>3, <2>4, Zenon DEF TaskStep
<1>12. ASSUME NEW c \in Covers, Physics(c) PROVE TaskStep
  BY <1>11, <1>12, Zenon
     DEF Physics, FrameTaken, FrameDropped, MotorArrives, MotorReported, EstimateArrives, TaskStep
<1>13. ASSUME NEW c \in Covers, ApplyCalibration(c) \/ OpenTalk(c)
              \/ \E key \in Directions \cup {"stop"} : Keypad(c, key)
       PROVE  TaskStep
  BY <1>13, Zenon DEF ApplyCalibration, OpenTalk, Keypad, TaskStep
<1>14. ASSUME NEW c \in Covers, GuideStops(c) PROVE TaskStep
  BY <1>1, <1>7, <1>8, <1>14, Zenon DEF GuideStops
<1>15. CASE DialogExpires
  <2>1. PICK c \in talk : \/ UNCHANGED task
                         \/ Stops(Stopper, c, Run("stop", "stopping", c, "up"))
    BY <1>15, Zenon DEF DialogExpires
  <2>2. c \in Covers
    BY DEF RunsTypes, RestOK
  <2> QED BY <1>1, <1>7, <1>8, <2>1, <2>2, Zenon DEF TaskStep
<1>16. ASSUME NEW c \in Covers, ServiceHomed(c) PROVE TaskStep
  <2>1. CASE TimedRun(c, c, task[c].dir, "service")
    <3> DEFINE k == [Run("service", "delivery", c, task[c].dir) EXCEPT !.sent = "queued", !.newest = Newest(c)]
    <3>1. Newest(c) \in 0..bound.others
      BY NewestBound
    <3>2. k \in TaskType
      BY <1>0, <1>1, <1>2, <3>1 DEF Run, Asleep, TaskType
    <3>3. task' = [task EXCEPT ![c] = k]
      BY <2>1, Zenon DEF TimedRun, Measuring, Sent
    <3> QED BY <1>1, <1>3, <3>2, <3>3, Zenon
  <2> QED BY <1>1, <1>4, <1>16, <2>1, Zenon DEF ServiceHomed, Over
<1>17. CASE HomeDone \/ CloseDialog
  BY <1>1, <1>4, <1>9, <1>17, Zenon DEF HomeDone, Over, CloseDialog
<1>18. ASSUME NEW c \in Covers, NEW d \in Directions, Dashboard(c, d) \/ ServiceCalled(c, d)
       PROVE  TaskStep
  BY <1>0, <1>1, <1>5, <1>18, Zenon DEF ServiceCalled, TaskStep
<1>19. ASSUME NEW c \in Covers, NEW d \in Directions, NEW prim \in bound.prims, GuideRuns(c, d, prim)
       PROVE  TaskStep
  BY <1>0, <1>1, <1>5, <1>19, Zenon DEF GuideRuns
<1>20. ASSUME NEW t \in Tasks, Progress(t), t # Stopper PROVE TaskStep
  <2>0. t \in Drivers
    BY <1>20, Zenon DEF Drivers
  <2>1. CASE Woken(t)
    BY <1>0, <1>5, <2>0, <2>1, Zenon DEF Woken
  <2>2. CASE DeliveryKnown(t)
    BY <1>6, <2>0, <2>2 DEF DeliveryKnown
  <2>3. CASE NotDelivered(t) \/ NoEcho(t)
    BY <1>9, <2>0, <2>3, Zenon DEF NotDelivered, NoEcho
  <2>4. CASE EchoHeard(t)
    BY <1>4, <1>6, <1>20, <2>0, <2>4, Zenon DEF EchoHeard, Over
  <2>5. CASE TidyUp(t) \/ Stopped(t)
    BY <1>4, <1>20, <2>5, Zenon DEF TidyUp, Stopped, Over
  <2>6. CASE RunElapsed(t)
    <3> DEFINE k == [task[t] EXCEPT !.pc = "stopping"]
    <3>0. task[t] \in TaskType
      BY <1>0, <1>20, Zenon
    <3>1. k \in TaskType /\ k.pc = "stopping"
      BY <3>0 DEF TaskType
    <3> QED BY <1>7, <1>20, <2>6, <3>1, Zenon DEF RunElapsed
  <2> QED BY <1>20, <2>1, <2>2, <2>3, <2>4, <2>5, <2>6, Zenon DEF Progress
<1>21. ASSUME Progress(Stopper) PROVE TaskStep
  <2>1. ~Woken(Stopper)
    <3>1. lock.waiters # <<>> => Head(lock.waiters) \in Drivers
      BY <1>0, HeadTailProperties
    <3> QED BY <1>1, <3>1, Zenon DEF Woken
  <2>2. Stopped(Stopper)
    BY <1>0, <1>21, <2>1 DEF Progress, DeliveryKnown, NotDelivered, EchoHeard, NoEcho, TidyUp, RunElapsed
  <2> QED BY <1>1, <1>4, <2>2, Zenon DEF Stopped, Over
<1> QED BY <1>10, <1>12, <1>13, <1>14, <1>15, <1>16, <1>17, <1>18, <1>19, <1>20, <1>21, Zenon DEF Next, AWriteBegins

\* The bounds do not change, and the others count what they do.
LEMMA OthersStep ==
    ASSUME RunsTypes, [Next]_runVars
    PROVE  /\ bound' = bound
           /\ \/ others' = others
              \/ others' = others + 1 /\ others < bound.others
           /\ talk' \in SUBSET Covers /\ reload' \in Covers \cup {"no", "done"}
           /\ UNCHANGED writing \/ AWriteBegins \/ \E c \in Covers : ApplyCalibration(c)
<1>0. /\ talk \in SUBSET Covers /\ reload \in Covers \cup {"no", "done"}
      /\ \A t \in Tasks : task[t].cover \in Covers
      /\ Guide \in Tasks
  BY DEF RunsTypes, RestOK, TasksOK, TaskType, Tasks
<1>1. bound' = bound
  BY Zenon DEF Next, runVars, Physics, FrameTaken, FrameDropped, MotorArrives, MotorReported,
         EstimateArrives, ServiceHomed, ApplyCalibration, OpenTalk, GuideStops, Dashboard,
         ServiceCalled, Keypad, GuideRuns, Take, Drive, Progress, Woken, DeliveryKnown, NotDelivered,
         EchoHeard, NoEcho, TidyUp, RunElapsed, Stopped, Abort, HomeDone, CloseTalk, DialogExpires,
         CloseDialog, Reload, ReloadAnyway, GatewayReloaded, AWriteBegins, WriteBegins
<1>2. others' = others \/ (others' = others + 1 /\ others < bound.others)
  BY Zenon DEF Next, runVars, Physics, FrameTaken, FrameDropped, MotorArrives, MotorReported,
         EstimateArrives, ServiceHomed, ApplyCalibration, OpenTalk, GuideStops, Dashboard, Other,
         ServiceCalled, Keypad, GuideRuns, Take, Drive, Progress, Woken, DeliveryKnown, NotDelivered,
         EchoHeard, NoEcho, TidyUp, RunElapsed, Stopped, Abort, HomeDone, CloseTalk, DialogExpires,
         CloseDialog, Reload, ReloadAnyway, GatewayReloaded, AWriteBegins, WriteBegins
<1>3. talk' \in {talk, {}} \/ \E c \in Covers : talk' = {c}
  BY Zenon DEF Next, runVars, Physics, FrameTaken, FrameDropped, MotorArrives, MotorReported,
         EstimateArrives, ServiceHomed, ApplyCalibration, OpenTalk, GuideStops, Dashboard,
         ServiceCalled, Keypad, GuideRuns, Take, Drive, Progress, Woken, DeliveryKnown, NotDelivered,
         EchoHeard, NoEcho, TidyUp, RunElapsed, Stopped, Abort, HomeDone, CloseTalk, DialogExpires,
         CloseDialog, Reload, ReloadAnyway, GatewayReloaded, AWriteBegins, WriteBegins
<1>4. reload' \in {reload, "done", task[Guide].cover}
  BY Zenon DEF Next, runVars, Physics, FrameTaken, FrameDropped, MotorArrives, MotorReported,
         EstimateArrives, ServiceHomed, ApplyCalibration, OpenTalk, GuideStops, Dashboard,
         ServiceCalled, Keypad, GuideRuns, Take, Drive, Progress, Woken, DeliveryKnown, NotDelivered,
         EchoHeard, NoEcho, TidyUp, RunElapsed, Stopped, Abort, HomeDone, CloseTalk, DialogExpires,
         CloseDialog, Reload, ReloadAnyway, GatewayReloaded, AWriteBegins, WriteBegins
<1>5. talk' \in SUBSET Covers /\ reload' \in Covers \cup {"no", "done"}
  BY <1>0, <1>3, <1>4
<1>6. UNCHANGED writing \/ AWriteBegins \/ \E c \in Covers : ApplyCalibration(c)
  BY Zenon DEF Next, runVars, Physics, FrameTaken, FrameDropped, MotorArrives, MotorReported,
         EstimateArrives, ServiceHomed, OpenTalk, GuideStops, Dashboard,
         ServiceCalled, Keypad, GuideRuns, Take, Drive, Progress, Woken, DeliveryKnown, NotDelivered,
         EchoHeard, NoEcho, TidyUp, RunElapsed, Stopped, Abort, HomeDone, CloseTalk, DialogExpires,
         CloseDialog, Reload, ReloadAnyway, GatewayReloaded, AWriteBegins
<1> QED BY <1>1, <1>2, <1>5, <1>6, Zenon

\* A write that lands gives an entity its new model, and moves nothing of it.
LEMMA WithTheWriteKeeps ==
    ASSUME NEW e \in EntityType
    PROVE  LET f == WithTheWrite(e)
           IN  /\ f.model = e.model + 1
               /\ f.moving = e.moving /\ f.awaited = e.awaited /\ f.pending = e.pending
               /\ f.direction = e.direction
               /\ e.model + 1 \in 0..bound.others => f \in EntityType
BY DEF WithTheWrite, AdoptTravelModel, CurrentMovementModel, EntityType

\* The model that is newest for a cover changes when a write begins, and not when it lands.
LEMMA NewestMoves ==
    ASSUME RunsTypes, [Next]_runVars
    PROVE  /\ entity' \in [Covers -> EntityType]
           /\ \/ \A c \in Covers : Newest(c)' <= Newest(c)
              \/ AWriteBegins /\ others' = others + 1 /\ \A c \in Covers : Newest(c)' <= Newest(c) + 1
<1>0. /\ entity \in [Covers -> EntityType] /\ EntitiesOK /\ "no" \notin Covers
      /\ bound.others \in Nat /\ \A c \in Covers : entity[c].model \in Nat
  BY RunsAssumption DEF RunsAssumption, RunsTypes, EntitiesOK, EntityType, RestOK, BoundType
<1>1. ASSUME NEW c \in Covers, ApplyCalibration(c)
      PROVE  entity' \in [Covers -> EntityType] /\ \A d \in Covers : Newest(d)' <= Newest(d)
  <2> DEFINE f == WithTheWrite(entity[c])
  <2>1. writing = c /\ writing' = "no"
    BY <1>1, Zenon DEF ApplyCalibration
  <2>2. Newest(c) = entity[c].model + 1 /\ Newest(c) \in 0..bound.others
    BY <2>1, NewestBound DEF Newest
  <2>3. f \in EntityType /\ f.model = entity[c].model + 1
    BY <1>0, <2>2, WithTheWriteKeeps
  <2>4. entity' \in {entity, [entity EXCEPT ![c] = f]}
    BY <1>1 DEF ApplyCalibration
  <2> HIDE DEF f
  <2>5. entity' \in [Covers -> EntityType]
    BY <1>0, <2>3, <2>4
  <2>6. \A d \in Covers : entity'[d].model <= Newest(d)
    BY <1>0, <2>1, <2>3, <2>4 DEF Newest
  <2>7. \A d \in Covers : Newest(d)' = entity'[d].model
    <3>1. \A d \in Covers : entity'[d].model \in Nat
      BY <1>0, <2>5 DEF EntityType
    <3> QED BY <1>0, <2>1, <3>1 DEF Newest
  <2> QED BY <2>5, <2>6, <2>7
<1>2. CASE EntityStep
  <2>1. entity' \in [Covers -> EntityType] /\ \A c \in Covers : entity'[c].model = entity[c].model
    BY <1>0, <1>2 DEF EntityStep
  <2>2. CASE UNCHANGED writing
    <3>1. \A c \in Covers : Newest(c)' <= Newest(c)
      BY <1>0, <2>1, <2>2 DEF Newest
    <3> QED BY <2>1, <3>1
  <2>3. CASE AWriteBegins
    <3>1. others' = others + 1
      BY <2>3, Zenon DEF AWriteBegins, WriteBegins, Other
    <3>2. \A c \in Covers : Newest(c)' <= Newest(c) + 1
      BY <1>0, <2>1 DEF Newest
    <3> QED BY <2>1, <2>3, <3>1, <3>2
  <2> QED BY <1>1, <2>2, <2>3, OthersStep
<1> QED BY <1>1, <1>2, EntityMoves, Zenon

\* The lock has drivers, and drivers wait for it.
LEMMA LockStep ==
    ASSUME RunsTypes, [Next]_runVars
    PROVE  LockOK'
<1>0. /\ lock \in [holder : Drivers \cup {Nobody}, waiters : Seq(Drivers)]
      /\ \A t \in Tasks : /\ task[t].cover \in Covers /\ task[t].dir \in Directions
                          /\ task[t].prim \in AnyPrim
      /\ bound.prims \subseteq AnyPrim /\ "service" \in AnyPrim
  BY DEF AnyPrim, RunsTypes, TasksOK, TaskType, LockOK, RestOK, BoundType, Prims
<1>1. Guide \in Drivers /\ Covers \subseteq Drivers /\ Drivers \subseteq Tasks
  BY RunsAssumption DEF RunsAssumption, Drivers, Tasks
<1>2. ASSUME NEW t \in Drivers
      PROVE  Without(lock.waiters, t) \in Seq(Drivers) /\ Append(lock.waiters, t) \in Seq(Drivers)
  BY <1>0, <1>2, HeadTailProperties DEF Without
<1>3. ASSUME NEW t \in Drivers, NEW c \in Covers, NEW d \in Directions, NEW prim \in AnyPrim,
             Drive(t, c, d, prim) \/ Take(t, c, d, prim)
      PROVE  LockOK'
  <2>1. \/ lock' = [holder |-> t, waiters |-> Without(lock.waiters, t)]
        \/ lock' = [lock EXCEPT !.waiters = Without(@, t)]
        \/ lock' = [lock EXCEPT !.waiters = Append(@, t)]
    BY <1>3, TakeTasks, Zenon
  <2>2. PICK h \in Drivers \cup {Nobody}, w \in Seq(Drivers) : lock' = [holder |-> h, waiters |-> w]
    <3>1. CASE lock' = [holder |-> t, waiters |-> Without(lock.waiters, t)]
      BY <1>2, <3>1, Zenon
    <3>2. CASE lock' = [lock EXCEPT !.waiters = Without(@, t)]
      <4>1. lock' = [holder |-> lock.holder, waiters |-> Without(lock.waiters, t)]
        BY <1>0, <3>2
      <4>2. lock.holder \in Drivers \cup {Nobody}
        BY <1>0
      <4> QED BY <1>2, <4>1, <4>2, Zenon
    <3>3. CASE lock' = [lock EXCEPT !.waiters = Append(@, t)]
      <4>1. lock' = [holder |-> lock.holder, waiters |-> Append(lock.waiters, t)]
        BY <1>0, <3>3
      <4>2. lock.holder \in Drivers \cup {Nobody}
        BY <1>0
      <4> QED BY <1>2, <4>1, <4>2, Zenon
    <3> QED BY <2>1, <3>1, <3>2, <3>3
  <2> QED BY <2>2 DEF LockOK
<1>4. ASSUME lock' = lock \/ \E t : lock' = Released(t) PROVE LockOK'
  BY <1>0, <1>4 DEF Released, LockOK
<1>5. ASSUME NEW c \in Covers, NEW d \in Directions, ServiceCalled(c, d) PROVE LockOK'
  BY <1>0, <1>1, <1>3, <1>5, Zenon DEF ServiceCalled
<1>6. ASSUME NEW c \in Covers, NEW d \in Directions, NEW prim \in bound.prims, GuideRuns(c, d, prim)
      PROVE  LockOK'
  BY <1>0, <1>1, <1>3, <1>6, Zenon DEF GuideRuns
<1>7. ASSUME NEW t \in Tasks, Woken(t) PROVE LockOK'
  <2>1. t \in Drivers
    <3>1. lock.waiters # <<>> => Head(lock.waiters) \in Drivers
      BY <1>0, HeadTailProperties
    <3> QED BY <1>7, <3>1, Zenon DEF Woken
  <2> QED BY <1>0, <1>3, <1>7, <2>1, Zenon DEF Woken
<1> QED BY <1>4, <1>5, <1>6, <1>7, Zenon
    DEF Next, runVars, Physics, FrameTaken, FrameDropped, MotorArrives, MotorReported,
        EstimateArrives, ServiceHomed, ApplyCalibration, OpenTalk, GuideStops, Dashboard,
        Keypad, Progress, DeliveryKnown, NotDelivered,
        EchoHeard, NoEcho, TidyUp, RunElapsed, Stopped, Abort, Over, HomeDone, CloseTalk, DialogExpires,
        CloseDialog, Reload, ReloadAnyway, GatewayReloaded, AWriteBegins, WriteBegins

\* What is owed changes by an abort, and by a command that pays it.
OwedStep ==
    \/ UNCHANGED owed
    \/ \E c \in Covers : owed' = [owed EXCEPT ![c] = FALSE]
    \/ \E t \in Drivers : InBlock(t) /\ task[t].pc # "tidying" /\ \E why : Abort(t, why)

\* The flags are flags: every step sets some of them, or leaves them.
LEMMA FlagsStep ==
    ASSUME RunsTypes, [Next]_runVars
    PROVE  FlagsOK' /\ OwedStep
<1>0. /\ settled \in [Covers -> BOOLEAN] /\ owed \in [Covers -> BOOLEAN] /\ mixed \in BOOLEAN
      /\ talk \subseteq Covers
  BY Zenon DEF RunsTypes, FlagsOK, RestOK
<1>1. /\ Guide \in Drivers /\ Covers \subseteq Drivers /\ Drivers \subseteq Tasks
      /\ \A t \in Tasks : task[t].cover \in Covers
  BY RunsAssumption DEF RunsAssumption, Drivers, Tasks, RunsTypes, TasksOK, TaskType
<1>2. settled' \in [Covers -> BOOLEAN]
  <2>1. settled' = settled \/ \E c : settled' = [settled EXCEPT ![c] = TRUE] \/ settled' = [settled EXCEPT ![c] = FALSE]
    BY RunMoves, Zenon DEF RunStep, Waits, Starts, Returns, GoesOn, IsOver
  <2> QED BY <1>0, <2>1
<1>3. mixed' \in BOOLEAN
  <2>1. mixed' = mixed \/ mixed' \in BOOLEAN
    BY Zenon DEF Next, runVars, Physics, FrameTaken, FrameDropped, MotorArrives, MotorReported,
         EstimateArrives, ServiceHomed, ApplyCalibration, OpenTalk, GuideStops, Dashboard,
         ServiceCalled, Keypad, GuideRuns, Take, Drive, Progress, Woken, DeliveryKnown, NotDelivered,
         EchoHeard, NoEcho, TidyUp, RunElapsed, Stopped, Abort, HomeDone, CloseTalk, DialogExpires,
         CloseDialog, Reload, ReloadAnyway, GatewayReloaded, AWriteBegins, WriteBegins
  <2> QED BY <1>0, <2>1
<1>4. OwedStep
  <2>1. ASSUME NEW c \in Covers, NEW d, NEW by, \/ DirectionQueued(c, d, by) \/ DirectionRefused(c)
                                                \/ StopQueued(c, by) \/ StopRefused(c)
        PROVE  OwedStep
    BY <2>1, Zenon DEF DirectionQueued, DirectionRefused, StopQueued, StopRefused, OwedStep
  <2>2. ASSUME NEW t \in Tasks, NEW c \in Covers, NEW d, NEW prim, Drive(t, c, d, prim) \/ Take(t, c, d, prim)
        PROVE  OwedStep
    BY <2>1, <2>2, Zenon DEF Take, Drive, Homing, FreeRun, TimedRun, Measuring, Sent, OwedStep
  <2>3. ASSUME NEW c \in Covers, NEW t \in Tasks, NEW next, Stops(t, c, next) PROVE OwedStep
    BY <2>1, <2>3, Zenon DEF Stops
  <2>4. CASE UNCHANGED runVars \/ HomeDone \/ CloseTalk \/ CloseDialog \/ Reload \/ ReloadAnyway
             \/ AWriteBegins
    <3>1. CloseDialog => InBlock(Guide) /\ task[Guide].pc # "tidying" /\ Abort(Guide, "cancelled")
      BY DEF CloseDialog, InBlock
    <3> QED BY <1>1, <2>4, <3>1, Zenon
           DEF runVars, HomeDone, CloseTalk, Reload, ReloadAnyway, GatewayReloaded, AWriteBegins, WriteBegins, OwedStep
  <2>5. ASSUME NEW c \in Covers, Physics(c) \/ ServiceHomed(c) \/ ApplyCalibration(c) \/ OpenTalk(c)
                                 \/ GuideStops(c) \/ \E key \in Directions \cup {"stop"} : Keypad(c, key)
        PROVE  OwedStep
    BY <1>1, <2>1, <2>3, <2>5, Zenon
       DEF Physics, FrameTaken, FrameDropped, MotorArrives, MotorReported, EstimateArrives,
           ServiceHomed, TimedRun, Measuring, Sent, ApplyCalibration, OpenTalk, GuideStops, Keypad,
           OwedStep, Tasks
  <2>6. ASSUME NEW c \in Covers, NEW d \in Directions,
               \/ Dashboard(c, d) \/ ServiceCalled(c, d) \/ \E prim \in bound.prims : GuideRuns(c, d, prim)
        PROVE  OwedStep
    BY <1>1, <2>1, <2>2, <2>6, Zenon DEF Dashboard, ServiceCalled, GuideRuns
  <2>7. ASSUME NEW t \in Tasks, Progress(t) PROVE OwedStep
    <3>1. CASE NotDelivered(t) \/ NoEcho(t)
      <4>1. t # Stopper /\ InBlock(t) /\ task[t].pc # "tidying"
        BY <3>1 DEF NotDelivered, NoEcho, RunsTypes, StopperOK, InBlock
      <4> QED BY <3>1, <4>1, Zenon DEF NotDelivered, NoEcho, OwedStep, Drivers
    <3>2. CASE Woken(t) \/ TidyUp(t) \/ RunElapsed(t)
      BY <1>1, <2>1, <2>2, <2>3, <3>2, Zenon DEF Woken, TidyUp, RunElapsed
    <3> QED BY <2>7, <3>1, <3>2, Zenon DEF Progress, DeliveryKnown, EchoHeard, Stopped, OwedStep
  <2>8. CASE DialogExpires
    <3>1. Stopper \in Tasks
      BY Zenon DEF Tasks
    <3> QED BY <1>0, <2>3, <2>8, <3>1, Zenon DEF DialogExpires, OwedStep
  <2> QED BY <2>4, <2>5, <2>6, <2>7, <2>8, Zenon DEF Next, AWriteBegins
<1>5. owed' \in [Covers -> BOOLEAN]
  <2>1. ASSUME NEW t \in Drivers, NEW why, Abort(t, why) PROVE owed' \in [Covers -> BOOLEAN]
    <3> DEFINE b == Underway(t) /\ task[t].sent = "written" /\ ~task[t].shared
    <3>1. owed' = [owed EXCEPT ![task[t].cover] = b] /\ b \in BOOLEAN
      BY <2>1, Zenon DEF Abort
    <3> HIDE DEF b
    <3> QED BY <1>0, <3>1
  <2> QED BY <1>0, <1>4, <2>1 DEF OwedStep
<1> QED BY <1>2, <1>3, <1>4, <1>5, Zenon DEF FlagsOK

\* Every step keeps the types.
LEMMA TypesStep == RunsTypes /\ [Next]_runVars => RunsTypes'
<1> SUFFICES ASSUME RunsTypes, [Next]_runVars PROVE RunsTypes'
  OBVIOUS
<1>1. /\ bound' = bound /\ others' \in 0..bound.others /\ others <= others'
      /\ talk' \in SUBSET Covers /\ reload' \in Covers \cup {"no", "done"}
  <2>1. others \in 0..bound.others /\ bound.others \in Nat
    BY DEF RunsTypes, RestOK, BoundType
  <2>2. others' = others \/ (others' = others + 1 /\ others < bound.others)
    BY OthersStep, Zenon
  <2>3. others' \in 0..bound.others /\ others <= others'
    BY <2>1, <2>2
  <2> QED BY <2>3, OthersStep, Zenon
<1>2. EntityType' = EntityType /\ TaskType' = TaskType
  BY <1>1, Zenon DEF EntityType, TaskType
<1>3. TasksOK' /\ StopperOK'
  <2>1. CASE UNCHANGED task
    BY <1>2, <2>1, Zenon DEF RunsTypes, TasksOK, StopperOK
  <2>2. ASSUME NEW t \in Tasks, NEW k \in TaskType, task' = [task EXCEPT ![t] = k],
               t = Stopper => k.pc \in {"idle", "stopping"}
        PROVE  TasksOK' /\ StopperOK'
    <3>1. Stopper \in Tasks /\ task \in [Tasks -> TaskType] /\ task[Stopper].pc \in {"idle", "stopping"}
      BY Zenon DEF RunsTypes, TasksOK, StopperOK, Tasks
    <3>2. task' \in [Tasks -> TaskType]
      BY <2>2, <3>1, Zenon
    <3>3. task'[Stopper].pc \in {"idle", "stopping"}
      BY <2>2, <3>1
    <3> QED BY <1>2, <3>2, <3>3, Zenon DEF TasksOK, StopperOK
  <2>3. ASSUME NEW c \in Covers, NEW d \in Directions, Dashboard(c, d) PROVE TasksOK' /\ StopperOK'
    <3>1. \A t \in Tasks : /\ task[t] \in TaskType
                           /\ [task[t] EXCEPT !.shared = TRUE] \in TaskType
                           /\ [task[t] EXCEPT !.shared = TRUE].pc = task[t].pc
      BY DEF RunsTypes, TasksOK, TaskType
    <3>2. \A t \in Tasks : task'[t] \in TaskType /\ task'[t].pc = task[t].pc
      BY <2>3, <3>1 DEF Dashboard
    <3>3. task' = [t \in Tasks |-> task'[t]] /\ Stopper \in Tasks
      BY <2>3, Zenon DEF Dashboard, Tasks
    <3>4. task' \in [Tasks -> TaskType]
      BY <3>2, <3>3, Zenon
    <3> QED BY <1>2, <3>2, <3>3, <3>4, Zenon DEF TasksOK, StopperOK, RunsTypes
  <2> QED BY <2>1, <2>2, <2>3, TaskMoves, Zenon DEF TaskStep
<1>4. EntitiesOK'
  BY <1>2, NewestMoves, Zenon DEF EntitiesOK
<1>5. RestOK'
  <2>1. bound' \in BoundType
    BY <1>1, Zenon DEF RunsTypes, RestOK
  <2>2. writing' \in Covers \cup {"no"}
    BY OthersStep, Zenon DEF RunsTypes, RestOK, AWriteBegins, WriteBegins, ApplyCalibration
  <2>3. \A c \in Covers : Newest(c)' <= others'
    <3>0. /\ others \in Nat /\ others' \in Nat /\ others <= others'
          /\ \A c \in Covers : Newest(c) <= others /\ Newest(c) \in Nat /\ Newest(c)' \in Nat
      <4>1. \A c \in Covers : Newest(c) \in Nat /\ Newest(c) <= others
        BY NewestBound DEF RunsTypes, RestOK
      <4>2. \A c \in Covers : entity'[c].model \in Nat
        BY NewestMoves DEF EntityType
      <4>3. \A c \in Covers : Newest(c)' \in Nat
        BY <4>2 DEF Newest
      <4> QED BY <1>1, <4>1, <4>3 DEF RunsTypes, RestOK
    <3>1. CASE \A c \in Covers : Newest(c)' <= Newest(c)
      BY <3>0, <3>1
    <3>2. CASE others' = others + 1 /\ \A c \in Covers : Newest(c)' <= Newest(c) + 1
      BY <3>0, <3>2
    <3> QED BY <3>1, <3>2, NewestMoves
  <2> QED BY <1>1, <2>1, <2>2, <2>3, Zenon DEF RestOK
<1> QED BY <1>3, <1>4, <1>5, LinesStep, LockStep, FlagsStep, Zenon DEF RunsTypes

\* The types hold.
LEMMA TypesAlways == RunsSpec => []RunsTypes
<1>1. Init => RunsTypes
  <2> SUFFICES ASSUME Init PROVE RunsTypes
    OBVIOUS
  <2>1. bound \in BoundType /\ others = 0
    BY RunsAssumption DEF Init, RunsAssumption
  <2>2. 0 \in 0..bound.others /\ AnyCover \in Covers
    BY <2>1, RunsAssumption DEF BoundType, AnyCover, RunsAssumption
  <2>3. TasksOK /\ StopperOK
    <3>1. Asleep \in TaskType /\ Asleep.pc = "idle"
      BY <2>2 DEF Asleep, TaskType, Directions
    <3> QED BY <3>1 DEF Init, TasksOK, StopperOK, Tasks
  <2>4. EntitiesOK
    <3>1. StandsAt("bottom") \in EntityType
      <4>1. {"top", "bottom"} \subseteq Ends \cup {"between"} /\ "none" \in Directions \cup {"none"}
        BY DEF Ends
      <4> QED BY <2>2, <4>1 DEF StandsAt, EntityType
    <3> QED BY <3>1 DEF Init, EntitiesOK
  <2>5. LinesOK /\ LockOK
    BY DEF Init, LinesOK, LockOK
  <2>6. FlagsOK
    BY Zenon DEF Init, FlagsOK
  <2>7. RestOK
    <3>1. \A c \in Covers : Newest(c) <= others
      <4>1. writing = "no" /\ "no" \notin Covers /\ \A c \in Covers : entity[c].model = 0
        BY RunsAssumption DEF Init, StandsAt, RunsAssumption
      <4> QED BY <2>1, <4>1 DEF Newest
    <3> QED BY <2>1, <2>2, <3>1 DEF Init, RestOK
  <2> QED BY <2>3, <2>4, <2>5, <2>6, <2>7 DEF RunsTypes
<1> QED BY <1>1, TypesStep, PTL DEF RunsSpec

--------------------------------------------------------------------------
(* One driver *)

\* Who is past the lock holds it.
DriverInv == \A t \in Drivers : InBlock(t) => lock.holder = t

\* A run is begun by who finds the lock free, and ends by releasing it.
LEMMA DriverStep ==
    ASSUME RunsTypes, DriverInv, RunStep
    PROVE  DriverInv'
<1>0. Nobody \notin Drivers /\ lock \in [holder : Drivers \cup {Nobody}, waiters : Seq(Drivers)]
  BY RunsAssumption DEF RunsAssumption, Drivers, Tasks, RunsTypes, LockOK
<1>1. CASE (\A u \in Drivers : SameRun(u)) /\ lock'.holder = lock.holder
  BY <1>1, Zenon DEF SameRun, DriverInv, InBlock
<1>2. ASSUME NEW t \in Drivers, Only(t), Waits(t) \/ Starts(t) \/ Returns(t) \/ GoesOn(t) \/ IsOver(t)
      PROVE  DriverInv'
  <2>1. \A u \in Drivers \ {t} : InBlock(u)' <=> InBlock(u)
    BY <1>2, Zenon DEF Only, SameRun, InBlock
  <2>2. CASE Waits(t)
    <3>1. ~InBlock(t)' /\ lock'.holder = lock.holder
      BY <2>2 DEF Waits, InBlock
    <3> QED BY <2>1, <3>1, Zenon DEF DriverInv
  <2>3. CASE Starts(t)
    <3>1. lock.holder = Nobody \/ InBlock(t)
      BY <2>3 DEF Starts, InBlock
    <3>2. lock.holder \in {Nobody, t} /\ lock'.holder = t
      <4>1. CASE lock.holder = Nobody /\ lock'.holder = t
        BY <4>1
      <4>2. CASE task[t].pc = "homing" /\ lock' = lock
        <5>1. InBlock(t)
          BY <4>2 DEF InBlock
        <5> QED BY <4>2, <5>1 DEF DriverInv
      <4> QED BY <2>3, <4>1, <4>2, Zenon DEF Starts
    <3>3. \A u \in Drivers \ {t} : ~InBlock(u)
      BY <1>0, <3>2 DEF DriverInv
    <3> QED BY <2>1, <3>2, <3>3, Zenon DEF DriverInv
  <2>4. CASE Returns(t)
    <3>1. ~InBlock(t)' /\ lock'.holder = lock.holder
      BY <2>4 DEF Returns, InBlock
    <3> QED BY <2>1, <3>1, Zenon DEF DriverInv
  <2>5. CASE GoesOn(t)
    <3>1. InBlock(t) /\ lock' = lock
      BY <2>5 DEF GoesOn, Underway, InBlock
    <3> QED BY <2>1, <3>1, Zenon DEF DriverInv
  <2>6. CASE IsOver(t)
    <3>1. InBlock(t) /\ ~InBlock(t)'
      BY <2>6 DEF IsOver, InBlock
    <3>2. \A u \in Drivers \ {t} : ~InBlock(u)
      BY <3>1, Zenon DEF DriverInv
    <3> QED BY <2>1, <3>1, <3>2, Zenon DEF DriverInv
  <2> QED BY <1>2, <2>2, <2>3, <2>4, <2>5, <2>6
<1> QED BY <1>1, <1>2, Zenon DEF RunStep

\* Who is past the lock holds it, always.
LEMMA DriverAlways == RunsSpec => []DriverInv
<1>1. Init => DriverInv
  BY DEF Init, DriverInv, InBlock, Asleep, Drivers
<1>2. RunsTypes /\ DriverInv /\ [Next]_runVars => DriverInv'
  BY RunMoves, DriverStep
<1> QED BY <1>1, <1>2, TypesAlways, PTL DEF RunsSpec

\* One task at a time drives the shutters of a gateway: no cover is homed, run or
\* tidied up beside another, whoever asks for it and whatever the run before it met.
THEOREM OneRunAtATime == RunsSpec => []OneDriver
<1>1. DriverInv => OneDriver
  BY Zenon DEF DriverInv, OneDriver, Drivers
<1> QED BY <1>1, DriverAlways, PTL

--------------------------------------------------------------------------
(* A cover that has not settled *)

\* A measured run of the cover is on its way to its end.
Measured(t) == Underway(t) \/ task[t].pc \in {"stopping", "tidying"}
BusyInv == \A c \in Covers : ~settled[c] => \E t \in Drivers : Measured(t) /\ task[t].cover = c

\* What has not settled has its run, and a run that ends settles its cover.
LEMMA BusyStep ==
    ASSUME RunsTypes, DriverInv, BusyInv, RunStep
    PROVE  BusyInv'
<1>0. Nobody \notin Drivers /\ settled \in [Covers -> BOOLEAN]
  BY RunsAssumption, Zenon DEF RunsAssumption, Drivers, Tasks, RunsTypes, FlagsOK
<1>1. \A t \in Drivers : Measured(t) => InBlock(t) /\ task[t].pc # "homing"
  BY DEF Measured, Underway, InBlock
<1>2. CASE (\A u \in Drivers : SameRun(u)) /\ UNCHANGED settled
  BY <1>2, Zenon DEF BusyInv, Measured, Underway, SameRun
<1>3. ASSUME NEW t \in Drivers, Only(t), Waits(t) \/ Starts(t) \/ Returns(t) \/ GoesOn(t) \/ IsOver(t)
      PROVE  BusyInv'
  <2>1. \A u \in Drivers \ {t} : task'[u].cover = task[u].cover /\ (Measured(u) => Measured(u)')
    BY <1>3, Zenon DEF Only, SameRun, Measured, Underway
  <2>2. CASE ~Measured(t) /\ UNCHANGED settled
    BY <2>1, <2>2, Zenon DEF BusyInv
  <2>3. CASE Starts(t) /\ task'[t].pc = "delivery" /\ settled' = [settled EXCEPT ![task'[t].cover] = FALSE]
    <3>1. ~Measured(t) /\ Measured(t)'
      <4>1. lock.holder = Nobody \/ task[t].pc = "homing"
        BY <2>3, Zenon DEF Starts
      <4>2. ~Measured(t)
        BY <1>0, <1>1, <4>1, Zenon DEF DriverInv
      <4>3. Measured(t)'
        BY <2>3 DEF Measured, Underway
      <4> QED BY <4>2, <4>3
    <3>2. \A c \in Covers : ~settled'[c] => ~settled[c] \/ c = task'[t].cover
      BY <1>0, <2>3, Zenon
    <3> QED BY <2>1, <3>1, <3>2, Zenon DEF BusyInv
  <2>4. CASE GoesOn(t)
    <3>1. Measured(t)' /\ task'[t].cover = task[t].cover /\ settled' = settled
      BY <2>4 DEF GoesOn, Measured, Underway
    <3>2. ASSUME NEW c \in Covers, ~settled[c]
          PROVE  \E u \in Drivers : Measured(u)' /\ task'[u].cover = c
      <4>1. PICK u \in Drivers : Measured(u) /\ task[u].cover = c
        BY <3>2, Zenon DEF BusyInv
      <4>2. CASE u = t
        BY <3>1, <4>1, <4>2
      <4>3. CASE u # t
        BY <2>1, <4>1, <4>3, Zenon
      <4> QED BY <4>2, <4>3
    <3> QED BY <3>1, <3>2, Zenon DEF BusyInv
  <2>5. CASE settled' = [settled EXCEPT ![task[t].cover] = TRUE]
    <3>1. \A c \in Covers : ~settled'[c] => ~settled[c] /\ c # task[t].cover
      BY <1>0, <2>5, Zenon
    <3> QED BY <2>1, <3>1, Zenon DEF BusyInv
  <2>6. Waits(t) \/ Returns(t) \/ (Starts(t) /\ UNCHANGED settled) \/ (task[t].pc = "homing" /\ UNCHANGED settled)
          => ~Measured(t) /\ UNCHANGED settled
    <3>1. Waits(t) => ~Measured(t) /\ UNCHANGED settled
      BY DEF Waits, Measured, Underway
    <3>2. Returns(t) => ~Measured(t) /\ UNCHANGED settled
      BY <1>0, <1>1, Zenon DEF Returns, DriverInv
    <3>3. Starts(t) => ~Measured(t)
      BY <1>0, <1>1, Zenon DEF Starts, DriverInv
    <3> QED BY <1>1, <3>1, <3>2, <3>3, Zenon
  <2> QED BY <1>3, <2>2, <2>3, <2>4, <2>5, <2>6, Zenon DEF Starts, IsOver
<1> QED BY <1>2, <1>3, Zenon DEF RunStep

\* Only a cover that somebody drives has not settled.
LEMMA BusyAlways == RunsSpec => []BusyInv
<1>1. Init => BusyInv
  BY Zenon DEF Init, BusyInv
<1>2. RunsTypes /\ DriverInv /\ BusyInv /\ [Next]_runVars => BusyInv'
  BY RunMoves, BusyStep
<1> QED BY <1>1, <1>2, TypesAlways, DriverAlways, PTL DEF RunsSpec

\* A reload is not kept waiting for a cover that nothing drives any more.
THEOREM WaitsForARun == RunsSpec => []UnsettledIsBusy
<1>1. BusyInv => UnsettledIsBusy
  BY DEF BusyInv, UnsettledIsBusy, Measured, Underway, Drivers
<1> QED BY <1>1, BusyAlways, PTL

--------------------------------------------------------------------------
(* The model of a run *)

\* The run that is on its way began with the newest model in force or on its way.
PlannedInv ==
    /\ ~mixed
    /\ \A t \in Drivers : InBlock(t) => Newest(task[t].cover) <= task[t].newest

\* A run begins so, and no write begins beside it: a conversation's own save is asked for
\* when no task is past the lock, and any other write is refused while a run calibrates.
LEMMA PlannedStep ==
    ASSUME RunsTypes, PlannedInv, [Next]_runVars
    PROVE  PlannedInv'
<1>0. /\ \A t \in Tasks : task[t].cover \in Covers /\ task[t].newest \in Nat
      /\ \A c \in Covers : /\ entity[c].model \in Nat /\ Newest(c) \in Nat /\ Newest(c)' \in Nat
                           /\ entity[c].model <= Newest(c)
      /\ Drivers \subseteq Tasks
  <2>1. \A c \in Covers : entity[c].model \in Nat /\ entity'[c].model \in Nat
    BY NewestMoves DEF EntityType, RunsTypes, EntitiesOK
  <2>2. \A c \in Covers : /\ entity[c].model \in Nat /\ Newest(c) \in Nat /\ Newest(c)' \in Nat
                          /\ entity[c].model <= Newest(c)
    BY <2>1 DEF Newest
  <2> QED BY <2>2 DEF RunsTypes, TasksOK, TaskType, Drivers
<1>1. ~mixed'
  <2>1. mixed' = mixed \/ \E t \in Tasks : Stopped(t)
    BY Zenon DEF Next, runVars, Physics, FrameTaken, FrameDropped, MotorArrives, MotorReported,
         EstimateArrives, ServiceHomed, ApplyCalibration, OpenTalk, GuideStops, Dashboard,
         ServiceCalled, Keypad, GuideRuns, Take, Drive, Progress, Woken, DeliveryKnown, NotDelivered,
         EchoHeard, NoEcho, TidyUp, RunElapsed, Abort, HomeDone, CloseTalk, DialogExpires,
         CloseDialog, Reload, ReloadAnyway, GatewayReloaded, AWriteBegins, WriteBegins
  <2>2. ASSUME NEW t \in Tasks, Stopped(t) PROVE ~mixed'
    <3>1. InBlock(t)
      BY <2>2 DEF Stopped, InBlock
    <3>2. t # Stopper => ~(entity[task[t].cover].model > task[t].newest)
      <4> SUFFICES ASSUME t # Stopper PROVE ~(entity[task[t].cover].model > task[t].newest)
        OBVIOUS
      <4>1. Newest(task[t].cover) <= task[t].newest
        BY <3>1, Zenon DEF PlannedInv, Drivers
      <4> QED BY <1>0, <4>1
    <3> QED BY <2>2, <3>2, Zenon DEF Stopped, PlannedInv
  <2> QED BY <2>1, <2>2, Zenon DEF PlannedInv
<1>2. ASSUME \A c \in Covers : Newest(c)' <= Newest(c) PROVE PlannedInv'
  <2>1. ASSUME NEW u \in Drivers, NEW c \in Covers, task'[u].cover = c,
               task'[u].newest \in Nat, Newest(c) <= task'[u].newest
        PROVE  (Newest(task[u].cover) <= task[u].newest)'
    <3>1. Newest(c)' <= task'[u].newest
      BY <1>0, <1>2, <2>1
    <3> QED BY <2>1, <3>1 DEF Newest
  <2>2. ASSUME NEW u \in Drivers, InBlock(u), task'[u].cover = task[u].cover,
               task'[u].newest = task[u].newest
        PROVE  (Newest(task[u].cover) <= task[u].newest)'
    <3>1. u \in Tasks /\ Newest(task[u].cover) <= task[u].newest
      BY <1>0, <2>2, Zenon DEF PlannedInv
    <3> QED BY <1>0, <2>1, <2>2, <3>1
  <2>3. ASSUME NEW u \in Drivers, InBlock(u)', SameRun(u)
        PROVE  (Newest(task[u].cover) <= task[u].newest)'
    <3>1. InBlock(u) /\ task'[u].cover = task[u].cover /\ task'[u].newest = task[u].newest
      BY <2>3, Zenon DEF SameRun, InBlock
    <3> QED BY <2>2, <3>1
  <2>4. ASSUME NEW t \in Drivers, InBlock(t)', Waits(t) \/ Starts(t) \/ Returns(t) \/ GoesOn(t) \/ IsOver(t)
        PROVE  (Newest(task[t].cover) <= task[t].newest)'
    <3>1. CASE Starts(t)
      <4>1. task'[t].cover \in Covers /\ task'[t].newest = Newest(task'[t].cover)
        BY <3>1, Zenon DEF Starts
      <4> QED BY <1>0, <2>1, <4>1
    <3>2. CASE GoesOn(t)
      <4>1. InBlock(t) /\ task'[t].cover = task[t].cover /\ task'[t].newest = task[t].newest
        BY <3>2 DEF GoesOn, Underway, InBlock
      <4> QED BY <2>2, <4>1
    <3>3. ~(Waits(t) \/ Returns(t) \/ IsOver(t))
      BY <2>4 DEF Waits, Returns, IsOver, InBlock
    <3> QED BY <2>4, <3>1, <3>2, <3>3
  <2>5. \A u \in Drivers : InBlock(u)' => (Newest(task[u].cover) <= task[u].newest)'
    BY <2>3, <2>4, RunMoves, Zenon DEF RunStep, Only
  <2> QED BY <1>1, <2>5, Zenon DEF PlannedInv
<1>3. CASE AWriteBegins
  <2>1. PICK c \in Covers, holder \in {{}, talk} : WriteBegins(c, holder)
    BY <1>3, Zenon DEF AWriteBegins
  <2>2. \A t \in Drivers : ~InBlock(t)
    <3>1. CASE holder = {}
      <4>1. \A d \in Covers : ~Calibrating(d)
        BY <2>1, <3>1 DEF WriteBegins, RefusedAsBusy
      <4> QED BY <1>0, <4>1, Zenon DEF Calibrating
    <3>2. CASE \A t \in Tasks : ~InBlock(t)
      BY <1>0, <3>2, Zenon
    <3> QED BY <2>1, <3>1, <3>2, Zenon DEF WriteBegins
  <2>3. task' = task
    BY <2>1, Zenon DEF WriteBegins
  <2> QED BY <1>1, <2>2, <2>3, Zenon DEF PlannedInv, InBlock
<1> QED BY <1>2, <1>3, NewestMoves, Zenon

\* A run that is reported as measured was stopped on the model it was planned with, or on
\* that of a write that was under way when it began: no write begins in the middle of it.
THEOREM MeasuredOnOneModel == RunsSpec => []OneModelPerRun
<1>1. Init => PlannedInv
  BY DEF Init, PlannedInv, InBlock, Asleep, Drivers
<1>2. RunsTypes /\ PlannedInv /\ [Next]_runVars => PlannedInv'
  BY PlannedStep
<1>3. PlannedInv => OneModelPerRun
  BY Zenon DEF PlannedInv, OneModelPerRun
<1> QED BY <1>1, <1>2, <1>3, TypesAlways, PTL DEF RunsSpec

--------------------------------------------------------------------------
(* What the entity waits for is in the command path *)

\* The frame of the movement is the last direction frame in the line, ...
AwaitOK(c) ==
    entity[c].awaited =>
        \E i \in DOMAIN line[c] :
            /\ line[c][i].kind = entity[c].moving
            /\ \A j \in DOMAIN line[c] : j > i => line[c][j].kind = "stop"
\* ... and the stop is there.
PendOK(c) == entity[c].pending => \E i \in DOMAIN line[c] : line[c][i].kind = "stop"
LineInv == \A c \in Covers : AwaitOK(c) /\ PendOK(c)

\* The entity of c waits for nothing that it did not wait for before.
WaitsForNoMore(c) ==
    /\ entity'[c].awaited => entity[c].awaited /\ entity'[c].moving = entity[c].moving
    /\ entity'[c].pending => entity[c].pending

\* How a step moves the command path and what the entities wait for.
AwaitStep ==
    \/ UNCHANGED line /\ \A c \in Covers : WaitsForNoMore(c)
    \/ \E c \in Covers, d \in Directions, by \in Tasks \cup {Nobody} : DirectionQueued(c, d, by)
    \/ \E c \in Covers, by \in Tasks \cup {Nobody} : StopQueued(c, by)
    \/ \E c \in Covers : \E taken : line[c] # <<>> /\ Decided(c, taken)

\* After a frame was heard of, the entity waits for another one, if for any.
LEMMA HeardAwaits ==
    ASSUME NEW e \in EntityType, NEW kind, NEW last \in BOOLEAN, NEW taken
    PROVE  LET h == Heard(e, kind, last, taken)
           IN  /\ h.awaited => e.awaited /\ h.moving = e.moving /\ ~(last /\ kind # "stop")
               /\ h.pending => e.pending /\ ~(last /\ kind = "stop")
<1> DEFINE fate == IF taken THEN "written" ELSE "dropped"
           known == IF last /\ kind # "stop" THEN [e EXCEPT !.direction = fate] ELSE e
           h == Heard(e, kind, last, taken)
<1>1. /\ known \in EntityType /\ known.awaited = e.awaited /\ known.pending = e.pending
      /\ known.moving = e.moving
  BY DEF EntityType
<1> HIDE DEF known
<1>2. \A place : ~Finish(known, place).awaited /\ ~Finish(known, place).pending
  BY <1>1 DEF Finish, EntityType
<1>3. CASE last /\ kind # "stop" /\ e.awaited /\ taken
  <2>1. h = [known EXCEPT !.awaited = FALSE]
    BY <1>3 DEF Heard, known
  <2> QED BY <1>1, <1>3, <2>1 DEF EntityType
<1>4. CASE last /\ kind # "stop" /\ e.awaited /\ ~taken
  <2>1. h = Finish(known, e.from)
    BY <1>4 DEF Heard, known
  <2> QED BY <1>2, <2>1
<1>5. CASE last /\ kind = "stop" /\ e.pending /\ taken
  <2>1. h = [Finish(known, "between") EXCEPT !.stopped = TRUE]
    BY <1>5 DEF Heard, known
  <2>2. ~h.awaited /\ ~h.pending
    BY <1>1, <2>1 DEF Finish, EntityType
  <2> QED BY <2>2
<1>6. CASE last /\ kind = "stop" /\ e.pending /\ ~taken
  <2> DEFINE freed == [known EXCEPT !.pending = FALSE]
  <2>1. h = Continue(freed)
    BY <1>6 DEF Heard, known
  <2>2. freed \in EntityType /\ ~freed.pending /\ freed.awaited = e.awaited /\ freed.moving = e.moving
    BY <1>1 DEF EntityType
  <2> HIDE DEF freed
  <2>3. \A d : ~Start(freed, d, FALSE).awaited /\ ~Start(freed, d, FALSE).pending
    BY <2>2 DEF Start, Finish, EntityType
  <2> QED BY <1>6, <2>1, <2>2, <2>3 DEF Continue
<1>7. CASE ~(last /\ kind # "stop" /\ e.awaited) /\ ~(last /\ kind = "stop" /\ e.pending)
  <2>1. h = known
    BY <1>7 DEF Heard, known
  <2> QED BY <1>1, <1>7, <2>1
<1> QED BY <1>3, <1>4, <1>5, <1>6, <1>7

\* What the motor, the estimate, the keypad, the panel and a refusal do to the entity.
LEMMA QuietEntity ==
    ASSUME EntitiesOK, NEW c \in Covers,
           \/ UNCHANGED entity \/ MotorReported(c) \/ EstimateArrives(c) \/ ApplyCalibration(c)
           \/ \E key \in Directions \cup {"stop"} : Keypad(c, key)
           \/ DirectionRefused(c) \/ StopRefused(c)
    PROVE  \A b \in Covers : WaitsForNoMore(b)
<1>0. entity \in [Covers -> EntityType]
  BY DEF EntitiesOK
<1>1. ASSUME NEW e, entity' = [entity EXCEPT ![c] = e],
             /\ e.awaited => entity[c].awaited /\ e.moving = entity[c].moving
             /\ e.pending => entity[c].pending
      PROVE  \A b \in Covers : WaitsForNoMore(b)
  BY <1>0, <1>1 DEF WaitsForNoMore
<1>2. \A place : ~Finish(entity[c], place).awaited /\ ~Finish(entity[c], place).pending
  BY <1>0 DEF Finish, EntityType
<1>3. \A d : ~Start(entity[c], d, FALSE).awaited /\ ~Start(entity[c], d, FALSE).pending
  BY <1>0 DEF Start, Finish, EntityType
<1>4. CASE UNCHANGED entity
  BY <1>4, Zenon DEF WaitsForNoMore
<1>5. CASE MotorReported(c)
  <2> DEFINE e == [entity[c] EXCEPT !.started = TRUE]
  <2>1. entity' = [entity EXCEPT ![c] = e]
    BY <1>5 DEF MotorReported
  <2>2. e.awaited = entity[c].awaited /\ e.moving = entity[c].moving /\ e.pending = entity[c].pending
    BY <1>0 DEF EntityType
  <2> QED BY <1>1, <2>1, <2>2
<1>6. CASE EstimateArrives(c)
  BY <1>1, <1>2, <1>6, Zenon DEF EstimateArrives
<1>7. CASE ApplyCalibration(c)
  <2> DEFINE e == WithTheWrite(entity[c])
  <2>1. entity' = entity \/ entity' = [entity EXCEPT ![c] = e]
    BY <1>7, Zenon DEF ApplyCalibration
  <2>2. e.awaited = entity[c].awaited /\ e.moving = entity[c].moving /\ e.pending = entity[c].pending
    BY <1>0, WithTheWriteKeeps
  <2> HIDE DEF e
  <2> QED BY <1>1, <1>4, <2>1, <2>2
<1>8. ASSUME NEW key \in Directions \cup {"stop"}, Keypad(c, key)
      PROVE  \A b \in Covers : WaitsForNoMore(b)
  <2> DEFINE old == entity[c]
             place == IF old.moving = "none" THEN old.place ELSE "between"
  <2>1. \/ entity' = entity
        \/ entity' = [entity EXCEPT ![c] = old]
        \/ entity' = [entity EXCEPT ![c] = Finish(old, place)]
        \/ entity' = [entity EXCEPT ![c] = Start(old, key, FALSE)]
    BY <1>8, Zenon DEF Keypad
  <2> HIDE DEF place
  <2> QED BY <1>1, <1>2, <1>3, <1>4, <2>1
<1>9. CASE DirectionRefused(c)
  <2> DEFINE e == [entity[c] EXCEPT !.direction = "none"]
  <2>1. entity' = [entity EXCEPT ![c] = e]
    BY <1>9 DEF DirectionRefused
  <2>2. e.awaited = entity[c].awaited /\ e.moving = entity[c].moving /\ e.pending = entity[c].pending
    BY <1>0 DEF EntityType
  <2> QED BY <1>1, <2>1, <2>2
<1>10. CASE StopRefused(c)
  <2> DEFINE e == [entity[c] EXCEPT !.stopped = FALSE]
  <2>1. entity' = [entity EXCEPT ![c] = e]
    BY <1>10 DEF StopRefused
  <2>2. e.awaited = entity[c].awaited /\ e.moving = entity[c].moving /\ e.pending = entity[c].pending
    BY <1>0 DEF EntityType
  <2> QED BY <1>1, <2>1, <2>2
<1> QED BY <1>4, <1>5, <1>6, <1>7, <1>8, <1>9, <1>10

\* Every step moves them so.
LEMMA AwaitMoves ==
    ASSUME RunsTypes, [Next]_runVars
    PROVE  AwaitStep
<1>0. /\ \A t \in Tasks : task[t].cover \in Covers /\ task[t].dir \in Directions
      /\ talk \subseteq Covers /\ EntitiesOK
      /\ \A d \in Directions : Opposite(d) \in Directions
      /\ Tasks \subseteq Tasks \cup {Nobody} /\ Nobody \in Tasks \cup {Nobody}
      /\ Guide \in Tasks /\ Stopper \in Tasks /\ Covers \subseteq Tasks
      /\ \E c \in Covers : TRUE
  BY RunsAssumption DEF RunsAssumption, RunsTypes, TasksOK, TaskType, RestOK, Directions, Opposite, Tasks
<1>1. ASSUME UNCHANGED <<entity, line>> PROVE AwaitStep
  BY <1>0, <1>1, QuietEntity, Zenon DEF AwaitStep
<1>2. ASSUME NEW c \in Covers, NEW d \in Directions, NEW by \in Tasks \cup {Nobody},
             \/ DirectionQueued(c, d, by) \/ DirectionRefused(c)
             \/ StopQueued(c, by) \/ StopRefused(c)
      PROVE  AwaitStep
  BY <1>0, <1>2, QuietEntity, Zenon DEF AwaitStep, DirectionRefused, StopRefused, Refuse
<1>3. CASE UNCHANGED runVars \/ HomeDone \/ CloseTalk \/ CloseDialog \/ Reload \/ ReloadAnyway
           \/ AWriteBegins
  BY <1>1, <1>3, Zenon DEF runVars, HomeDone, CloseTalk, CloseDialog, Abort, Reload, ReloadAnyway,
                           GatewayReloaded, AWriteBegins, WriteBegins, pathVars
<1>4. ASSUME NEW c \in Covers, \/ MotorReported(c) \/ EstimateArrives(c) \/ ApplyCalibration(c)
                               \/ \E key \in Directions \cup {"stop"} : Keypad(c, key)
      PROVE  AwaitStep
  <2>1. UNCHANGED line
    BY <1>4, Zenon DEF MotorReported, EstimateArrives, ApplyCalibration, Keypad, pathVars
  <2> QED BY <1>0, <1>4, <2>1, QuietEntity, Zenon DEF AwaitStep
<1>5. ASSUME NEW c \in Covers, FrameTaken(c) \/ FrameDropped(c) PROVE AwaitStep
  BY <1>5, Zenon DEF FrameTaken, FrameDropped, AwaitStep
<1>6. ASSUME NEW c \in Covers, ServiceHomed(c) PROVE AwaitStep
  BY <1>0, <1>2, <1>6, Zenon DEF ServiceHomed, TimedRun, Measuring, Sent
<1>7. ASSUME NEW t \in Tasks, NEW c \in Covers, NEW next, Stops(t, c, next) PROVE AwaitStep
  <2>1. "up" \in Directions
    BY DEF Directions
  <2> QED BY <1>0, <1>2, <1>7, <2>1, Zenon DEF Stops
<1>8. ASSUME NEW t \in Tasks, NEW c \in Covers, NEW d \in Directions, NEW prim,
             Drive(t, c, d, prim) \/ Take(t, c, d, prim)
      PROVE  AwaitStep
  <2>1. ASSUME Drive(t, c, d, prim) PROVE AwaitStep
    <3>1. \/ UNCHANGED <<entity, line>> \/ DirectionRefused(c)
          \/ \E dir \in {d, Opposite(d)} : DirectionQueued(c, dir, t)
      BY <2>1, Zenon DEF Drive, Homing, FreeRun, TimedRun, Measuring, Sent, pathVars
    <3>2. {d, Opposite(d)} \subseteq Directions
      BY <1>0
    <3> QED BY <1>0, <1>1, <1>2, <3>1, <3>2, Zenon
  <2> QED BY <1>1, <1>8, <2>1, Zenon DEF Take, pathVars
<1>9. ASSUME NEW c \in Covers, NEW d \in Directions,
             \/ Dashboard(c, d) \/ ServiceCalled(c, d) \/ \E prim \in bound.prims : GuideRuns(c, d, prim)
      PROVE  AwaitStep
  BY <1>0, <1>2, <1>8, <1>9, Zenon DEF Dashboard, ServiceCalled, GuideRuns
<1>10. ASSUME NEW c \in Covers, OpenTalk(c) \/ GuideStops(c) \/ MotorArrives(c) PROVE AwaitStep
  BY <1>0, <1>1, <1>7, <1>10, Zenon DEF OpenTalk, GuideStops, MotorArrives, pathVars
<1>11. ASSUME NEW t \in Tasks, Progress(t) PROVE AwaitStep
  <2>1. CASE DeliveryKnown(t) \/ NotDelivered(t) \/ EchoHeard(t) \/ NoEcho(t) \/ Stopped(t)
    BY <1>1, <2>1, Zenon DEF DeliveryKnown, NotDelivered, EchoHeard, NoEcho, Abort, Stopped, pathVars
  <2>2. CASE TidyUp(t)
    <3>1. "up" \in Directions
      BY DEF Directions
    <3> QED BY <1>0, <1>2, <2>2, <3>1, Zenon DEF TidyUp
  <2> QED BY <1>0, <1>7, <1>8, <1>11, <2>1, <2>2, Zenon DEF Progress, Woken, RunElapsed
<1>12. CASE DialogExpires
  <2>1. UNCHANGED <<entity, line>> \/ \E c \in talk : \E next : Stops(Stopper, c, next)
    BY <1>12, Zenon DEF DialogExpires, pathVars
  <2> QED BY <1>0, <1>1, <1>7, <2>1, Zenon
<1> QED BY <1>3, <1>4, <1>5, <1>6, <1>9, <1>10, <1>11, <1>12, Zenon DEF Next, Physics, AWriteBegins

\* A frame that leaves the line was not the one the entity goes on waiting for, and a
\* new one joins at the end.
LEMMA LineInvStep ==
    ASSUME RunsTypes, LineInv, AwaitStep
    PROVE  LineInv'
<1>0. entity \in [Covers -> EntityType] /\ LinesOK /\ line \in [Covers -> Seq(Frame)]
  BY DEF RunsTypes, EntitiesOK, LinesOK
<1>1. ASSUME UNCHANGED line, NEW c \in Covers, WaitsForNoMore(c) PROVE (AwaitOK(c) /\ PendOK(c))'
  BY <1>1, Zenon DEF LineInv, AwaitOK, PendOK, WaitsForNoMore
<1>2. ASSUME NEW b \in Covers, NEW kind \in Directions \cup {"stop"}, NEW by, NEW c \in Covers,
             QueuedAt(b, kind, by),
             \/ entity'[c] = entity[c] /\ (c = b => kind = "stop")
             \/ c = b /\ (entity'[c].awaited => entity'[c].moving = kind) /\ ~entity'[c].pending
             \/ c = b /\ kind = "stop" /\ entity'[c].awaited = entity[c].awaited
                      /\ entity'[c].moving = entity[c].moving
      PROVE  (AwaitOK(c) /\ PendOK(c))'
  <2> DEFINE n == Len(line[c])
  <2>1. /\ n \in Nat /\ DOMAIN line[c] = 1..n
        /\ DOMAIN line'[c] = 1..Len(line'[c])
        /\ Len(line'[c]) = IF c = b THEN n + 1 ELSE n
        /\ \A i \in 1..n : line'[c][i] = Forgotten(line[c][i], kind, by)
        /\ c = b => line'[c][n + 1] = [kind |-> kind, by |-> by]
    BY <1>2, Zenon DEF QueuedAt
  <2>2. \A i \in 1..n : line'[c][i].kind = line[c][i].kind
    <3>1. \A i \in 1..n : line[c][i] \in Frame
      BY <1>0, <2>1
    <3> QED BY <2>1, <3>1 DEF Forgotten, Frame
  <2>3. c = b => line'[c][n + 1].kind = kind
    BY <2>1
  <2> HIDE DEF n
  <2>4. CASE entity'[c].awaited = entity[c].awaited /\ entity'[c].moving = entity[c].moving
             /\ (c = b => kind = "stop")
    <3>1. AwaitOK(c)'
      <4> SUFFICES ASSUME entity'[c].awaited
                   PROVE  \E i \in DOMAIN line'[c] :
                             /\ line'[c][i].kind = entity'[c].moving
                             /\ \A j \in DOMAIN line'[c] : j > i => line'[c][j].kind = "stop"
        BY DEF AwaitOK
      <4>1. PICK i \in 1..n : line[c][i].kind = entity[c].moving
                              /\ \A j \in 1..n : j > i => line[c][j].kind = "stop"
        BY <2>1, <2>4, Zenon DEF LineInv, AwaitOK
      <4>2. i \in DOMAIN line'[c] /\ line'[c][i].kind = entity'[c].moving
        BY <2>1, <2>2, <2>4, <4>1
      <4>3. ASSUME NEW j \in DOMAIN line'[c], j > i PROVE line'[c][j].kind = "stop"
        <5>1. j \in 1..n \/ (c = b /\ j = n + 1)
          BY <2>1
        <5> QED BY <2>2, <2>3, <2>4, <4>1, <4>3, <5>1
      <4> QED BY <4>2, <4>3
    <3>2. PendOK(c)'
      <4>1. CASE c = b
        <5>1. n + 1 \in DOMAIN line'[c]
          BY <2>1, <4>1
        <5> QED BY <2>3, <2>4, <4>1, <5>1 DEF PendOK
      <4>2. CASE c # b
        <5>1. entity'[c] = entity[c] /\ DOMAIN line'[c] = 1..n
          BY <1>2, <2>1, <4>2
        <5> QED BY <2>1, <2>2, <5>1, Zenon DEF LineInv, PendOK
      <4> QED BY <4>1, <4>2
    <3> QED BY <3>1, <3>2
  <2>5. CASE c = b /\ (entity'[c].awaited => entity'[c].moving = kind) /\ ~entity'[c].pending
    <3>1. n + 1 \in DOMAIN line'[c] /\ \A j \in DOMAIN line'[c] : ~(j > n + 1)
      BY <2>1, <2>5
    <3> QED BY <2>3, <2>5, <3>1 DEF AwaitOK, PendOK
  <2> QED BY <1>2, <2>4, <2>5
<1>3. ASSUME NEW b \in Covers, NEW d \in Directions, NEW by \in Tasks \cup {Nobody},
             DirectionQueued(b, d, by), NEW c \in Covers
      PROVE  (AwaitOK(c) /\ PendOK(c))'
  <2> DEFINE s == Start(entity[b], d, TRUE)
  <2>1. QueuedAt(b, d, by) /\ d \in Directions \cup {"stop"}
    BY <1>0, <1>3, QueueShape, Zenon DEF DirectionQueued
  <2>2. s \in EntityType /\ (s.awaited => s.moving = d) /\ ~s.pending
    <3>1. entity[b] \in EntityType
      BY <1>0
    <3>2. s \in EntityType
      BY <3>1, StartType, Zenon
    <3> QED BY <3>1, <3>2 DEF Start, Finish, EntityType
  <2>3. entity' = [entity EXCEPT ![b] = [s EXCEPT !.direction = "queued"]]
    BY <1>3, Zenon DEF DirectionQueued
  <2> HIDE DEF s
  <2>4. CASE c = b
    <3>1. entity'[c] = [s EXCEPT !.direction = "queued"]
      BY <1>0, <2>3, <2>4
    <3>2. (entity'[c].awaited => entity'[c].moving = d) /\ ~entity'[c].pending
      BY <2>2, <3>1 DEF EntityType
    <3> QED BY <1>2, <2>1, <2>4, <3>2
  <2>5. CASE c # b
    <3>1. entity'[c] = entity[c]
      BY <1>0, <2>3, <2>5
    <3> QED BY <1>2, <2>1, <2>5, <3>1
  <2> QED BY <2>4, <2>5
<1>4. ASSUME NEW b \in Covers, NEW by \in Tasks \cup {Nobody}, StopQueued(b, by), NEW c \in Covers
      PROVE  (AwaitOK(c) /\ PendOK(c))'
  <2>0. "stop" \in Directions \cup {"stop"}
    OBVIOUS
  <2>1. QueuedAt(b, "stop", by)
    BY <1>0, <1>4, <2>0, QueueShape, Zenon DEF StopQueued
  <2>2. entity'[c].awaited = entity[c].awaited /\ entity'[c].moving = entity[c].moving
        /\ (c # b => entity'[c] = entity[c])
    BY <1>0, <1>4 DEF StopQueued, EntityType
  <2> QED BY <1>2, <2>0, <2>1, <2>2
<1>5. ASSUME NEW b \in Covers, NEW taken, line[b] # <<>>, Decided(b, taken), NEW c \in Covers
      PROVE  (AwaitOK(c) /\ PendOK(c))'
  <2> DEFINE f == Head(line[b])
             last == ~\E i \in 2..Len(line[b]) : (line[b][i].kind = "stop") = (f.kind = "stop")
             h == Heard(entity[b], f.kind, last, taken)
  <2>1. entity' = [entity EXCEPT ![b] = h] /\ line' = [line EXCEPT ![b] = Tail(line[b])]
    BY <1>5, Zenon DEF Decided
  <2>2. CASE c # b
    <3>1. entity'[c] = entity[c] /\ line'[c] = line[c]
      BY <1>0, <2>1, <2>2, Zenon
    <3> QED BY <3>1 DEF LineInv, AwaitOK, PendOK
  <2>3. CASE c = b
    <3> DEFINE n == Len(line[b])
    <3>1. /\ n \in Nat /\ n >= 1 /\ DOMAIN line[b] = 1..n /\ f = line[b][1]
          /\ DOMAIN Tail(line[b]) = 1..(n - 1)
          /\ \A i \in 1..(n - 1) : Tail(line[b])[i] = line[b][i + 1]
          /\ \A i \in 1..n : line[b][i] \in Frame
      <4>1. line[b] \in Seq(Frame) /\ line[b] # <<>>
        BY <1>0, <1>5
      <4> QED BY <4>1
    <3>2. entity'[c] = h /\ line'[c] = Tail(line[b])
      BY <1>0, <2>1, <2>3, Zenon
    <3>3. /\ h.awaited => entity[b].awaited /\ h.moving = entity[b].moving /\ ~(last /\ f.kind # "stop")
          /\ h.pending => entity[b].pending /\ ~(last /\ f.kind = "stop")
      <4>1. last \in BOOLEAN /\ entity[b] \in EntityType
        BY <1>0
      <4> HIDE DEF last, f
      <4> QED BY <4>1, HeardAwaits
    <3> HIDE DEF h
    <3>0. /\ DOMAIN line'[c] = 1..(n - 1) /\ entity'[c] = h
          /\ \A i \in 1..(n - 1) : line'[c][i] = line[b][i + 1]
      BY <3>1, <3>2
    <3>4. AwaitOK(c)'
      <4> SUFFICES ASSUME entity'[c].awaited
                   PROVE  \E i \in DOMAIN line'[c] :
                             /\ line'[c][i].kind = entity'[c].moving
                             /\ \A j \in DOMAIN line'[c] : j > i => line'[c][j].kind = "stop"
        BY DEF AwaitOK
      <4>0. h.awaited /\ entity'[c].moving = entity[b].moving
        BY <3>0, <3>3
      <4>1. PICK i \in 1..n : line[b][i].kind = entity[b].moving
                              /\ \A j \in 1..n : j > i => line[b][j].kind = "stop"
        BY <3>1, <3>3, <4>0, Zenon DEF LineInv, AwaitOK
      <4>2. i # 1
        <5> SUFFICES ASSUME i = 1 PROVE FALSE
          OBVIOUS
        <5>1. f.kind # "stop"
          <6>1. entity[b].moving # "stop"
            BY <1>0 DEF EntityType, Directions
          <6>2. f.kind = entity[b].moving
            BY <3>1, <4>1
          <6> QED BY <6>1, <6>2
        <5>2. last
          BY <3>1, <4>1, <5>1
        <5> QED BY <3>3, <4>0, <5>1, <5>2
      <4>3. i - 1 \in 1..(n - 1) /\ (i - 1) + 1 = i
        BY <3>1, <4>2
      <4>4. line'[c][i - 1].kind = entity'[c].moving
        BY <3>0, <4>0, <4>1, <4>3
      <4>5. ASSUME NEW j \in 1..(n - 1), j > i - 1
            PROVE  line'[c][j].kind = "stop"
        <5>1. j + 1 \in 1..n /\ j + 1 > i
          BY <3>1, <4>5
        <5>2. line[b][j + 1].kind = "stop"
          BY <4>1, <5>1
        <5>3. line'[c][j] = line[b][j + 1]
          BY <3>0
        <5> QED BY <5>2, <5>3
      <4> QED BY <3>0, <4>3, <4>4, <4>5
    <3>5. PendOK(c)'
      <4> SUFFICES ASSUME h.pending PROVE \E i \in 1..(n - 1) : line[b][i + 1].kind = "stop"
        BY <3>0 DEF PendOK
      <4>1. PICK i \in 1..n : line[b][i].kind = "stop"
        BY <3>1, <3>3, Zenon DEF LineInv, PendOK
      <4>2. \E k \in 2..n : line[b][k].kind = "stop"
        <5>1. CASE i # 1
          BY <4>1, <5>1
        <5>2. CASE i = 1
          <6>1. f.kind = "stop" /\ ~last
            BY <3>1, <3>3, <4>1, <5>2
          <6> QED BY <6>1
        <5> QED BY <5>1, <5>2
      <4>3. PICK k \in 2..n : line[b][k].kind = "stop"
        BY <4>2
      <4>4. k - 1 \in 1..(n - 1) /\ (k - 1) + 1 = k
        BY <3>1
      <4> QED BY <4>3, <4>4
    <3> QED BY <3>4, <3>5
  <2> QED BY <2>2, <2>3
<1> QED BY <1>1, <1>3, <1>4, <1>5, Zenon DEF AwaitStep, LineInv

\* What the entity waits for is in the command path, always.
LEMMA LineAlways == RunsSpec => []LineInv
<1>1. Init => LineInv
  BY DEF Init, StandsAt, LineInv, AwaitOK, PendOK
<1>2. RunsTypes /\ LineInv /\ [Next]_runVars => LineInv'
  BY AwaitMoves, LineInvStep
<1> QED BY <1>1, <1>2, TypesAlways, PTL DEF RunsSpec

\* Every variable has its type, and an entity never waits for a frame that the command
\* path does not have: no order of frames, refusals, drops and commands of others leaves
\* it waiting for good.
THEOREM RunsTypeCorrect == RunsSpec => []RunsTypeOK
<1>1. RunsTypes /\ LineInv => RunsTypeOK
  <2> SUFFICES ASSUME RunsTypes, LineInv PROVE RunsTypeOK
    OBVIOUS
  <2>1. Seq(Drivers) \subseteq Seq(Tasks)
    BY DEF Drivers
  <2>2. lock.holder \in Tasks \cup {Nobody} /\ lock.waiters \in Seq(Tasks)
    BY <2>1 DEF RunsTypes, LockOK, Drivers
  <2>3. \A c \in Covers :
           /\ entity[c].awaited => \E i \in DOMAIN line[c] : line[c][i].kind = entity[c].moving
           /\ entity[c].pending => \E i \in DOMAIN line[c] : line[c][i].kind = "stop"
    BY Zenon DEF LineInv, AwaitOK, PendOK
  <2> QED BY <2>2, <2>3, Zenon DEF RunsTypeOK, RunsTypes, TasksOK, EntitiesOK, LinesOK, FlagsOK, RestOK, Frame
<1> QED BY <1>1, TypesAlways, LineAlways, PTL

--------------------------------------------------------------------------
(* The frame of a run *)

\* While a run is under way, at most one direction frame of it is in the command path,
\* and it knows no fate of that yet.
FrameInv(t) ==
    Underway(t) =>
        \A c \in Covers : \A i \in DOMAIN line[c] :
            line[c][i].by = t /\ line[c][i].kind # "stop" =>
                /\ c = task[t].cover /\ task[t].sent = "queued"
                /\ \A j \in DOMAIN line[c] : line[c][j].by = t /\ line[c][j].kind # "stop" => j = i

\* Until somebody else commands the cover, that frame is the last one of its line, and
\* when it was written the entity knows so.
SentInv(t) ==
    Underway(t) /\ ~task[t].shared =>
        LET c == task[t].cover
        IN  /\ task[t].sent = "queued" =>
                \E i \in DOMAIN line[c] :
                    /\ line[c][i].by = t /\ line[c][i].kind # "stop"
                    /\ \A j \in DOMAIN line[c] : line[c][j].kind # "stop" => j <= i
            /\ task[t].sent = "written" =>
                /\ entity[c].direction = "written"
                /\ \A i \in DOMAIN line[c] : line[c][i].kind = "stop"

\* A run that is under way after a step began with it, ...
Begins(t) ==
    \E c \in Covers, d \in Directions :
        DirectionQueued(c, d, t) /\ task'[t].cover = c /\ task'[t].sent = "queued"
Holds(t) == Underway(t) /\ task'[t].cover = task[t].cover /\ (task[t].shared => task'[t].shared)
\* ... saw at most a frame of another kind or of another task join the line, ...
Unheard(t) ==
    /\ Holds(t) /\ task'[t].sent = task[t].sent
    /\ entity'[task[t].cover].direction = entity[task[t].cover].direction \/ task'[t].shared
    /\ \/ UNCHANGED line
       \/ \E c \in Covers, kind \in Directions \cup {"stop"}, by \in Tasks \cup {Nobody} :
             /\ Queue(c, kind, by)
             /\ kind = "stop" \/ (by # t /\ (c = task[t].cover => task'[t].shared))
\* ... or saw one leave it.
Hears(t) == Holds(t) /\ \E c \in Covers : \E taken : line[c] # <<>> /\ Decided(c, taken)

\* The fate of a direction frame is known of the last one only.
LEMMA HeardDirection ==
    ASSUME NEW e \in EntityType, NEW kind, NEW last \in BOOLEAN, NEW taken
    PROVE  LET h == Heard(e, kind, last, taken)
           IN  /\ ~(last /\ kind # "stop") => h.direction = e.direction
               /\ last /\ kind # "stop" /\ taken => h.direction = "written"
<1> DEFINE fate == IF taken THEN "written" ELSE "dropped"
           known == IF last /\ kind # "stop" THEN [e EXCEPT !.direction = fate] ELSE e
           freed == [known EXCEPT !.pending = FALSE]
           h == Heard(e, kind, last, taken)
<1>1. /\ known \in EntityType
      /\ known.direction = IF last /\ kind # "stop" THEN fate ELSE e.direction
  BY DEF EntityType
<1> HIDE DEF known
<1>2. \A place : Finish(known, place).direction = known.direction
  BY <1>1 DEF Finish, EntityType
<1>3. [Finish(known, "between") EXCEPT !.stopped = TRUE].direction = known.direction
  BY <1>1 DEF Finish, EntityType
<1>4. Continue(freed).direction = known.direction
  <2>1. freed \in EntityType /\ freed.direction = known.direction
    BY <1>1 DEF EntityType
  <2> HIDE DEF freed
  <2>2. \A d : Start(freed, d, FALSE).direction = freed.direction
    BY <2>1 DEF Start, Finish, EntityType
  <2> QED BY <2>1, <2>2 DEF Continue
<1>5. [known EXCEPT !.awaited = FALSE].direction = known.direction
  BY <1>1 DEF EntityType
<1>6. h.direction = known.direction
  BY <1>2, <1>3, <1>4, <1>5 DEF Heard, known
<1> QED BY <1>1, <1>6

\* The motor, the estimate, the keypad, the panel and a stop leave it alone.
LEMMA DirectionKept ==
    ASSUME EntitiesOK, NEW c \in Covers,
           \/ MotorReported(c) \/ EstimateArrives(c) \/ ApplyCalibration(c)
           \/ \E key \in Directions \cup {"stop"} : Keypad(c, key)
           \/ StopRefused(c) \/ \E by : StopQueued(c, by)
    PROVE  \A b \in Covers : entity'[b].direction = entity[b].direction
<1>0. entity \in [Covers -> EntityType]
  BY DEF EntitiesOK
<1>1. ASSUME NEW e, entity' = [entity EXCEPT ![c] = e], e.direction = entity[c].direction
      PROVE  \A b \in Covers : entity'[b].direction = entity[b].direction
  BY <1>0, <1>1
<1>2. \A place : Finish(entity[c], place).direction = entity[c].direction
  BY <1>0 DEF Finish, EntityType
<1>3. \A d : Start(entity[c], d, FALSE).direction = entity[c].direction
  BY <1>0 DEF Start, Finish, EntityType
<1>4. CASE MotorReported(c)
  <2> DEFINE e == [entity[c] EXCEPT !.started = TRUE]
  <2>1. entity' = [entity EXCEPT ![c] = e] /\ e.direction = entity[c].direction
    BY <1>0, <1>4 DEF MotorReported, EntityType
  <2> QED BY <1>1, <2>1
<1>5. CASE EstimateArrives(c)
  BY <1>1, <1>2, <1>5, Zenon DEF EstimateArrives
<1>6. CASE ApplyCalibration(c)
  <2> DEFINE e == WithTheWrite(entity[c])
  <2>1. entity' = entity \/ entity' = [entity EXCEPT ![c] = e]
    BY <1>6, Zenon DEF ApplyCalibration
  <2>2. e.direction = entity[c].direction
    BY <1>0, WithTheWriteKeeps
  <2> HIDE DEF e
  <2> QED BY <1>1, <2>1, <2>2
<1>7. ASSUME NEW key \in Directions \cup {"stop"}, Keypad(c, key)
      PROVE  \A b \in Covers : entity'[b].direction = entity[b].direction
  <2> DEFINE old == entity[c]
             place == IF old.moving = "none" THEN old.place ELSE "between"
  <2>1. \/ entity' = entity
        \/ entity' = [entity EXCEPT ![c] = old]
        \/ entity' = [entity EXCEPT ![c] = Finish(old, place)]
        \/ entity' = [entity EXCEPT ![c] = Start(old, key, FALSE)]
    BY <1>7, Zenon DEF Keypad
  <2> HIDE DEF place
  <2> QED BY <1>1, <1>2, <1>3, <2>1
<1>8. CASE StopRefused(c)
  <2> DEFINE e == [entity[c] EXCEPT !.stopped = FALSE]
  <2>1. entity' = [entity EXCEPT ![c] = e] /\ e.direction = entity[c].direction
    BY <1>0, <1>8 DEF StopRefused, EntityType
  <2> QED BY <1>1, <2>1
<1>9. ASSUME NEW by, StopQueued(c, by) PROVE \A b \in Covers : entity'[b].direction = entity[b].direction
  <2> DEFINE e == [entity[c] EXCEPT !.pending = TRUE, !.stopped = FALSE]
  <2>1. entity' = [entity EXCEPT ![c] = e] /\ e.direction = entity[c].direction
    BY <1>0, <1>9 DEF StopQueued, EntityType
  <2> QED BY <1>1, <2>1
<1> QED BY <1>4, <1>5, <1>6, <1>7, <1>8, <1>9

\* A run that begins queues a frame of its own; one that goes on holds the lock, so
\* that no other task of ours commands a cover beside it.
LEMMA SendMoves ==
    ASSUME RunsTypes, DriverInv, [Next]_runVars, NEW t \in Drivers, Underway(t)'
    PROVE  Begins(t) \/ Unheard(t) \/ Hears(t)
<1> DEFINE Goal == Begins(t) \/ Unheard(t) \/ Hears(t)
<1>0. /\ task \in [Tasks -> TaskType] /\ entity \in [Covers -> EntityType] /\ EntitiesOK
      /\ \A u \in Tasks : task[u].cover \in Covers /\ task[u].dir \in Directions
      /\ \A d \in Directions : Opposite(d) \in Directions
      /\ lock \in [holder : Drivers \cup {Nobody}, waiters : Seq(Drivers)]
      /\ talk \subseteq Covers
  BY DEF RunsTypes, TasksOK, TaskType, EntitiesOK, Directions, Opposite, LockOK, RestOK
<1>1. /\ Guide \in Drivers /\ Covers \subseteq Drivers /\ Drivers \subseteq Tasks /\ t \in Tasks
      /\ Stopper \in Tasks /\ Stopper \notin Drivers /\ Nobody \notin Drivers /\ t # Nobody /\ t # Stopper
      /\ "stop" \in Directions \cup {"stop"} /\ Directions \subseteq Directions \cup {"stop"}
  BY RunsAssumption DEF RunsAssumption, Drivers, Tasks
<1>2. ASSUME task'[t] = task[t]
      PROVE  /\ Holds(t) /\ task'[t].sent = task[t].sent
             /\ \A u \in Drivers \ {t} : ~InBlock(u)
             /\ lock.holder = t
  <2>1. Underway(t) /\ InBlock(t)
    BY <1>2 DEF Underway, InBlock
  <2>2. lock.holder = t /\ \A u \in Drivers \ {t} : ~InBlock(u)
    BY <2>1, Zenon DEF DriverInv
  <2> QED BY <1>2, <2>1, <2>2, Zenon DEF Holds
<1>3. ASSUME task'[t] = task[t], UNCHANGED line, \A c \in Covers : entity'[c].direction = entity[c].direction
      PROVE  Goal
  BY <1>0, <1>1, <1>2, <1>3, Zenon DEF Unheard
<1>4. ASSUME task'[t] = task[t], UNCHANGED <<line, entity>> PROVE Goal
  BY <1>3, <1>4, Zenon
<1>5. ASSUME task' = [task EXCEPT ![t] = Asleep] PROVE FALSE
  BY <1>0, <1>1, <1>5 DEF Underway, Asleep
<1>6. ASSUME NEW u \in Tasks, u # t, NEW k, task' = [task EXCEPT ![u] = k] PROVE task'[t] = task[t]
  BY <1>0, <1>1, <1>6
<1>7. ASSUME NEW c \in Covers, StopQueued(c, Stopper) \/ StopRefused(c), task'[t] = task[t] PROVE Goal
  <2>1. \A b \in Covers : entity'[b].direction = entity[b].direction
    BY <1>0, <1>7, DirectionKept, Zenon
  <2>2. UNCHANGED line \/ Queue(c, "stop", Stopper)
    BY <1>7, Zenon DEF StopQueued, StopRefused, Refuse
  <2> QED BY <1>0, <1>1, <1>2, <1>7, <2>1, <2>2, Zenon DEF Unheard
<1>8. CASE UNCHANGED runVars \/ CloseTalk \/ Reload \/ ReloadAnyway \/ AWriteBegins
  BY <1>4, <1>8, Zenon DEF runVars, CloseTalk, Reload, ReloadAnyway, GatewayReloaded, AWriteBegins, WriteBegins, pathVars
<1>9. ASSUME NEW c \in Covers, NEW taken, line[c] # <<>>, Decided(c, taken) PROVE Goal
  <2>1. /\ task'[t].pc = task[t].pc /\ task'[t].cover = task[t].cover
        /\ task'[t].shared = task[t].shared
    <3>1. \/ task' = task
          \/ \E u, x : task' = [task EXCEPT ![u].stop = x] \/ task' = [task EXCEPT ![u].sent = x]
      BY <1>9, Zenon DEF Decided
    <3>2. \A u, x : task' = [task EXCEPT ![u].stop = x] =>
             /\ task'[t].pc = task[t].pc /\ task'[t].cover = task[t].cover
             /\ task'[t].shared = task[t].shared
      <4> SUFFICES ASSUME NEW u, NEW x, task' = [task EXCEPT ![u].stop = x]
                   PROVE  /\ task'[t].pc = task[t].pc /\ task'[t].cover = task[t].cover
                          /\ task'[t].shared = task[t].shared
        OBVIOUS
      <4>1. task[t] \in TaskType /\ t \in Tasks
        BY <1>0, <1>1
      <4> QED BY <1>0, <4>1 DEF TaskType
    <3>3. \A u, x : task' = [task EXCEPT ![u].sent = x] =>
             /\ task'[t].pc = task[t].pc /\ task'[t].cover = task[t].cover
             /\ task'[t].shared = task[t].shared
      <4> SUFFICES ASSUME NEW u, NEW x, task' = [task EXCEPT ![u].sent = x]
                   PROVE  /\ task'[t].pc = task[t].pc /\ task'[t].cover = task[t].cover
                          /\ task'[t].shared = task[t].shared
        OBVIOUS
      <4>1. task[t] \in TaskType /\ t \in Tasks
        BY <1>0, <1>1
      <4> QED BY <1>0, <4>1 DEF TaskType
    <3> QED BY <3>1, <3>2, <3>3, Zenon
  <2>2. Holds(t)
    BY <2>1, Zenon DEF Holds, Underway
  <2> QED BY <1>9, <2>2, Zenon DEF Hears
<1>10. ASSUME NEW c \in Covers, \/ MotorReported(c) \/ EstimateArrives(c) \/ ApplyCalibration(c)
                                \/ \E key \in Directions \cup {"stop"} : Keypad(c, key)
       PROVE  Goal
  <2>1. task'[t] = task[t] /\ UNCHANGED line
    BY <1>10, Zenon DEF MotorReported, EstimateArrives, ApplyCalibration, Keypad, pathVars
  <2>2. \A b \in Covers : entity'[b].direction = entity[b].direction
    BY <1>0, <1>10, DirectionKept, Zenon
  <2> QED BY <1>3, <2>1, <2>2, Zenon
<1>11. ASSUME NEW c \in Covers, Physics(c) \/ OpenTalk(c) PROVE Goal
  BY <1>4, <1>9, <1>10, <1>11, Zenon
     DEF Physics, FrameTaken, FrameDropped, MotorArrives, OpenTalk, pathVars
<1>12. ASSUME NEW c \in Covers, GuideStops(c) PROVE Goal
  <2>1. task'[t] = task[t]
    BY <1>0, <1>1, <1>12 DEF GuideStops, Stops
  <2> QED BY <1>7, <1>12, <2>1, Zenon DEF GuideStops, Stops
<1>13. CASE DialogExpires
  <2>1. PICK c \in talk : \/ UNCHANGED <<entity, line, task>>
                          \/ \E next : Stops(Stopper, c, next)
    BY <1>13, Zenon DEF DialogExpires, pathVars
  <2>2. task'[t] = task[t]
    BY <1>0, <1>1, <2>1 DEF Stops
  <2> QED BY <1>0, <1>4, <1>7, <2>1, <2>2, Zenon DEF Stops
<1>14. ASSUME NEW c \in Covers, NEW d \in Directions, Dashboard(c, d) PROVE Goal
  <2>1. /\ task'[t].pc = task[t].pc /\ task'[t].cover = task[t].cover /\ task'[t].sent = task[t].sent
        /\ task[t].shared => task'[t].shared
        /\ c = task[t].cover /\ InBlock(t) => task'[t].shared
    BY <1>0, <1>1, <1>14 DEF Dashboard, TaskType
  <2>2. Holds(t) /\ InBlock(t)
    BY <2>1 DEF Holds, Underway, InBlock
  <2>3. c # task[t].cover => entity'[task[t].cover] = entity[task[t].cover]
    BY <1>0, <1>1, <1>14 DEF Dashboard, DirectionQueued, DirectionRefused
  <2>4. UNCHANGED line \/ Queue(c, d, Nobody)
    BY <1>14, Zenon DEF Dashboard, DirectionQueued, DirectionRefused, Refuse
  <2>5. Nobody \in Tasks \cup {Nobody}
    OBVIOUS
  <2> QED BY <1>1, <2>1, <2>2, <2>3, <2>4, <2>5, Zenon DEF Unheard
<1>15. ASSUME NEW c \in Covers, NEW d \in Directions, NEW prim, NEW pc, NEW dir \in Directions,
              Sent(t, prim, pc, c, d, dir)
       PROVE  Goal
  <2>1. task'[t].cover = c /\ task'[t].sent = "queued"
    BY <1>0, <1>1, <1>15 DEF Sent, Run, Asleep
  <2> QED BY <1>15, <2>1, Zenon DEF Sent, Begins
<1>16. ASSUME NEW u \in Drivers, NEW c \in Covers, NEW d \in Directions, NEW prim,
              lock.holder = Nobody, Drive(u, c, d, prim)
       PROVE  Goal
  <2>1. CASE u # t
    <3>1. \E k : task' = [task EXCEPT ![u] = k]
      BY <1>16, Zenon DEF Drive, Homing, FreeRun, TimedRun, Measuring, Sent
    <3>2. task'[t] = task[t]
      BY <1>1, <1>6, <2>1, <3>1, Zenon
    <3> QED BY <1>1, <1>2, <1>16, <3>2
  <2>2. CASE u = t
    <3>1. \/ task' = [task EXCEPT ![t] = Asleep]
          \/ \E dir \in {d, Opposite(d)} : \E p, pc : Sent(t, p, pc, c, d, dir)
      BY <1>16, <2>2, Zenon DEF Drive, Homing, FreeRun, TimedRun, Measuring
    <3>2. {d, Opposite(d)} \subseteq Directions
      BY <1>0
    <3> QED BY <1>5, <1>15, <3>1, <3>2, Zenon
  <2> QED BY <2>1, <2>2
<1>17. ASSUME NEW u \in Drivers, NEW c \in Covers, NEW d \in Directions, NEW prim, Take(u, c, d, prim)
       PROVE  Goal
  <2>1. CASE /\ task' = [task EXCEPT ![u] = Run(prim, "lock", c, d)]
             /\ UNCHANGED <<entity, pathVars>>
    <3>1. u # t
      BY <1>0, <1>1, <2>1 DEF Underway, Run, Asleep
    <3>2. task'[t] = task[t]
      BY <1>1, <1>6, <2>1, <3>1, Zenon
    <3> QED BY <1>4, <2>1, <3>2, Zenon DEF pathVars
  <2> QED BY <1>16, <1>17, <2>1, Zenon DEF Take
<1>18. ASSUME NEW c \in Covers, NEW d \in Directions,
              ServiceCalled(c, d) \/ \E prim \in bound.prims : GuideRuns(c, d, prim)
       PROVE  Goal
  BY <1>1, <1>17, <1>18, Zenon DEF ServiceCalled, GuideRuns
<1>19. ASSUME NEW u \in Drivers, InBlock(u), u # t, NEW k, task' = [task EXCEPT ![u] = k] PROVE FALSE
  BY <1>1, <1>2, <1>6, <1>19, Zenon
<1>20. ASSUME NEW c \in Covers, ServiceHomed(c) PROVE Goal
  <2>1. InBlock(c) /\ c \in Drivers /\ task[c].dir \in Directions
    BY <1>0, <1>1, <1>20 DEF ServiceHomed, Homed, InBlock
  <2>2. \E k : task' = [task EXCEPT ![c] = k]
    BY <1>20, Zenon DEF ServiceHomed, TimedRun, Measuring, Sent, Over
  <2>3. c = t
    BY <1>19, <2>1, <2>2, Zenon
  <2>4. \/ task' = [task EXCEPT ![t] = Asleep]
        \/ \E d \in Directions : \E p, pc : Sent(t, p, pc, c, d, d)
    BY <1>20, <2>1, <2>3, Zenon DEF ServiceHomed, TimedRun, Measuring, Over
  <2> QED BY <1>5, <1>15, <2>4, Zenon
<1>21. CASE HomeDone
  <2>1. InBlock(Guide) /\ task' = [task EXCEPT ![Guide] = Asleep]
    BY <1>21 DEF HomeDone, Homed, InBlock, Over
  <2> QED BY <1>1, <1>5, <1>19, <2>1
<1>22. ASSUME NEW u \in Drivers, InBlock(u), NEW why, Abort(u, why) PROVE Goal
  <2>1. \/ task' = [task EXCEPT ![u] = Asleep]
        \/ task' = [task EXCEPT ![u] = [task[u] EXCEPT !.pc = "tidying"]]
    BY <1>22 DEF Abort, Over
  <2>2. u = t
    BY <1>19, <1>22, <2>1
  <2>3. task'[t].pc \in {"idle", "tidying"}
    <3>1. task[t] \in TaskType
      BY <1>0, <1>1
    <3> QED BY <1>0, <1>1, <2>1, <2>2, <3>1 DEF Asleep, TaskType
  <2> QED BY <2>3 DEF Underway
<1>23. CASE CloseDialog
  <2>1. InBlock(Guide) /\ Abort(Guide, "cancelled")
    BY <1>23 DEF CloseDialog, InBlock
  <2> QED BY <1>1, <1>22, <2>1
<1>24. ASSUME NEW u \in Drivers, Progress(u) PROVE Goal
  <2>1. CASE Woken(u)
    BY <1>0, <1>1, <1>16, <2>1, Zenon DEF Woken
  <2>2. CASE NotDelivered(u) \/ NoEcho(u)
    <3>1. InBlock(u)
      BY <2>2 DEF NotDelivered, NoEcho, InBlock
    <3> QED BY <1>22, <2>2, <3>1, Zenon DEF NotDelivered, NoEcho
  <2>3. CASE TidyUp(u) \/ Stopped(u)
    <3>1. InBlock(u) /\ task' = [task EXCEPT ![u] = Asleep]
      BY <2>3 DEF TidyUp, Stopped, InBlock, Over
    <3> QED BY <1>5, <1>19, <3>1
  <2>4. CASE RunElapsed(u)
    <3> DEFINE stopping == [task[u] EXCEPT !.pc = "stopping"]
    <3>1. InBlock(u) /\ \/ task' = [task EXCEPT ![u] = stopping]
                        \/ task' = [task EXCEPT ![u] = [stopping EXCEPT !.stop = "queued"]]
      BY <2>4 DEF RunElapsed, InBlock, Stops
    <3>2. u = t
      BY <1>19, <3>1
    <3>3. stopping.pc = "stopping" /\ [stopping EXCEPT !.stop = "queued"].pc = "stopping"
      <4>1. task[u] \in TaskType
        BY <1>0, <1>1
      <4> QED BY <4>1 DEF TaskType
    <3> HIDE DEF stopping
    <3>4. task'[t].pc = "stopping"
      BY <1>0, <1>1, <3>1, <3>2, <3>3
    <3> QED BY <3>4 DEF Underway
  <2>5. CASE DeliveryKnown(u) \/ EchoHeard(u)
    <3>1. /\ InBlock(u) /\ Underway(u) /\ UNCHANGED <<line, entity>>
          /\ \/ task' = [task EXCEPT ![u] = Asleep]
             \/ \E pc : task' = [task EXCEPT ![u].pc = pc]
      BY <2>5 DEF DeliveryKnown, EchoHeard, InBlock, Underway, Over, pathVars
    <3>2. u = t
      BY <1>19, <3>1
    <3>3. PICK pc : task' = [task EXCEPT ![t].pc = pc]
      BY <1>5, <3>1, <3>2
    <3>4. task'[t].cover = task[t].cover /\ task'[t].shared = task[t].shared /\ task'[t].sent = task[t].sent
      <4>1. task[t] \in TaskType
        BY <1>0, <1>1
      <4> QED BY <1>0, <1>1, <3>3, <4>1 DEF TaskType
    <3> QED BY <3>1, <3>2, <3>4, Zenon DEF Unheard, Holds
  <2> QED BY <1>24, <2>1, <2>2, <2>3, <2>4, <2>5, Zenon DEF Progress
<1>25. ASSUME Progress(Stopper) PROVE Goal
  <2>1. ~Woken(Stopper)
    <3>1. lock.waiters # <<>> => Head(lock.waiters) \in Drivers
      BY <1>0, HeadTailProperties
    <3> QED BY <1>1, <3>1, Zenon DEF Woken
  <2>2. Stopped(Stopper)
    BY <1>25, <2>1 DEF Progress, DeliveryKnown, NotDelivered, EchoHeard, NoEcho, TidyUp, RunElapsed,
                       RunsTypes, StopperOK
  <2>3. task' = [task EXCEPT ![Stopper] = Asleep] /\ UNCHANGED <<line, entity>>
    BY <2>2, Zenon DEF Stopped, Over, pathVars
  <2> QED BY <1>1, <1>4, <1>6, <2>3, Zenon
<1>26. ASSUME NEW u \in Tasks, Progress(u) PROVE Goal
  BY <1>24, <1>25, <1>26 DEF Drivers
<1>27. ASSUME NEW c \in Covers, NEW key \in Directions \cup {"stop"}, Keypad(c, key) PROVE Goal
  BY <1>10, <1>27, Zenon
<1>28. ASSUME NEW c \in Covers, NEW d \in Directions, NEW prim \in bound.prims, GuideRuns(c, d, prim)
       PROVE  Goal
  BY <1>18, <1>28, Zenon
<1>29. ASSUME NEW c \in Covers, NEW d \in Directions, Dashboard(c, d) \/ ServiceCalled(c, d) PROVE Goal
  BY <1>14, <1>18, <1>29, Zenon
<1>30. ASSUME NEW c \in Covers,
              Physics(c) \/ ServiceHomed(c) \/ ApplyCalibration(c) \/ OpenTalk(c) \/ GuideStops(c)
       PROVE  Goal
  BY <1>10, <1>11, <1>12, <1>20, <1>30, Zenon
<1> QED BY <1>8, <1>13, <1>21, <1>23, <1>26, <1>27, <1>28, <1>29, <1>30, Zenon DEF Next, AWriteBegins

\* Who queues a frame forgets the frames of its kind that it waited for before.
LEMMA ForgottenFrames ==
    ASSUME NEW f \in Frame, NEW kind \in Directions \cup {"stop"}, NEW by, NEW t \in Tasks
    PROVE  LET g == Forgotten(f, kind, by)
           IN  /\ g.kind = f.kind
               /\ g.by = t => f.by = t
               /\ f.by = t /\ ~(by = t /\ (f.kind = "stop") = (kind = "stop")) => g.by = t
               /\ by = t /\ g.by = t => ((f.kind = "stop") # (kind = "stop"))
<1>1. t # Nobody
  BY RunsAssumption DEF RunsAssumption, Tasks
<1> QED BY <1>1 DEF Forgotten, Frame

\* What leaves the line of c when a frame is decided, and what its task learns.
LEMMA DecidedShape ==
    ASSUME RunsTypes, NEW c \in Covers, NEW taken, line[c] # <<>>, Decided(c, taken),
           NEW t \in Tasks, Underway(t)
    PROVE  LET n == Len(line[c])
               f == line[c][1]
               ours == f.by = t /\ f.kind # "stop"
           IN  /\ n \in Nat /\ n >= 1 /\ DOMAIN line[c] = 1..n /\ DOMAIN line'[c] = 1..(n - 1)
               /\ \A i \in 1..(n - 1) : line'[c][i] = line[c][i + 1]
               /\ \A d \in Covers \ {c} : line'[d] = line[d] /\ entity'[d] = entity[d]
               /\ task'[t].sent = IF ours THEN IF taken THEN "written" ELSE "dropped" ELSE task[t].sent
               /\ LET last == ~\E i \in 2..n : (line[c][i].kind = "stop") = (f.kind = "stop")
                  IN  entity'[c] = Heard(entity[c], f.kind, last, taken)
<1>0. /\ line \in [Covers -> Seq(Frame)] /\ entity \in [Covers -> EntityType]
      /\ task \in [Tasks -> TaskType] /\ t # Nobody /\ task[t].pc # "idle"
  BY RunsAssumption DEF RunsAssumption, Tasks, RunsTypes, LinesOK, EntitiesOK, TasksOK, Underway
<1>1. /\ Len(line[c]) \in Nat /\ Len(line[c]) >= 1 /\ DOMAIN line[c] = 1..Len(line[c])
      /\ Head(line[c]) = line[c][1] /\ line[c][1] \in Frame
      /\ DOMAIN Tail(line[c]) = 1..(Len(line[c]) - 1)
      /\ \A i \in 1..(Len(line[c]) - 1) : Tail(line[c])[i] = line[c][i + 1]
  <2>1. line[c] \in Seq(Frame) /\ line[c] # <<>>
    BY <1>0
  <2> QED BY <2>1
<1>2. line' = [line EXCEPT ![c] = Tail(line[c])]
  BY Zenon DEF Decided
<1>3. line'[c] = Tail(line[c]) /\ \A d \in Covers \ {c} : line'[d] = line[d]
  BY <1>0, <1>2
<1>4. /\ entity'[c] = Heard(entity[c], line[c][1].kind,
                            ~\E i \in 2..Len(line[c]) : (line[c][i].kind = "stop") = (line[c][1].kind = "stop"),
                            taken)
      /\ \A d \in Covers \ {c} : entity'[d] = entity[d]
  <2> DEFINE h == Heard(entity[c], Head(line[c]).kind,
                        ~\E i \in 2..Len(line[c]) : (line[c][i].kind = "stop") = (Head(line[c]).kind = "stop"),
                        taken)
  <2>1. entity' = [entity EXCEPT ![c] = h]
    BY Zenon DEF Decided
  <2>2. h = Heard(entity[c], line[c][1].kind,
                  ~\E i \in 2..Len(line[c]) : (line[c][i].kind = "stop") = (line[c][1].kind = "stop"),
                  taken)
    BY <1>1, Zenon
  <2> HIDE DEF h
  <2>3. entity'[c] = h /\ \A d \in Covers \ {c} : entity'[d] = entity[d]
    BY <1>0, <2>1
  <2> QED BY <2>2, <2>3, Zenon
<1>5. task'[t].sent = IF line[c][1].by = t /\ line[c][1].kind # "stop"
                      THEN IF taken THEN "written" ELSE "dropped" ELSE task[t].sent
  <2> DEFINE fate == IF taken THEN "written" ELSE "dropped"
  <2>0. PICK f : f = line[c][1]
    OBVIOUS
  <2>1. f.by \in Tasks \cup {Nobody}
    BY <1>1, <2>0 DEF Frame
  <2>2. task' = IF f.by = Nobody \/ task[f.by].pc = "idle" THEN task
                ELSE IF f.kind = "stop" THEN [task EXCEPT ![f.by].stop = fate]
                ELSE [task EXCEPT ![f.by].sent = fate]
    BY <1>1, <2>0 DEF Decided
  <2>3. task[t] \in TaskType
    BY <1>0
  <2>4. CASE f.by = t
    <3>1. task' = IF f.kind = "stop" THEN [task EXCEPT ![t].stop = fate] ELSE [task EXCEPT ![t].sent = fate]
      BY <1>0, <2>2, <2>4
    <3>2. task'[t].sent = IF f.kind # "stop" THEN fate ELSE task[t].sent
      BY <1>0, <2>3, <3>1 DEF TaskType
    <3> QED BY <2>0, <2>4, <3>2
  <2>5. CASE f.by # t
    <3>1. task'[t] = task[t]
      BY <1>0, <2>1, <2>2, <2>5
    <3> QED BY <2>0, <2>5, <3>1
  <2> QED BY <2>4, <2>5
<1> QED BY <1>1, <1>3, <1>4, <1>5, Zenon

\* A run has one frame, of which it waits for the fate.
LEMMA FrameStep ==
    ASSUME RunsTypes, NEW t \in Drivers, Underway(t)', FrameInv(t),
           Begins(t) \/ Unheard(t) \/ Hears(t)
    PROVE  FrameInv(t)'
<1>0. /\ LinesOK /\ line \in [Covers -> Seq(Frame)] /\ t \in Tasks /\ t # Nobody
      /\ Tasks \subseteq Tasks \cup {Nobody} /\ Directions \subseteq Directions \cup {"stop"}
      /\ "stop" \notin Directions
  BY RunsAssumption DEF RunsAssumption, Drivers, Tasks, RunsTypes, LinesOK, Directions
<1>1. \A c \in Covers : \A i \in DOMAIN line[c] : line[c][i] \in Frame
  BY <1>0
<1>2. ASSUME NEW b \in Covers, NEW d \in Directions, DirectionQueued(b, d, t),
             task'[t].cover = b, task'[t].sent = "queued"
      PROVE  FrameInv(t)'
  <2>1. QueuedAt(b, d, t)
    BY <1>0, <1>2, QueueShape, Zenon DEF DirectionQueued
  <2>2. ASSUME NEW c \in Covers, NEW i \in DOMAIN line'[c], line'[c][i].by = t, line'[c][i].kind # "stop"
        PROVE  c = b /\ i = Len(line[b]) + 1
    <3> DEFINE n == Len(line[c])
    <3>1. /\ n \in Nat /\ DOMAIN line[c] = 1..n /\ DOMAIN line'[c] = 1..(IF c = b THEN n + 1 ELSE n)
          /\ \A k \in 1..n : line'[c][k] = Forgotten(line[c][k], d, t)
      BY <2>1 DEF QueuedAt
    <3>2. i \notin 1..n
      <4> SUFFICES ASSUME i \in 1..n PROVE FALSE
        OBVIOUS
      <4>1. line[c][i] \in Frame /\ line'[c][i] = Forgotten(line[c][i], d, t)
        BY <1>1, <3>1
      <4>2. d # "stop" /\ d \in Directions \cup {"stop"}
        BY <1>0
      <4>3. line[c][i].kind = line'[c][i].kind
            /\ ((line[c][i].kind = "stop") # (d = "stop"))
        BY <1>0, <2>2, <4>1, <4>2, ForgottenFrames
      <4> QED BY <2>2, <4>2, <4>3
    <3> QED BY <3>1, <3>2
  <2> QED BY <1>2, <2>2, Zenon DEF FrameInv
<1>3. CASE Unheard(t)
  <2>0. Underway(t) /\ task'[t].cover = task[t].cover /\ task'[t].sent = task[t].sent
    BY <1>3, Zenon DEF Unheard, Holds
  <2>1. CASE UNCHANGED line
    BY <2>0, <2>1, Zenon DEF FrameInv
  <2>2. ASSUME NEW b \in Covers, NEW kind \in Directions \cup {"stop"}, NEW by \in Tasks \cup {Nobody},
               Queue(b, kind, by), kind = "stop" \/ by # t
        PROVE  FrameInv(t)'
    <3>1. QueuedAt(b, kind, by)
      BY <1>0, <2>2, QueueShape, Zenon
    <3>2. ASSUME NEW c \in Covers, NEW i \in DOMAIN line'[c], line'[c][i].by = t, line'[c][i].kind # "stop"
          PROVE  i \in DOMAIN line[c] /\ line[c][i].by = t /\ line[c][i].kind # "stop"
      <4> DEFINE n == Len(line[c])
      <4>1. /\ n \in Nat /\ DOMAIN line[c] = 1..n /\ DOMAIN line'[c] = 1..(IF c = b THEN n + 1 ELSE n)
            /\ \A k \in 1..n : line'[c][k] = Forgotten(line[c][k], kind, by)
            /\ c = b => line'[c][n + 1] = [kind |-> kind, by |-> by]
        BY <3>1 DEF QueuedAt
      <4>2. CASE i \in 1..n
        <5>1. line[c][i] \in Frame /\ line'[c][i] = Forgotten(line[c][i], kind, by)
          BY <1>1, <4>1, <4>2
        <5>2. line[c][i].kind = line'[c][i].kind /\ line[c][i].by = t
          BY <1>0, <3>2, <5>1, ForgottenFrames
        <5> QED BY <3>2, <4>1, <4>2, <5>2
      <4>3. CASE i \notin 1..n
        <5>1. c = b /\ i = n + 1
          BY <4>1, <4>3
        <5> QED BY <2>2, <3>2, <4>1, <5>1
      <4> QED BY <4>2, <4>3
    <3>3. ASSUME NEW c \in Covers, NEW i \in DOMAIN line'[c], line'[c][i].by = t, line'[c][i].kind # "stop"
          PROVE  /\ c = task[t].cover /\ task[t].sent = "queued"
                 /\ \A j \in DOMAIN line[c] : line[c][j].by = t /\ line[c][j].kind # "stop" => j = i
      <4>1. i \in DOMAIN line[c] /\ line[c][i].by = t /\ line[c][i].kind # "stop"
        BY <3>2, <3>3
      <4> QED BY <2>0, <4>1, Zenon DEF FrameInv
    <3> QED BY <2>0, <3>2, <3>3 DEF FrameInv
  <2> QED BY <1>3, <2>1, <2>2, Zenon DEF Unheard
<1>4. CASE Hears(t)
  <2>0. Underway(t) /\ task'[t].cover = task[t].cover
    BY <1>4, Zenon DEF Hears, Holds
  <2>1. PICK b \in Covers : \E taken : line[b] # <<>> /\ Decided(b, taken)
    BY <1>4, Zenon DEF Hears
  <2>2. PICK taken : line[b] # <<>> /\ Decided(b, taken)
    BY <2>1
  <2> DEFINE n == Len(line[b])
             ours == line[b][1].by = t /\ line[b][1].kind # "stop"
  <2>3. /\ n \in Nat /\ n >= 1 /\ DOMAIN line[b] = 1..n /\ DOMAIN line'[b] = 1..(n - 1)
        /\ \A i \in 1..(n - 1) : line'[b][i] = line[b][i + 1]
        /\ \A d \in Covers \ {b} : line'[d] = line[d]
        /\ ~ours => task'[t].sent = task[t].sent
    BY <1>0, <2>0, <2>2, DecidedShape
  <2>4. ASSUME NEW c \in Covers, NEW i \in DOMAIN line'[c], line'[c][i].by = t, line'[c][i].kind # "stop"
        PROVE  LET k == IF c = b THEN i + 1 ELSE i
               IN  k \in DOMAIN line[c] /\ line[c][k] = line'[c][i] /\ (c = b => k # 1)
    <3>1. CASE c = b
      <4>1. i \in 1..(n - 1)
        BY <2>3, <2>4, <3>1
      <4>2. i + 1 \in 1..n /\ i + 1 # 1
        BY <2>3, <4>1
      <4> QED BY <2>3, <3>1, <4>1, <4>2
    <3>2. CASE c # b
      BY <2>3, <2>4, <3>2
    <3> QED BY <3>1, <3>2
  <2>5. ASSUME NEW c \in Covers, NEW i \in DOMAIN line'[c], line'[c][i].by = t, line'[c][i].kind # "stop"
        PROVE  c = task[t].cover /\ task[t].sent = "queued" /\ ~ours
    <3> DEFINE k == IF c = b THEN i + 1 ELSE i
    <3>1. k \in DOMAIN line[c] /\ line[c][k].by = t /\ line[c][k].kind # "stop" /\ (c = b => k # 1)
      BY <2>4, <2>5
    <3> HIDE DEF k
    <3>2. /\ c = task[t].cover /\ task[t].sent = "queued"
          /\ \A j \in DOMAIN line[c] : line[c][j].by = t /\ line[c][j].kind # "stop" => j = k
      BY <2>0, <3>1, Zenon DEF FrameInv
    <3>3. ours => b = task[t].cover
      BY <2>0, <2>3 DEF FrameInv
    <3> QED BY <2>3, <3>1, <3>2, <3>3
  <2>6. ASSUME NEW c \in Covers, NEW i \in DOMAIN line'[c], line'[c][i].by = t, line'[c][i].kind # "stop",
               NEW j \in DOMAIN line'[c], line'[c][j].by = t, line'[c][j].kind # "stop"
        PROVE  j = i
    <3> DEFINE at(m) == IF c = b THEN m + 1 ELSE m
    <3>1. /\ at(i) \in DOMAIN line[c] /\ line[c][at(i)].by = t /\ line[c][at(i)].kind # "stop"
          /\ at(j) \in DOMAIN line[c] /\ line[c][at(j)].by = t /\ line[c][at(j)].kind # "stop"
      BY <2>4, <2>6
    <3>2. at(i) = at(j)
      <4> HIDE DEF at
      <4> QED BY <2>0, <3>1, Zenon DEF FrameInv
    <3>3. CASE c = b
      BY <2>3, <3>2, <3>3
    <3>4. CASE c # b
      BY <3>2, <3>4
    <3> QED BY <3>3, <3>4
  <2> HIDE DEF ours
  <2> QED BY <2>0, <2>3, <2>5, <2>6, Zenon DEF FrameInv
<1> QED BY <1>2, <1>3, <1>4, Zenon DEF Begins

\* What is known of it stays true until somebody else commands the cover.
LEMMA SentStep ==
    ASSUME RunsTypes, NEW t \in Drivers, Underway(t)', FrameInv(t), SentInv(t),
           Begins(t) \/ Unheard(t) \/ Hears(t)
    PROVE  SentInv(t)'
<1>0. /\ LinesOK /\ line \in [Covers -> Seq(Frame)] /\ entity \in [Covers -> EntityType]
      /\ t \in Tasks /\ t # Nobody /\ task[t].cover \in Covers
      /\ Tasks \subseteq Tasks \cup {Nobody} /\ Directions \subseteq Directions \cup {"stop"}
      /\ "stop" \notin Directions
  BY RunsAssumption DEF RunsAssumption, Drivers, Tasks, RunsTypes, LinesOK, EntitiesOK, TasksOK,
                        TaskType, Directions
<1>1. \A c \in Covers : \A i \in DOMAIN line[c] : line[c][i] \in Frame
  BY <1>0
<1>2. ASSUME NEW b \in Covers, NEW d \in Directions, DirectionQueued(b, d, t),
             task'[t].cover = b, task'[t].sent = "queued"
      PROVE  SentInv(t)'
  <2> DEFINE n == Len(line[b])
  <2>1. QueuedAt(b, d, t)
    BY <1>0, <1>2, QueueShape, Zenon DEF DirectionQueued
  <2>2. /\ n \in Nat /\ DOMAIN line'[b] = 1..(n + 1)
        /\ line'[b][n + 1] = [kind |-> d, by |-> t]
    BY <2>1 DEF QueuedAt
  <2>3. /\ n + 1 \in DOMAIN line'[b] /\ line'[b][n + 1].by = t /\ line'[b][n + 1].kind # "stop"
        /\ \A j \in DOMAIN line'[b] : j <= n + 1
    BY <1>0, <2>2
  <2> QED BY <1>2, <2>3 DEF SentInv
<1>3. CASE Unheard(t)
  <2> DEFINE c == task[t].cover
             n == Len(line[c])
  <2>0. Underway(t) /\ task'[t].cover = c /\ task'[t].sent = task[t].sent
        /\ (task[t].shared => task'[t].shared)
    BY <1>3, Zenon DEF Unheard, Holds
  <2>1. SUFFICES ASSUME ~task'[t].shared
                 PROVE  /\ task[t].sent = "queued" =>
                            \E i \in DOMAIN line'[c] :
                                /\ line'[c][i].by = t /\ line'[c][i].kind # "stop"
                                /\ \A j \in DOMAIN line'[c] : line'[c][j].kind # "stop" => j <= i
                        /\ task[t].sent = "written" =>
                            /\ entity'[c].direction = "written"
                            /\ \A i \in DOMAIN line'[c] : line'[c][i].kind = "stop"
    BY <2>0 DEF SentInv
  <2>2. ~task[t].shared /\ entity'[c].direction = entity[c].direction
    BY <1>3, <2>0, <2>1, Zenon DEF Unheard
  <2>3. /\ task[t].sent = "queued" =>
            \E i \in DOMAIN line[c] :
                /\ line[c][i].by = t /\ line[c][i].kind # "stop"
                /\ \A j \in DOMAIN line[c] : line[c][j].kind # "stop" => j <= i
        /\ task[t].sent = "written" =>
            /\ entity[c].direction = "written"
            /\ \A i \in DOMAIN line[c] : line[c][i].kind = "stop"
    BY <2>0, <2>2, Zenon DEF SentInv
  <2>4. CASE UNCHANGED line
    BY <2>2, <2>3, <2>4
  <2>5. ASSUME NEW b \in Covers, NEW kind \in Directions \cup {"stop"}, NEW by \in Tasks \cup {Nobody},
               Queue(b, kind, by), kind = "stop" \/ (by # t /\ (b = c => task'[t].shared))
        PROVE  /\ task[t].sent = "queued" =>
                    \E i \in DOMAIN line'[c] :
                        /\ line'[c][i].by = t /\ line'[c][i].kind # "stop"
                        /\ \A j \in DOMAIN line'[c] : line'[c][j].kind # "stop" => j <= i
               /\ task[t].sent = "written" =>
                    /\ entity'[c].direction = "written"
                    /\ \A i \in DOMAIN line'[c] : line'[c][i].kind = "stop"
    <3>1. QueuedAt(b, kind, by)
      BY <1>0, <2>5, QueueShape, Zenon
    <3>2. /\ n \in Nat /\ DOMAIN line[c] = 1..n /\ DOMAIN line'[c] = 1..(IF c = b THEN n + 1 ELSE n)
          /\ \A k \in 1..n : line'[c][k] = Forgotten(line[c][k], kind, by)
          /\ c = b => line'[c][n + 1] = [kind |-> kind, by |-> by]
      BY <1>0, <3>1 DEF QueuedAt
    <3>3. ASSUME NEW k \in 1..n
          PROVE  /\ line'[c][k].kind = line[c][k].kind
                 /\ line[c][k].by = t /\ line[c][k].kind # "stop" => line'[c][k].by = t
      <4>1. line[c][k] \in Frame /\ line'[c][k] = Forgotten(line[c][k], kind, by)
        BY <1>0, <1>1, <3>2
      <4>2. line'[c][k].kind = line[c][k].kind
        BY <1>0, <4>1, ForgottenFrames
      <4>3. line[c][k].by = t /\ line[c][k].kind # "stop" => line'[c][k].by = t
        BY <1>0, <2>5, <4>1, ForgottenFrames
      <4> QED BY <4>2, <4>3
    <3>4. c = b => line'[c][n + 1].kind = "stop"
      BY <2>1, <2>5, <3>2
    <3>5. DOMAIN line[c] \subseteq DOMAIN line'[c]
      BY <3>2
    <3>6. \A j \in DOMAIN line'[c] : line'[c][j].kind # "stop" => j \in 1..n
      BY <3>2, <3>4
    <3> HIDE DEF n, c
    <3>7. CASE task[t].sent = "queued"
      <4>1. PICK i \in DOMAIN line[c] :
                /\ line[c][i].by = t /\ line[c][i].kind # "stop"
                /\ \A j \in DOMAIN line[c] : line[c][j].kind # "stop" => j <= i
        BY <2>3, <3>7
      <4>2. i \in DOMAIN line'[c] /\ line'[c][i].by = t /\ line'[c][i].kind # "stop"
        BY <3>2, <3>3, <3>5, <4>1
      <4>3. \A j \in DOMAIN line'[c] : line'[c][j].kind # "stop" => j <= i
        BY <3>2, <3>3, <3>6, <4>1
      <4> QED BY <3>7, <4>2, <4>3
    <3>8. CASE task[t].sent = "written"
      BY <2>2, <2>3, <3>2, <3>3, <3>6, <3>8
    <3> QED BY <3>7, <3>8
  <2> QED BY <1>3, <2>4, <2>5, Zenon DEF Unheard
<1>4. CASE Hears(t)
  <2> DEFINE c == task[t].cover
  <2>0. Underway(t) /\ task'[t].cover = c /\ (task[t].shared => task'[t].shared)
    BY <1>4, Zenon DEF Hears, Holds
  <2>1. PICK b \in Covers : \E taken : line[b] # <<>> /\ Decided(b, taken)
    BY <1>4, Zenon DEF Hears
  <2>2. PICK taken : line[b] # <<>> /\ Decided(b, taken)
    BY <2>1
  <2> DEFINE n == Len(line[b])
             f == line[b][1]
             ours == f.by = t /\ f.kind # "stop"
             last == ~\E i \in 2..n : (line[b][i].kind = "stop") = (f.kind = "stop")
  <2>3. /\ n \in Nat /\ n >= 1 /\ DOMAIN line[b] = 1..n /\ DOMAIN line'[b] = 1..(n - 1)
        /\ \A i \in 1..(n - 1) : line'[b][i] = line[b][i + 1]
        /\ \A d \in Covers \ {b} : line'[d] = line[d] /\ entity'[d] = entity[d]
        /\ task'[t].sent = IF ours THEN IF taken THEN "written" ELSE "dropped" ELSE task[t].sent
        /\ entity'[b] = Heard(entity[b], f.kind, last, taken)
    BY <1>0, <2>0, <2>2, DecidedShape
  <2>4. ours => b = c /\ task[t].sent = "queued"
    BY <2>0, <2>3 DEF FrameInv
  <2>5. /\ ~(last /\ f.kind # "stop") => entity'[b].direction = entity[b].direction
        /\ last /\ f.kind # "stop" /\ taken => entity'[b].direction = "written"
    <3>1. last \in BOOLEAN /\ entity[b] \in EntityType
      BY <1>0
    <3> HIDE DEF last, f
    <3> QED BY <2>3, <3>1, HeardDirection
  <2>6. SUFFICES ASSUME ~task'[t].shared
                 PROVE  /\ task'[t].sent = "queued" =>
                            \E i \in DOMAIN line'[c] :
                                /\ line'[c][i].by = t /\ line'[c][i].kind # "stop"
                                /\ \A j \in DOMAIN line'[c] : line'[c][j].kind # "stop" => j <= i
                        /\ task'[t].sent = "written" =>
                            /\ entity'[c].direction = "written"
                            /\ \A i \in DOMAIN line'[c] : line'[c][i].kind = "stop"
    BY <2>0 DEF SentInv
  <2>7. /\ task[t].sent = "queued" =>
            \E i \in DOMAIN line[c] :
                /\ line[c][i].by = t /\ line[c][i].kind # "stop"
                /\ \A j \in DOMAIN line[c] : line[c][j].kind # "stop" => j <= i
        /\ task[t].sent = "written" =>
            /\ entity[c].direction = "written"
            /\ \A i \in DOMAIN line[c] : line[c][i].kind = "stop"
    BY <2>0, <2>6, Zenon DEF SentInv
  <2>8. CASE b # c
    <3>1. line'[c] = line[c] /\ entity'[c] = entity[c] /\ task'[t].sent = task[t].sent
      BY <1>0, <2>3, <2>4, <2>8
    <3> HIDE DEF c
    <3> QED BY <2>7, <3>1
  <2>9. CASE b = c /\ task[t].sent = "queued"
    <3>1. PICK i \in 1..n :
              /\ line[b][i].by = t /\ line[b][i].kind # "stop"
              /\ \A j \in 1..n : line[b][j].kind # "stop" => j <= i
      BY <2>3, <2>7, <2>9
    <3>2. CASE i = 1
      <4>1. ours /\ last
        BY <2>3, <3>1, <3>2
      <4>2. \A j \in 1..(n - 1) : line'[b][j].kind = "stop"
        <5> TAKE j \in 1..(n - 1)
        <5>1. j + 1 \in 1..n /\ ~(j + 1 <= 1)
          BY <2>3
        <5> QED BY <2>3, <3>1, <3>2, <5>1
      <4>3. task'[t].sent = "written" => taken
        BY <2>3, <4>1
      <4>4. task'[t].sent # "queued"
        BY <2>3, <4>1
      <4> QED BY <2>3, <2>5, <2>9, <4>1, <4>2, <4>3, <4>4
    <3>3. CASE i # 1
      <4>1. ~ours
        <5> SUFFICES ASSUME ours PROVE FALSE
          OBVIOUS
        <5>1. 1 \in DOMAIN line[b] /\ i \in DOMAIN line[b]
          BY <2>3
        <5> QED BY <2>0, <2>9, <3>1, <3>3, <5>1 DEF FrameInv
      <4>2. task'[t].sent = "queued"
        BY <2>3, <2>9, <4>1
      <4>3. i - 1 \in 1..(n - 1) /\ line'[b][i - 1] = line[b][i]
        <5>1. i - 1 \in 1..(n - 1) /\ (i - 1) + 1 = i
          BY <2>3, <3>3
        <5> QED BY <2>3, <5>1
      <4>4. \A j \in 1..(n - 1) : line'[b][j].kind # "stop" => j <= i - 1
        <5> TAKE j \in 1..(n - 1)
        <5>1. j + 1 \in 1..n /\ line'[b][j] = line[b][j + 1]
          BY <2>3
        <5>2. line'[b][j].kind # "stop" => j + 1 <= i
          BY <3>1, <5>1
        <5> QED BY <2>3, <5>2
      <4> QED BY <2>3, <2>9, <3>1, <4>2, <4>3, <4>4
    <3> QED BY <3>2, <3>3
  <2>10. CASE b = c /\ task[t].sent # "queued"
    <3>1. task'[t].sent = task[t].sent
      BY <2>3, <2>4, <2>10
    <3>2. CASE task[t].sent = "written"
      <4>1. \A i \in 1..n : line[b][i].kind = "stop"
        BY <2>3, <2>7, <2>10, <3>2
      <4>2. f.kind = "stop" /\ \A i \in 1..(n - 1) : line'[b][i].kind = "stop"
        BY <2>3, <4>1
      <4>3. entity'[b].direction = "written"
        BY <2>5, <2>7, <2>10, <3>2, <4>2
      <4> QED BY <2>3, <2>10, <3>1, <3>2, <4>2, <4>3
    <3> QED BY <2>10, <3>1, <3>2
  <2> QED BY <2>8, <2>9, <2>10
<1> QED BY <1>2, <1>3, <1>4, Zenon DEF Begins

--------------------------------------------------------------------------
(* The stop that is owed *)

\* A run that is measured has not settled.
MeasuredInv == \A t \in Drivers : Measured(t) => ~settled[task[t].cover]
\* Who owes a stop is about to send it, and has not settled before.
OwedInv ==
    \A c \in Covers : owed[c] =>
        ~settled[c] /\ \E t \in Drivers : task[t].pc = "tidying" /\ task[t].cover = c
SendInv == \A t \in Drivers : FrameInv(t) /\ SentInv(t)

\* What is known of the frame of a run is true, always.
LEMMA SendAlways == RunsSpec => []SendInv
<1>1. Init => SendInv
  BY DEF Init, SendInv, FrameInv, SentInv, Underway, Asleep, Drivers
<1>2. RunsTypes /\ DriverInv /\ SendInv /\ [Next]_runVars => SendInv'
  <2> SUFFICES ASSUME RunsTypes, DriverInv, SendInv, [Next]_runVars, NEW t \in Drivers
               PROVE  (FrameInv(t) /\ SentInv(t))'
    BY Zenon DEF SendInv
  <2>1. CASE ~Underway(t)'
    BY <2>1, Zenon DEF FrameInv, SentInv
  <2>2. CASE Underway(t)'
    BY <2>2, SendMoves, FrameStep, SentStep, Zenon DEF SendInv
  <2> QED BY <2>1, <2>2
<1> QED BY <1>1, <1>2, TypesAlways, DriverAlways, PTL DEF RunsSpec

\* A run clears the event when it begins, and sets it when it ends.
LEMMA MeasuredStep ==
    ASSUME RunsTypes, DriverInv, MeasuredInv, RunStep
    PROVE  MeasuredInv'
<1>0. /\ Nobody \notin Drivers /\ settled \in [Covers -> BOOLEAN]
      /\ \A t \in Drivers : task[t].cover \in Covers
  BY RunsAssumption DEF RunsAssumption, Drivers, Tasks, RunsTypes, FlagsOK, TasksOK, TaskType
<1>1. \A t \in Drivers : Measured(t) => InBlock(t) /\ task[t].pc # "homing"
  BY DEF Measured, Underway, InBlock
<1>2. CASE (\A u \in Drivers : SameRun(u)) /\ UNCHANGED settled
  BY <1>2, Zenon DEF MeasuredInv, Measured, Underway, SameRun
<1>3. ASSUME NEW t \in Drivers, Only(t), Waits(t) \/ Starts(t) \/ Returns(t) \/ GoesOn(t) \/ IsOver(t)
      PROVE  MeasuredInv'
  <2>1. \A u \in Drivers \ {t} : task'[u].cover = task[u].cover /\ (Measured(u)' <=> Measured(u))
    BY <1>3, Zenon DEF Only, SameRun, Measured, Underway
  <2>2. CASE ~Measured(t)' /\ UNCHANGED settled
    BY <2>1, <2>2, Zenon DEF MeasuredInv
  <2>3. CASE Waits(t) \/ Returns(t) \/ (Starts(t) /\ task'[t].pc = "homing" /\ UNCHANGED settled)
    <3>1. ~Measured(t)' /\ UNCHANGED settled
      BY <2>3 DEF Waits, Returns, Measured, Underway
    <3> QED BY <2>2, <3>1
  <2>4. CASE Starts(t) /\ task'[t].pc = "delivery" /\ settled' = [settled EXCEPT ![task'[t].cover] = FALSE]
    <3>1. task'[t].cover \in Covers
      BY <2>4, Zenon DEF Starts
    <3>2. ~settled'[task'[t].cover] /\ \A c \in Covers : ~settled[c] => ~settled'[c]
      BY <1>0, <2>4, <3>1
    <3>3. \A u \in Drivers \ {t} : Measured(u)' => ~settled'[task'[u].cover]
      BY <1>0, <2>1, <3>2, Zenon DEF MeasuredInv
    <3> QED BY <3>2, <3>3, Zenon DEF MeasuredInv
  <2>5. CASE GoesOn(t)
    <3>1. Measured(t) /\ task'[t].cover = task[t].cover /\ settled' = settled
      BY <2>5, Zenon DEF GoesOn, Measured
    <3> QED BY <2>1, <3>1, Zenon DEF MeasuredInv
  <2>6. CASE IsOver(t)
    <3>1. InBlock(t) /\ ~Measured(t)'
      BY <2>6 DEF IsOver, Measured, Underway
    <3>2. \A u \in Drivers \ {t} : ~Measured(u)
      BY <1>1, <3>1, Zenon DEF DriverInv
    <3> QED BY <2>1, <3>1, <3>2, Zenon DEF MeasuredInv
  <2> QED BY <1>3, <2>3, <2>4, <2>5, <2>6, Zenon DEF Starts
<1> QED BY <1>2, <1>3, Zenon DEF RunStep

\* A task that tidies up goes on doing so until its stop is out.
LEMMA TidyingMoves ==
    ASSUME RunsTypes, DriverInv, [Next]_runVars, NEW t \in Drivers, task[t].pc = "tidying"
    PROVE  TidyUp(t) \/ (task'[t].pc = "tidying" /\ task'[t].cover = task[t].cover)
<1>0. /\ task \in [Tasks -> TaskType] /\ t \in Tasks /\ Guide \in Drivers /\ Covers \subseteq Drivers
      /\ Drivers \subseteq Tasks /\ Stopper \in Tasks /\ t # Stopper /\ t # Nobody /\ InBlock(t)
      /\ lock.holder = t
  <2>1. InBlock(t)
    BY DEF InBlock
  <2> QED BY <2>1, RunsAssumption DEF RunsAssumption, Drivers, Tasks, RunsTypes, TasksOK, DriverInv
<1>1. RunStep
  BY RunMoves
<1>2. CASE SameRun(t)
  BY <1>2, Zenon DEF SameRun
<1>3. CASE Only(t) /\ (Waits(t) \/ Starts(t) \/ Returns(t) \/ GoesOn(t))
  BY <1>0, <1>3 DEF Waits, Starts, Returns, GoesOn, Underway
<1>4. CASE task'[t].pc = "idle" /\ IsOver(t)
  <2>1. task'[t] # task[t]
    BY <1>4
  <2>2. ASSUME NEW u \in Tasks, u # t, NEW k, task' = [task EXCEPT ![u] = k] PROVE FALSE
    BY <1>0, <2>1, <2>2
  <2>3. ASSUME NEW c \in Covers, NEW taken, Decided(c, taken) PROVE FALSE
    <3>1. task'[t].pc = task[t].pc
      BY <1>0, <2>3 DEF Decided, TaskType
    <3> QED BY <1>4, <3>1
  <2>4. ASSUME NEW c \in Covers, NEW d \in Directions, Dashboard(c, d) PROVE FALSE
    <3>1. task'[t].pc = task[t].pc
      BY <1>0, <2>4 DEF Dashboard, TaskType
    <3> QED BY <1>4, <3>1
  <2>5. ASSUME task' = task PROVE FALSE
    BY <2>1, <2>5
  <2>6. ASSUME NEW u \in Drivers, NEW c \in Covers, NEW d \in Directions, NEW prim,
               Take(u, c, d, prim), task[u].pc = "idle"
        PROVE  FALSE
    <3>1. lock.holder # Nobody /\ u # t
      BY <1>0, <2>6
    <3>2. \E k : task' = [task EXCEPT ![u] = k]
      BY <2>6, <3>1, Zenon DEF Take
    <3> QED BY <1>0, <2>2, <3>1, <3>2
  <2>7. ASSUME NEW u \in Tasks, Progress(u), u # t PROVE FALSE
    <3>1. \E k : task' = [task EXCEPT ![u] = k]
      BY <1>0, <2>7, Zenon
         DEF Progress, Woken, DeliveryKnown, NotDelivered, EchoHeard, NoEcho, Abort, TidyUp,
             RunElapsed, Stops, Stopped, Over
    <3> QED BY <2>2, <2>7, <3>1
  <2>8. ASSUME Progress(t) PROVE TidyUp(t)
    BY <1>0, <2>8 DEF Progress, Woken, DeliveryKnown, NotDelivered, EchoHeard, NoEcho, RunElapsed, Stopped
  <2>9. CASE UNCHANGED runVars \/ CloseTalk \/ Reload \/ ReloadAnyway \/ AWriteBegins
    BY <2>5, <2>9, Zenon DEF runVars, CloseTalk, Reload, ReloadAnyway, GatewayReloaded, AWriteBegins, WriteBegins
  <2>10. CASE HomeDone \/ CloseDialog
    <3>1. Guide # t
      BY <2>10 DEF HomeDone, Homed, CloseDialog
    <3>2. \E k : task' = [task EXCEPT ![Guide] = k]
      BY <2>10, Zenon DEF HomeDone, CloseDialog, Abort, Over
    <3> QED BY <1>0, <2>2, <3>1, <3>2, Zenon
  <2>11. CASE DialogExpires
    <3>1. task' = task \/ \E k : task' = [task EXCEPT ![Stopper] = k]
      BY <2>11, Zenon DEF DialogExpires, Stops
    <3> QED BY <1>0, <2>2, <2>5, <3>1, Zenon
  <2>12. ASSUME NEW c \in Covers, ServiceHomed(c) PROVE FALSE
    <3>1. c # t
      BY <2>12 DEF ServiceHomed, Homed
    <3>2. \E k : task' = [task EXCEPT ![c] = k]
      BY <2>12, Zenon DEF ServiceHomed, TimedRun, Measuring, Sent, Over
    <3> QED BY <1>0, <2>2, <3>1, <3>2, Zenon
  <2>13. ASSUME NEW c \in Covers, GuideStops(c) PROVE FALSE
    <3>1. \E k : task' = [task EXCEPT ![Stopper] = k]
      BY <2>13, Zenon DEF GuideStops, Stops
    <3> QED BY <1>0, <2>2, <3>1, Zenon
  <2>14. ASSUME NEW c \in Covers, \/ ApplyCalibration(c) \/ OpenTalk(c) \/ Physics(c)
                                  \/ \E key \in Directions \cup {"stop"} : Keypad(c, key)
         PROVE  FALSE
    BY <2>3, <2>5, <2>14, Zenon
       DEF ApplyCalibration, OpenTalk, Physics, FrameTaken, FrameDropped, MotorArrives, MotorReported,
           EstimateArrives, Keypad
  <2>15. ASSUME NEW c \in Covers, NEW d \in Directions,
                ServiceCalled(c, d) \/ \E prim \in bound.prims : GuideRuns(c, d, prim)
         PROVE  FALSE
    BY <1>0, <2>6, <2>15, Zenon DEF ServiceCalled, GuideRuns
  <2>16. ASSUME NEW c \in Covers, NEW key \in Directions \cup {"stop"}, Keypad(c, key) PROVE FALSE
    BY <2>14, <2>16, Zenon
  <2>17. ASSUME NEW c \in Covers, NEW d \in Directions, NEW prim \in bound.prims, GuideRuns(c, d, prim)
         PROVE  FALSE
    BY <2>15, <2>17, Zenon
  <2>18. ASSUME NEW u \in Tasks, Progress(u) PROVE TidyUp(t)
    BY <2>7, <2>8, <2>18, Zenon
  <2> QED BY <2>4, <2>9, <2>10, <2>11, <2>12, <2>13, <2>14, <2>15, <2>16, <2>17, <2>18, Zenon DEF Next, AWriteBegins
<1> QED BY <1>1, <1>2, <1>3, <1>4, Zenon DEF RunStep, Only, IsOver

\* A run that is cut short after its frame was written tidies up, and what it owes is
\* paid when it is done with that.
LEMMA OwedKept ==
    ASSUME RunsTypes, DriverInv, SendInv, MeasuredInv, OwedInv, [Next]_runVars
    PROVE  OwedInv'
<1>0. /\ owed \in [Covers -> BOOLEAN] /\ task \in [Tasks -> TaskType] /\ Drivers \subseteq Tasks
      /\ \A t \in Drivers : task[t].cover \in Covers
  BY DEF RunsTypes, FlagsOK, TasksOK, TaskType, Drivers
<1>1. MeasuredInv'
  BY RunMoves, MeasuredStep, Zenon
<1>2. CASE UNCHANGED owed \/ \E c \in Covers : owed' = [owed EXCEPT ![c] = FALSE]
  <2> SUFFICES ASSUME NEW c \in Covers, owed'[c]
               PROVE  ~settled'[c] /\ \E t \in Drivers : task'[t].pc = "tidying" /\ task'[t].cover = c
    BY Zenon DEF OwedInv
  <2>1. owed[c]
    BY <1>0, <1>2
  <2>2. PICK t \in Drivers : task[t].pc = "tidying" /\ task[t].cover = c
    BY <2>1, Zenon DEF OwedInv
  <2>3. ~TidyUp(t)
    <3> SUFFICES ASSUME TidyUp(t) PROVE FALSE
      OBVIOUS
    <3>1. owed' = [owed EXCEPT ![c] = FALSE]
      BY <2>2, Zenon DEF TidyUp, StopQueued, StopRefused
    <3> QED BY <1>0, <3>1
  <2>4. task'[t].pc = "tidying" /\ task'[t].cover = c
    BY <2>2, <2>3, TidyingMoves
  <2>5. ~settled'[c]
    <3>1. Measured(t)'
      BY <2>4, Zenon DEF Measured
    <3> QED BY <1>1, <2>4, <3>1, Zenon DEF MeasuredInv
  <2> QED BY <2>4, <2>5
<1>3. ASSUME NEW t \in Drivers, InBlock(t), task[t].pc # "tidying", NEW why, Abort(t, why)
      PROVE  OwedInv'
  <2> DEFINE b == task[t].cover
             cut == Underway(t) /\ task[t].sent = "written" /\ ~task[t].shared
  <2>1. \A c \in Covers : ~owed[c]
    <3>1. \A u \in Drivers : task[u].pc = "tidying" => InBlock(u)
      BY DEF InBlock
    <3> QED BY <1>3, <3>1, Zenon DEF OwedInv, DriverInv
  <2>2. owed' = [owed EXCEPT ![b] = cut]
    BY <1>3, Zenon DEF Abort
  <2>3. \A c \in Covers : owed'[c] => c = b /\ cut
    <3> HIDE DEF cut, b
    <3> QED BY <1>0, <2>1, <2>2
  <2>4. ASSUME cut PROVE ~settled'[b] /\ task'[t].pc = "tidying" /\ task'[t].cover = b
    <3>1. OwesAStop(t, why)
      BY <2>4, Zenon DEF SendInv, SentInv, OwesAStop
    <3>2. task' = [task EXCEPT ![t].pc = "tidying"] /\ settled' = settled
      BY <1>3, <3>1, Zenon DEF Abort
    <3>3. task'[t].pc = "tidying" /\ task'[t].cover = b
      <4>1. task[t] \in TaskType
        BY <1>0
      <4> QED BY <1>0, <3>2, <4>1 DEF TaskType
    <3>4. ~settled[b]
      BY <2>4, Zenon DEF MeasuredInv, Measured
    <3> QED BY <3>2, <3>3, <3>4
  <2> HIDE DEF cut
  <2> QED BY <2>3, <2>4, Zenon DEF OwedInv
<1> QED BY <1>2, <1>3, FlagsStep, Zenon DEF OwedStep

\* When a cover has settled, no run of ours that was cut short after its frame had
\* turned the motor is still without a stop: every way out of a measured run writes one,
\* by an error as by the closing of the dialog.
THEOREM CutShortRunsAreStopped == RunsSpec => []AbortedRunsAreStopped
<1>1. Init => MeasuredInv /\ OwedInv
  BY DEF Init, MeasuredInv, Measured, Underway, Asleep, Drivers, OwedInv
<1>2. RunsTypes /\ DriverInv /\ SendInv /\ MeasuredInv /\ OwedInv /\ [Next]_runVars
        => MeasuredInv' /\ OwedInv'
  BY RunMoves, MeasuredStep, OwedKept
<1>3. OwedInv => AbortedRunsAreStopped
  BY Zenon DEF OwedInv, AbortedRunsAreStopped
<1> QED BY <1>1, <1>2, <1>3, TypesAlways, DriverAlways, SendAlways, PTL DEF RunsSpec
===========================================================================
