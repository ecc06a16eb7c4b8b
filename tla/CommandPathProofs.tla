------------------------ MODULE CommandPathProofs ------------------------
(***************************************************************************)
(* What TLAPS proves of CommandPath, for any commands, devices, workers,   *)
(* queue bound and number of attempts: the type invariant, that a caller   *)
(* hears exactly one report, and that "delivered" means that the reported  *)
(* copy reached the bus.                                                   *)
(***************************************************************************)
EXTENDS CommandPath, FiniteSetTheorems, SequenceTheorems, TLAPS

\* PathTypeOK in the two parts that the provers can each do, with the fact that
\* a worker inside _deliver holds a command.
ControlFlagsOK ==
    stopping \in BOOLEAN /\ adopted \in [Workers -> BOOLEAN] /\ leaked \in BOOLEAN
PathFlagsOK == settled \in [Commands -> BOOLEAN] /\ ControlFlagsOK

PathRangesOK ==
    /\ stops \in Seq(Commands) /\ queue \in Seq(Commands)
    /\ rank \in [Commands -> Nat] /\ ticket \in Nat \ {0}
    /\ merged \in [Commands -> Nat]
    /\ pc \in [Workers -> {"new", "get", "open", "send", "answer", "backoff", "stopped"}]
    /\ item \in [Workers -> Commands \cup {None}]
    /\ attempt \in [Workers -> Attempts]
    /\ session \in [Workers -> {"none", "open", "halfopen"}]
    /\ closing \in {"no", "cancelling", "closed"}
    /\ sent \in Nat /\ dropped \in Nat
    /\ bus \in Seq(Commands \X Attempts)

CallsOK == calls \in [Commands -> Seq(Reports)]

Holding == \A w \in Workers : pc[w] \in InDelivery => item[w] \in Commands

--------------------------------------------------------------------------
(* Lemmas about the operators *)

\* What stands in a sequence after one more element.
LEMMA ElementsAppend ==
    ASSUME NEW T, NEW s \in Seq(T), NEW e \in T
    PROVE  Elements(Append(s, e)) = Elements(s) \cup {e}
<1>1. Elements(Append(s, e)) \subseteq Elements(s) \cup {e}
  BY DEF Elements
<1>2. e \in Elements(Append(s, e))
  BY DEF Elements
<1>3. Elements(s) \subseteq Elements(Append(s, e))
  BY DEF Elements
<1> QED BY <1>1, <1>2, <1>3

\* _get removes the head of one of the two deques and leaves sequences of
\* commands behind.
LEMMA GetTypes ==
    ASSUME stops \in Seq(Commands), queue \in Seq(Commands), NEW c \in Elements(Pending), Get(c)
    PROVE  c \in Commands /\ stops' \in Seq(Commands) /\ queue' \in Seq(Commands)
<1>1. CASE stops # <<>>
  BY <1>1, HeadTailProperties, Zenon DEF Get
<1>2. CASE stops = <<>>
  BY <1>2, HeadTailProperties, EmptySeq, Zenon DEF Get
<1> QED BY <1>1, <1>2

\* Inserting a command leaves a sequence of commands.
LEMMA InsertType ==
    ASSUME NEW s \in Seq(Commands), NEW i \in DOMAIN s, NEW c \in Commands
    PROVE  InsertBehind(s, i, c) \in Seq(Commands)
<1>1. SubSeq(s, 1, i) \in Seq(Commands) /\ SubSeq(s, i + 1, Len(s)) \in Seq(Commands)
  OBVIOUS
<1>2. <<c>> \in Seq(Commands)
  OBVIOUS
<1> QED BY <1>1, <1>2 DEF InsertBehind

\* _put leaves sequences of commands.
LEMMA PutTypes ==
    ASSUME stops \in Seq(Commands), queue \in Seq(Commands), NEW c \in Commands, Put(c)
    PROVE  stops' \in Seq(Commands) /\ queue' \in Seq(Commands)
<1>1. CASE Kind[c] # "stop"
  BY <1>1 DEF Put
<1>2. CASE Kind[c] = "stop" /\ stops' = Append(stops, c) /\ UNCHANGED queue
  BY <1>2
<1>3. CASE UNCHANGED stops /\ \E i \in DOMAIN queue : queue' = InsertBehind(queue, i, c)
  BY <1>3, InsertType, Zenon
<1> QED BY <1>1, <1>2, <1>3, Zenon DEF Put

\* _settle appends at most one report to what a caller has heard.
LEMMA SettleTypes ==
    ASSUME PathFlagsOK, CallsOK, NEW S, NEW report \in Reports, Settle(S, report)
    PROVE  CallsOK' /\ settled' \in [Commands -> BOOLEAN]
<1>1. CallsOK'
  BY DEF Settle, CallsOK
<1>2. settled' \in [Commands -> BOOLEAN]
  BY Zenon DEF Settle, PathFlagsOK
<1> QED BY <1>1, <1>2

\* _discard_queued counts whole commands.
LEMMA DiscardTypes ==
    ASSUME PathRangesOK, NEW S, IsFiniteSet(S), DiscardQueuedAnd(S)
    PROVE  /\ stops' = <<>> /\ queue' = <<>>
           /\ Settle(Elements(Pending) \cup S, Dropped)
           /\ dropped' \in Nat
           /\ UNCHANGED <<rank, ticket, merged, sent>>
<1>1. Len(stops) \in Nat /\ Len(queue) \in Nat /\ dropped \in Nat
  BY LenProperties DEF PathRangesOK
<1>2. Cardinality(S) \in Nat
  BY FS_CardinalityType
<1> QED BY <1>1, <1>2 DEF DiscardQueuedAnd

--------------------------------------------------------------------------
(* Steps *)

\* Every step of the command path leaves the reports alone or settles some
\* commands: with a delivery only when a worker is answered on an open session.
SettlesSome ==
    \/ UNCHANGED settleVars
    \/ \E S : Settle(S, Dropped)
    \/ \E w \in Workers : /\ pc[w] = "answer" /\ session[w] = "open"
                          /\ Settle({item[w]}, Delivered(attempt[w]))

\* SettlesSome covers PathNext.
LEMMA StepSettles == [PathNext]_pathVars => SettlesSome
<1> SUFFICES ASSUME [PathNext]_pathVars PROVE SettlesSome
  OBVIOUS
<1>1. CASE UNCHANGED pathVars
  BY <1>1, Zenon DEF pathVars, settleVars, SettlesSome
<1>2. CASE EventAuthFailure \/ CloseFinish
  BY <1>2, Zenon DEF EventAuthFailure, CloseFinish, DiscardQueuedAnd, SettlesSome
<1>3. CASE CloseListener
  BY <1>3, Zenon DEF CloseListener, SettlesSome
<1>4. ASSUME NEW c \in Commands, Send(c) PROVE SettlesSome
  BY <1>4, Zenon DEF Send, SendCoalesced, SendRefused, SendQueued, SettlesSome
<1>5. ASSUME NEW w \in Workers, WorkerStep(w) \/ GatewayDropsSession(w) PROVE SettlesSome
  <2>1. CASE Answered(w)
    BY <2>1, Zenon DEF Answered, SettlesSome
  <2>2. CASE CommandAuthFailure(w)
    BY <2>2, Zenon DEF CommandAuthFailure, DiscardQueuedAnd, SettlesSome
  <2>3. CASE DequeueExpired(w)
    BY <2>3, Zenon DEF DequeueExpired, SettlesSome
  <2>4. CASE LastAttemptFails(w) \/ UnexpectedError(w)
    BY <2>4, Zenon DEF LastAttemptFails, UnexpectedError, GiveUp, SettlesSome
  <2>5. CASE Cancelled(w)
    BY <2>5, Zenon DEF Cancelled, SettlesSome
  <2>6. CASE StartWorker(w) \/ IdleTimeout(w) \/ Dequeue(w) \/ Opened(w) \/ Write(w)
             \/ RetryAttempt(w) \/ WakeFromBackoff(w) \/ GatewayDropsSession(w)
    BY <2>6, Zenon DEF StartWorker, IdleTimeout, Dequeue, Opened, Write, RetryAttempt,
                       WakeFromBackoff, GatewayDropsSession, SettlesSome
  <2> QED BY <1>5, <2>1, <2>2, <2>3, <2>4, <2>5, <2>6, Zenon DEF WorkerStep
<1> QED BY <1>1, <1>2, <1>3, <1>4, <1>5, Zenon DEF PathNext

\* The flags of the loops stay Boolean.
LEMMA ControlFlagsStep == ControlFlagsOK /\ [PathNext]_pathVars => ControlFlagsOK'
<1> SUFFICES ASSUME ControlFlagsOK, [PathNext]_pathVars PROVE ControlFlagsOK'
  OBVIOUS
<1> USE DEF ControlFlagsOK
<1>1. CASE UNCHANGED pathVars
  BY <1>1, Zenon DEF pathVars
<1>2. CASE EventAuthFailure \/ CloseFinish \/ CloseListener
  BY <1>2, Zenon DEF EventAuthFailure, CloseFinish, CloseListener, DiscardQueuedAnd,
                     workerVars, countVars
<1>3. ASSUME NEW c \in Commands, Send(c) PROVE ControlFlagsOK'
  BY <1>3, Zenon DEF Send, SendCoalesced, SendRefused, SendQueued, controlVars, workerVars,
                     countVars
<1>4. ASSUME NEW w \in Workers, WorkerStep(w) \/ GatewayDropsSession(w) PROVE ControlFlagsOK'
  <2>1. CASE StartWorker(w) \/ IdleTimeout(w) \/ Dequeue(w) \/ DequeueExpired(w) \/ Write(w)
             \/ RetryAttempt(w) \/ WakeFromBackoff(w) \/ GatewayDropsSession(w)
    BY <2>1, Zenon DEF StartWorker, IdleTimeout, Dequeue, DequeueExpired, Write, RetryAttempt,
                       WakeFromBackoff, GatewayDropsSession, controlVars, countVars
  <2>2. CASE Opened(w)
    BY <2>2 DEF Opened, controlVars, countVars
  <2>3. CASE Answered(w)
    BY <2>3 DEF Answered, controlVars
  <2>4. CASE LastAttemptFails(w) \/ UnexpectedError(w)
    BY <2>4, Zenon DEF LastAttemptFails, UnexpectedError, GiveUp, Abandon, controlVars
  <2>5. CASE CommandAuthFailure(w)
    BY <2>5, Zenon DEF CommandAuthFailure, DiscardQueuedAnd
  <2>6. CASE Cancelled(w)
    BY <2>6, Zenon DEF Cancelled, Abandon, controlVars
  <2> QED BY <1>4, <2>1, <2>2, <2>3, <2>4, <2>5, <2>6, Zenon DEF WorkerStep
<1> QED BY <1>1, <1>2, <1>3, <1>4, Zenon DEF PathNext

\* The reports keep their type.
LEMMA ReportsStep ==
    PathFlagsOK /\ CallsOK /\ PathRangesOK /\ [PathNext]_pathVars
        => CallsOK' /\ settled' \in [Commands -> BOOLEAN]
<1> SUFFICES ASSUME PathFlagsOK, CallsOK, PathRangesOK, [PathNext]_pathVars
             PROVE  CallsOK' /\ settled' \in [Commands -> BOOLEAN]
  OBVIOUS
<1>1. CASE UNCHANGED settleVars
  BY <1>1, Zenon DEF settleVars, CallsOK, PathFlagsOK
<1>2. CASE \E S : Settle(S, Dropped)
  BY <1>2, SettleTypes, Zenon DEF Reports
<1>3. ASSUME NEW w \in Workers, Settle({item[w]}, Delivered(attempt[w]))
      PROVE  CallsOK' /\ settled' \in [Commands -> BOOLEAN]
  <2>1. Delivered(attempt[w]) \in Reports
    BY Zenon DEF PathRangesOK, Reports
  <2> QED BY <1>3, <2>1, SettleTypes
<1> QED BY <1>1, <1>2, <1>3, StepSettles, Zenon DEF SettlesSome

\* The queue, the workers, the counters and the bus keep their ranges, and a
\* worker inside _deliver always holds a command.
LEMMA RangesStep ==
    PathRangesOK /\ Holding /\ [PathNext]_pathVars => PathRangesOK' /\ Holding'
<1> SUFFICES ASSUME PathRangesOK, Holding, [PathNext]_pathVars PROVE PathRangesOK' /\ Holding'
  OBVIOUS
<1> USE PathAssumption DEF PathAssumption, PathRangesOK, Holding, InDelivery
<1>1. CASE UNCHANGED pathVars
  BY <1>1 DEF pathVars
<1>2. CASE EventAuthFailure \/ CloseFinish
  <2>1. DiscardQueuedAnd({})
    BY <1>2, Zenon DEF EventAuthFailure, CloseFinish
  <2>2. stops' = <<>> /\ queue' = <<>> /\ dropped' \in Nat /\ UNCHANGED <<rank, ticket, merged, sent>>
    BY <2>1, DiscardTypes, FS_EmptySet
  <2> QED BY <1>2, <2>2 DEF EventAuthFailure, CloseFinish, workerVars
<1>3. CASE CloseListener
  BY <1>3 DEF CloseListener, queueVars, workerVars, countVars
<1>4. ASSUME NEW c \in Commands, Send(c) PROVE PathRangesOK' /\ Holding'
  <2>1. CASE SendCoalesced(c)
    <3>1. Len(bus) + 1 \in Nat
      BY LenProperties
    <3> QED BY <2>1, <3>1 DEF SendCoalesced, workerVars, controlVars, countVars
  <2>2. CASE SendRefused(c)
    BY <2>2 DEF SendRefused, queueVars, workerVars, controlVars
  <2>3. CASE SendQueued(c)
    <3>1. stops' \in Seq(Commands) /\ queue' \in Seq(Commands)
      BY <2>3, PutTypes, Zenon DEF SendQueued
    <3> QED BY <2>3, <3>1 DEF SendQueued, workerVars, controlVars, countVars
  <2> QED BY <1>4, <2>1, <2>2, <2>3 DEF Send
<1>5. ASSUME NEW w \in Workers, WorkerStep(w) \/ GatewayDropsSession(w)
      PROVE  PathRangesOK' /\ Holding'
  <2> USE DEF Goto, Release, NextRound, BackoffOrStop, queueVars, workerVars, controlVars, countVars
  <2>1. CASE StartWorker(w) \/ IdleTimeout(w) \/ WakeFromBackoff(w) \/ GatewayDropsSession(w)
    <3>1. CASE StartWorker(w)
      BY <3>1 DEF StartWorker
    <3>2. CASE IdleTimeout(w)
      BY <3>2 DEF IdleTimeout
    <3>3. CASE WakeFromBackoff(w)
      BY <3>3 DEF WakeFromBackoff
    <3>4. CASE GatewayDropsSession(w)
      BY <3>4 DEF GatewayDropsSession
    <3> QED BY <2>1, <3>1, <3>2, <3>3, <3>4
  <2>2. CASE Dequeue(w)
    <3>1. PICK c \in Elements(Pending) : Get(c) /\ item' = [item EXCEPT ![w] = c]
      BY <2>2, Zenon DEF Dequeue
    <3>2. c \in Commands /\ stops' \in Seq(Commands) /\ queue' \in Seq(Commands)
      BY <3>1, GetTypes
    <3> QED BY <2>2, <3>1, <3>2 DEF Dequeue, Attempts
  <2>3. CASE DequeueExpired(w)
    <3>1. stops' \in Seq(Commands) /\ queue' \in Seq(Commands)
      BY <2>3, GetTypes, Zenon DEF DequeueExpired
    <3> QED BY <2>3, <3>1 DEF DequeueExpired
  <2>4. CASE Opened(w) \/ Answered(w)
    <3>1. CASE Opened(w)
      BY <3>1 DEF Opened
    <3>2. CASE Answered(w)
      <4>1. PathRangesOK'
        BY <3>2 DEF Answered
      <4>2. Holding'
        BY <3>2 DEF Answered
      <4> QED BY <4>1, <4>2
    <3> QED BY <2>4, <3>1, <3>2
  <2>5. CASE Write(w)
    <3>1. <<item[w], attempt[w]>> \in Commands \X Attempts
      BY <2>5 DEF Write
    <3>2. bus' \in Seq(Commands \X Attempts)
      BY <2>5, <3>1 DEF Write
    <3> QED BY <2>5, <3>2 DEF Write
  <2>6. CASE RetryAttempt(w)
    BY <2>6 DEF RetryAttempt, Attempts
  <2>7. CASE LastAttemptFails(w) \/ UnexpectedError(w)
    <3>1. GiveUp(w)
      BY <2>7, Zenon DEF LastAttemptFails, UnexpectedError
    <3>2. PathRangesOK'
      <4>1. item' \in [Workers -> Commands \cup {None}]
        BY <3>1 DEF GiveUp
      <4>2. pc' \in [Workers -> {"new", "get", "open", "send", "answer", "backoff", "stopped"}]
        BY <3>1 DEF GiveUp
      <4>3. session' \in [Workers -> {"none", "open", "halfopen"}]
        BY <3>1 DEF GiveUp
      <4>4. /\ UNCHANGED <<stops, queue, rank, ticket, merged, attempt, closing, sent, bus>>
            /\ dropped' \in Nat
        BY <3>1 DEF GiveUp
      <4> QED BY <4>1, <4>2, <4>3, <4>4
    <3>3. Holding'
      BY <3>1 DEF GiveUp
    <3> QED BY <3>2, <3>3
  <2>8. CASE CommandAuthFailure(w)
    <3>1. DiscardQueuedAnd({item[w]})
      BY <2>8, Zenon DEF CommandAuthFailure
    <3>2. stops' = <<>> /\ queue' = <<>> /\ dropped' \in Nat /\ UNCHANGED <<rank, ticket, merged, sent>>
      BY <3>1, DiscardTypes, FS_Singleton
    <3> QED BY <2>8, <3>2 DEF CommandAuthFailure
  <2>9. CASE Cancelled(w)
    BY <2>9 DEF Cancelled
  <2> QED BY <1>5, <2>1, <2>2, <2>3, <2>4, <2>5, <2>6, <2>7, <2>8, <2>9, Zenon DEF WorkerStep
<1> QED BY <1>1, <1>2, <1>3, <1>4, <1>5, Zenon DEF PathNext

--------------------------------------------------------------------------
(* Theorems *)

\* The type invariant in parts.
TypesInv == PathFlagsOK /\ CallsOK /\ PathRangesOK /\ Holding

\* The types are inductive.
LEMMA TypesAlways == PathSpec => []TypesInv
<1>1. PathInit => TypesInv
  <2> SUFFICES ASSUME PathInit PROVE TypesInv
    OBVIOUS
  <2>1. PathFlagsOK
    <3>1. adopted \in [Workers -> BOOLEAN]
      BY DEF PathInit
    <3> QED BY <3>1, Zenon DEF PathInit, PathFlagsOK, ControlFlagsOK
  <2>2. CallsOK
    BY DEF PathInit, CallsOK
  <2>3. PathRangesOK
    BY PathAssumption DEF PathAssumption, PathInit, PathRangesOK, Attempts
  <2>4. Holding
    BY DEF PathInit, Holding, InDelivery
  <2> QED BY <2>1, <2>2, <2>3, <2>4 DEF TypesInv
<1>2. TypesInv /\ [PathNext]_pathVars => TypesInv'
  <2> SUFFICES ASSUME TypesInv, [PathNext]_pathVars PROVE TypesInv'
    OBVIOUS
  <2>1. CallsOK' /\ settled' \in [Commands -> BOOLEAN]
    BY ReportsStep DEF TypesInv
  <2>2. ControlFlagsOK'
    BY ControlFlagsStep, Zenon DEF TypesInv, PathFlagsOK
  <2>3. PathRangesOK' /\ Holding'
    BY RangesStep DEF TypesInv
  <2> QED BY <2>1, <2>2, <2>3, Zenon DEF TypesInv, PathFlagsOK
<1> QED BY <1>1, <1>2, PTL DEF PathSpec

\* Every variable of the command path keeps its type, for any number of
\* commands, devices and sending workers and any queue bound.
THEOREM PathTypeCorrect == PathSpec => []PathTypeOK
<1>1. TypesInv => PathTypeOK
  BY Zenon DEF TypesInv, PathFlagsOK, ControlFlagsOK, CallsOK, PathRangesOK, PathTypeOK
<1> QED BY <1>1, TypesAlways, PTL

\* A settle keeps the books: the first report wins and sets the flag, a second
\* one changes nothing.
LEMMA SettleOnce ==
    ASSUME PathFlagsOK, CallsOK, ExactlyOneReport, NEW S, NEW report, Settle(S, report)
    PROVE  ExactlyOneReport'
<1> SUFFICES ASSUME NEW c \in Commands
             PROVE  Len(calls'[c]) <= 1 /\ (settled'[c] <=> calls'[c] # <<>>)
  BY DEF ExactlyOneReport
<1>0. /\ calls[c] \in Seq(Reports)
      /\ Len(calls[c]) <= 1
      /\ settled[c] <=> calls[c] # <<>>
      /\ calls'[c] = IF c \in S /\ ~settled[c] THEN Append(calls[c], report) ELSE calls[c]
      /\ settled'[c] <=> (settled[c] \/ c \in S)
  BY DEF Settle, CallsOK, ExactlyOneReport
<1>1. CASE c \in S /\ ~settled[c]
  <2>1. calls[c] = <<>>
    BY <1>0, <1>1
  <2>2. calls'[c] = <<report>>
    BY <1>0, <1>1, <2>1
  <2>3. settled'[c]
    BY <1>0, <1>1
  <2> QED BY <2>2, <2>3
<1>2. CASE ~(c \in S /\ ~settled[c])
  <2>1. calls'[c] = calls[c] /\ (settled'[c] <=> settled[c])
    BY <1>0, <1>2, Zenon
  <2> QED BY <1>0, <2>1
<1> QED BY <1>1, <1>2

\* The promise of _QueuedCommand: exactly one of on_delivered and on_dropped
\* runs, exactly once, whatever the interleaving of the workers, the retries, a
\* rejected password and a shutdown.
THEOREM ReportedOnce == PathSpec => []ExactlyOneReport
<1>1. PathInit => ExactlyOneReport
  BY DEF PathInit, ExactlyOneReport
<1>2. TypesInv /\ ExactlyOneReport /\ [PathNext]_pathVars => ExactlyOneReport'
  <2> SUFFICES ASSUME TypesInv, ExactlyOneReport, [PathNext]_pathVars PROVE ExactlyOneReport'
    OBVIOUS
  <2>1. CASE UNCHANGED settleVars
    BY <2>1, Zenon DEF settleVars, ExactlyOneReport
  <2>2. CASE \E S, report : Settle(S, report)
    BY <2>2, SettleOnce, Zenon DEF TypesInv
  <2> QED BY <2>1, <2>2, StepSettles, Zenon DEF SettlesSome
<1> QED BY <1>1, <1>2, TypesAlways, PTL DEF PathSpec

--------------------------------------------------------------------------
\* A worker that waits for the answer on a session the gateway still has, has
\* put its copy on the bus.
WrittenInv ==
    \A w \in Workers :
        pc[w] = "answer" /\ session[w] = "open" => <<item[w], attempt[w]>> \in Elements(bus)

\* A write into a session the gateway still has adds the writer's copy.
LEMMA WriteGrows ==
    ASSUME TypesInv, NEW w \in Workers, Write(w), session[w] = "open"
    PROVE  Elements(bus') = Elements(bus) \cup {<<item[w], attempt[w]>>}
<1>1. bus' = Append(bus, <<item[w], attempt[w]>>)
  BY Zenon DEF Write
<1>2. <<item[w], attempt[w]>> \in Commands \X Attempts
  BY DEF Write, TypesInv, PathRangesOK, Holding, InDelivery
<1>3. bus \in Seq(Commands \X Attempts)
  BY Zenon DEF TypesInv, PathRangesOK
<1>4. Elements(Append(bus, <<item[w], attempt[w]>>)) = Elements(bus) \cup {<<item[w], attempt[w]>>}
  BY <1>2, <1>3, ElementsAppend
<1> QED BY <1>1, <1>4, Zenon

\* Only a write touches the bus, and it adds the writer's copy.
LEMMA BusGrows ==
    ASSUME TypesInv, [PathNext]_pathVars
    PROVE  \/ bus' = bus
           \/ \E w \in Workers : /\ Write(w) /\ session[w] = "open"
                                 /\ Elements(bus') = Elements(bus) \cup {<<item[w], attempt[w]>>}
<1>1. CASE UNCHANGED pathVars
  BY <1>1, Zenon DEF pathVars
<1>2. CASE EventAuthFailure \/ CloseFinish \/ CloseListener
  BY <1>2, Zenon DEF EventAuthFailure, CloseFinish, CloseListener
<1>3. ASSUME NEW c \in Commands, Send(c) PROVE bus' = bus
  BY <1>3, Zenon DEF Send, SendCoalesced, SendRefused, SendQueued
<1>4. ASSUME NEW w \in Workers, Write(w), session[w] = "open"
      PROVE  Elements(bus') = Elements(bus) \cup {<<item[w], attempt[w]>>}
  BY <1>4, WriteGrows
<1>5. ASSUME NEW w \in Workers, Write(w), session[w] # "open" PROVE bus' = bus
  BY <1>5, Zenon DEF Write
<1>6. ASSUME NEW w \in Workers, WorkerStep(w) \/ GatewayDropsSession(w), ~Write(w)
      PROVE  bus' = bus
  BY <1>6, Zenon DEF WorkerStep, StartWorker, IdleTimeout, Dequeue, DequeueExpired, Opened,
                     Answered, RetryAttempt, LastAttemptFails, UnexpectedError, GiveUp,
                     WakeFromBackoff, CommandAuthFailure, Cancelled, GatewayDropsSession
<1> QED BY <1>1, <1>2, <1>3, <1>4, <1>5, <1>6, Zenon DEF PathNext

\* A worker comes to wait for the answer by its own write, and until it leaves it
\* holds the same command in the same attempt.
LEMMA AnswerHeld ==
    ASSUME TypesInv, [PathNext]_pathVars, NEW v \in Workers, pc'[v] = "answer", session'[v] = "open"
    PROVE  \/ /\ pc[v] = "answer" /\ session[v] = "open"
              /\ item'[v] = item[v] /\ attempt'[v] = attempt[v]
           \/ Write(v)
<1> USE DEF TypesInv, PathRangesOK
<1>1. CASE UNCHANGED workerVars
  BY <1>1 DEF workerVars
<1>2. CASE UNCHANGED pathVars \/ EventAuthFailure \/ CloseFinish \/ CloseListener
  BY <1>1, <1>2 DEF pathVars, workerVars, EventAuthFailure, CloseFinish, CloseListener
<1>3. ASSUME NEW c \in Commands, Send(c) PROVE UNCHANGED workerVars
  BY <1>3, Zenon DEF Send, SendCoalesced, SendRefused, SendQueued
<1>4. ASSUME NEW w \in Workers, WorkerStep(w) \/ GatewayDropsSession(w), ~Write(w)
      PROVE  /\ pc[v] = "answer" /\ session[v] = "open"
             /\ item'[v] = item[v] /\ attempt'[v] = attempt[v]
  <2> USE DEF Goto, Release, NextRound, BackoffOrStop
  <2>1. CASE StartWorker(w) \/ IdleTimeout(w) \/ WakeFromBackoff(w) \/ GatewayDropsSession(w)
    BY <2>1 DEF StartWorker, IdleTimeout, WakeFromBackoff, GatewayDropsSession
  <2>2. CASE Dequeue(w)
    BY <2>2 DEF Dequeue
  <2>3. CASE DequeueExpired(w)
    BY <2>3 DEF DequeueExpired
  <2>4. CASE Opened(w) \/ RetryAttempt(w)
    BY <2>4 DEF Opened, RetryAttempt
  <2>5. CASE Answered(w)
    BY <2>5 DEF Answered
  <2>6. CASE LastAttemptFails(w) \/ UnexpectedError(w)
    BY <2>6 DEF LastAttemptFails, UnexpectedError, GiveUp
  <2>7. CASE CommandAuthFailure(w) \/ Cancelled(w)
    BY <2>7 DEF CommandAuthFailure, Cancelled
  <2> QED BY <1>4, <2>1, <2>2, <2>3, <2>4, <2>5, <2>6, <2>7, Zenon DEF WorkerStep
<1>5. ASSUME NEW w \in Workers, Write(w), w # v
      PROVE  /\ pc[v] = "answer" /\ session[v] = "open"
             /\ item'[v] = item[v] /\ attempt'[v] = attempt[v]
  BY <1>5 DEF Write, Goto
<1> QED BY <1>1, <1>2, <1>3, <1>4, <1>5, Zenon DEF PathNext

\* WrittenInv is preserved: a worker comes to "answer" by its own write, and
\* until it leaves nobody takes the copy back.
LEMMA WrittenStep == TypesInv /\ WrittenInv /\ [PathNext]_pathVars => WrittenInv'
<1> SUFFICES ASSUME TypesInv, WrittenInv, [PathNext]_pathVars,
                    NEW v \in Workers, pc'[v] = "answer", session'[v] = "open"
             PROVE  <<item'[v], attempt'[v]>> \in Elements(bus')
  BY DEF WrittenInv
<1>1. Elements(bus) \subseteq Elements(bus')
  BY BusGrows, Zenon
<1>2. \/ /\ pc[v] = "answer" /\ session[v] = "open"
         /\ item'[v] = item[v] /\ attempt'[v] = attempt[v]
      \/ Write(v)
  BY AnswerHeld
<1>3. CASE Write(v)
  <2>1. session[v] = "open" /\ item'[v] = item[v] /\ attempt'[v] = attempt[v]
    BY <1>3, Zenon DEF Write
  <2>2. Elements(bus') = Elements(bus) \cup {<<item[v], attempt[v]>>}
    BY <1>3, <2>1, WriteGrows
  <2> QED BY <2>1, <2>2, Zenon
<1> QED BY <1>1, <1>2, <1>3, Zenon DEF WrittenInv

\* DeliveredReachedBus is preserved: only an answer reports a delivery.
LEMMA DeliveredStep ==
    TypesInv /\ WrittenInv /\ DeliveredReachedBus /\ [PathNext]_pathVars => DeliveredReachedBus'
<1> SUFFICES ASSUME TypesInv, WrittenInv, DeliveredReachedBus, [PathNext]_pathVars,
                    NEW c \in Commands, NEW a \in Attempts, Delivered(a) \in Elements(calls'[c])
             PROVE  <<c, a>> \in Elements(bus')
  BY DEF DeliveredReachedBus
<1>1. Elements(bus) \subseteq Elements(bus')
  BY BusGrows, Zenon
<1>2. CASE Delivered(a) \in Elements(calls[c])
  BY <1>1, <1>2, Zenon DEF DeliveredReachedBus
<1>3. CASE Delivered(a) \notin Elements(calls[c])
  <2>1. ASSUME NEW S, NEW report \in Reports, Settle(S, report)
        PROVE  c \in S /\ report = Delivered(a)
    <3>1. calls[c] \in Seq(Reports)
      BY DEF TypesInv, CallsOK
    <3>2. calls'[c] = IF c \in S /\ ~settled[c] THEN Append(calls[c], report) ELSE calls[c]
      BY <2>1 DEF Settle
    <3>3. c \in S /\ calls'[c] = Append(calls[c], report)
      BY <1>3, <3>2, Zenon
    <3> QED BY <1>3, <3>1, <3>3, ElementsAppend
  <2>2. ~(UNCHANGED settleVars)
    BY <1>3, Zenon DEF settleVars
  <2>3. \A S : ~Settle(S, Dropped)
    <3>1. Dropped \in Reports /\ Dropped # Delivered(a)
      BY DEF Reports, Dropped, Delivered
    <3> QED BY <2>1, <3>1
  <2>4. PICK w \in Workers : /\ pc[w] = "answer" /\ session[w] = "open"
                             /\ Settle({item[w]}, Delivered(attempt[w]))
    BY <2>2, <2>3, StepSettles, Zenon DEF SettlesSome
  <2>5. attempt[w] \in Attempts /\ Delivered(attempt[w]) \in Reports
    BY DEF TypesInv, PathRangesOK, Reports
  <2>6. c = item[w] /\ Delivered(attempt[w]) = Delivered(a)
    BY <2>1, <2>4, <2>5
  <2>7. attempt[w] = a
    BY <2>6 DEF Delivered
  <2> QED BY <1>1, <2>4, <2>6, <2>7, Zenon DEF WrittenInv
<1> QED BY <1>2, <1>3

\* "Delivered" means that the gateway answered (0.4.5): the copy that the report
\* is timed on reached the bus, never a write into a session that was gone.
THEOREM DeliveredMeansOnBus == PathSpec => []DeliveredReachedBus
<1>1. PathInit => WrittenInv /\ DeliveredReachedBus
  BY DEF PathInit, WrittenInv, DeliveredReachedBus, Elements
<1> QED BY <1>1, WrittenStep, DeliveredStep, TypesAlways, PTL DEF PathSpec
==========================================================================
