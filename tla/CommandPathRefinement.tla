---------------------- MODULE CommandPathRefinement ----------------------
(***************************************************************************)
(* That CommandPath implements CommandContract: what a caller of send() is *)
(* told, and what the bus receives, are steps of the promise, for any      *)
(* commands, devices, workers and bounds.  The map is fate, the report a   *)
(* caller has had so far, and the copies on the bus without their order.   *)
(***************************************************************************)
EXTENDS CommandPathQueueProofs

\* What the caller of one command knows, from its reports, its coalescing and its rank.
FateOf(heard, m, r) ==
    IF heard # <<>> THEN [state |-> heard[Len(heard)].what, attempt |-> heard[Len(heard)].attempt]
    ELSE [attempt |-> 0,
          state |-> IF m # 0 THEN "merged" ELSE IF r # 0 THEN "taken" ELSE "unsent"]

RefinementInv == TypesInv /\ PlacesInv /\ ExactlyOneReport /\ WrittenInv

--------------------------------------------------------------------------
(* The map *)

\* fate and its next value are functions of the commands, point by point FateOf.
LEMMA FatePoints ==
    /\ fate = [c \in Commands |-> fate[c]]
    /\ fate' = [c \in Commands |-> fate'[c]]
    /\ \A c \in Commands : fate[c] = FateOf(calls[c], merged[c], rank[c])
    /\ \A c \in Commands : fate'[c] = FateOf(calls'[c], merged'[c], rank'[c])
BY Zenon DEF fate, FateOf

\* A caller that has heard nothing knows that the command is unsent, taken or merged.
LEMMA FateOpen ==
    /\ \A m, r : m # 0 => FateOf(<<>>, m, r) = Contract!Is("merged")
    /\ \A r : r # 0 => FateOf(<<>>, 0, r) = Contract!Is("taken")
    /\ FateOf(<<>>, 0, 0) = Contract!Is("unsent")
BY DEF FateOf, Contract!Is

\* One report decides.
LEMMA FateClosed ==
    /\ \A m, r : FateOf(<<Dropped>>, m, r) = Contract!Is("dropped")
    /\ \A a, m, r : FateOf(<<Delivered(a)>>, m, r) = Contract!DeliveredAt(a)
<1>1. \A x, m, r : FateOf(<<x>>, m, r) = [state |-> x.what, attempt |-> x.attempt]
  BY DEF FateOf
<1> QED BY <1>1 DEF Dropped, Delivered, Contract!Is, Contract!DeliveredAt

\* What its next report, coalescing or rank makes of a command.
LEMMA NextFates ==
    ASSUME NEW d \in Commands
    PROVE  /\ calls'[d] = <<Dropped>> => fate'[d] = Contract!Is("dropped")
           /\ \A a : calls'[d] = <<Delivered(a)>> => fate'[d] = Contract!DeliveredAt(a)
           /\ calls'[d] = <<>> /\ merged'[d] # 0 => fate'[d] = Contract!Is("merged")
           /\ calls'[d] = <<>> /\ merged'[d] = 0 /\ rank'[d] # 0 => fate'[d] = Contract!Is("taken")
<1> DEFINE h == calls'[d]
           m == merged'[d]
           r == rank'[d]
           f == fate'[d]
<1>1. f = FateOf(h, m, r)
  BY FatePoints, Zenon
<1> HIDE DEF h, m, r, f
<1>2. h = <<Dropped>> => f = Contract!Is("dropped")
  BY <1>1, FateClosed, Zenon
<1>3. ASSUME NEW a, h = <<Delivered(a)>> PROVE f = Contract!DeliveredAt(a)
  BY <1>1, <1>3, FateClosed, Zenon
<1>4. h = <<>> /\ m # 0 => f = Contract!Is("merged")
  <2> SUFFICES ASSUME h = <<>>, m # 0 PROVE f = Contract!Is("merged")
    OBVIOUS
  <2>1. f = FateOf(<<>>, m, r)
    BY <1>1
  <2> QED BY <2>1, FateOpen, Zenon
<1>5. h = <<>> /\ m = 0 /\ r # 0 => f = Contract!Is("taken")
  <2> SUFFICES ASSUME h = <<>>, m = 0, r # 0 PROVE f = Contract!Is("taken")
    OBVIOUS
  <2>1. f = FateOf(<<>>, 0, r)
    BY <1>1
  <2> QED BY <2>1, FateOpen, Zenon
<1> QED BY <1>2, <1>3, <1>4, <1>5, Zenon DEF h, m, r, f

\* An open command that was queued is "taken".
LEMMA FateTaken ==
    ASSUME RefinementInv, NEW c \in Commands, ~settled[c], rank[c] # 0
    PROVE  fate[c] = Contract!Is("taken") /\ calls[c] = <<>> /\ merged[c] = 0
<1>1. calls[c] = <<>>
  BY Zenon DEF RefinementInv, ExactlyOneReport
<1>2. merged[c] = 0
  BY Zenon DEF RefinementInv, PlacesInv, CommandsPlaced
<1> QED BY <1>1, <1>2, FateOpen, FatePoints, Zenon

--------------------------------------------------------------------------
(* The steps *)

\* Only the three outcomes of send() number or coalesce a command.
LEMMA OnlySendNumbers ==
    ASSUME [PathNext]_pathVars, \A c \in Commands : ~Send(c)
    PROVE  UNCHANGED <<rank, merged>>
<1>1. CASE UNCHANGED pathVars \/ CloseListener \/ EventAuthFailure \/ CloseFinish
  BY <1>1, Zenon DEF pathVars, CloseListener, EventAuthFailure, CloseFinish, DiscardQueuedAnd,
                     queueVars
<1>2. ASSUME NEW w \in Workers, WorkerStep(w) \/ GatewayDropsSession(w)
      PROVE  UNCHANGED <<rank, merged>>
  BY <1>2, Zenon DEF WorkerStep, StartWorker, IdleTimeout, Dequeue, DequeueExpired, Opened, Write,
                     Answered, RetryAttempt, LastAttemptFails, UnexpectedError, GiveUp,
                     WakeFromBackoff, CommandAuthFailure, DiscardQueuedAnd, Cancelled,
                     GatewayDropsSession, queueVars
<1> QED BY <1>1, <1>2, Zenon DEF PathNext

\* Whoever is told of a loss or a delivery, other than by a refusal of send(), had a
\* command in the path.
LEMMA SettledWasTaken ==
    ASSUME TypesInv, PlacesInv, [PathNext]_pathVars, \A c \in Commands : ~Send(c),
           NEW d \in Commands, ~settled[d], settled'[d]
    PROVE  rank[d] # 0
<1>0. /\ settled \in [Commands -> BOOLEAN]
      /\ stops \in Seq(Commands) /\ queue \in Seq(Commands)
  BY Zenon DEF TypesInv, PathFlagsOK, PathRangesOK
<1>1. ASSUME NEW S, NEW report, Settle(S, report) PROVE d \in S
  BY <1>0, <1>1, SettleMarks, Zenon
<1>2. Waiting(d) => rank[d] # 0
  BY Zenon DEF PlacesInv, CommandsPlaced
<1>3. ASSUME NEW w \in Workers, d = item[w] PROVE rank[d] # 0
  <2>1. d # None
    BY PathAssumption, Zenon DEF PathAssumption
  <2> QED BY <1>3, <2>1, Zenon DEF PlacesInv, WorkersPlaced, Open, Free
<1>4. ~(UNCHANGED settled)
  BY Zenon
<1>5. ASSUME NEW S, DiscardQueuedAnd(S) PROVE Waiting(d) \/ d \in S
  <2>1. d \in Elements(Pending) \cup S
    BY <1>1, <1>5, Zenon DEF DiscardQueuedAnd
  <2> QED BY <1>0, <2>1, PendingWaits, Zenon
<1>6. ASSUME NEW w \in Workers, WorkerStep(w) \/ GatewayDropsSession(w) PROVE rank[d] # 0
  <2>1. CASE \E report : Settle({item[w]}, report) \/ Settle({item[w]} \ {None}, report)
    <3>1. d = item[w]
      BY <1>1, <2>1, Zenon
    <3> QED BY <1>3, <3>1
  <2>2. CASE DequeueExpired(w)
    <3>1. PICK c : Get(c) /\ Settle({c}, Dropped)
      BY <2>2, Zenon DEF DequeueExpired
    <3>2. d = c
      BY <1>1, <3>1, Zenon
    <3>3. Waiting(c)
      BY <1>0, <3>1, GetPlaces, Zenon DEF PlacesInv
    <3> QED BY <1>2, <3>2, <3>3
  <2>3. CASE CommandAuthFailure(w)
    <3>1. Waiting(d) \/ d \in {item[w]}
      BY <1>5, <2>3, Zenon DEF CommandAuthFailure
    <3> QED BY <1>2, <1>3, <3>1, Zenon
  <2> QED BY <1>4, <1>6, <2>1, <2>2, <2>3, Zenon
          DEF WorkerStep, StartWorker, IdleTimeout, Dequeue, Opened, Write, Answered, RetryAttempt,
              LastAttemptFails, UnexpectedError, GiveUp, WakeFromBackoff, Cancelled,
              GatewayDropsSession, settleVars
<1>7. CASE EventAuthFailure \/ CloseFinish
  BY <1>2, <1>5, <1>7, Zenon DEF EventAuthFailure, CloseFinish
<1>8. ~CloseListener /\ ~UNCHANGED pathVars
  BY <1>4, Zenon DEF CloseListener, settleVars, pathVars
<1> QED BY <1>6, <1>7, <1>8, Zenon DEF PathNext

\* send() is the Take of the contract, whatever becomes of the command.
LEMMA SendTakes ==
    ASSUME RefinementInv, NEW c \in Commands, Send(c)
    PROVE  Contract!Take(c)
<1>0. /\ merged \in [Commands -> Nat] /\ rank \in [Commands -> Nat] /\ calls \in [Commands -> Seq(Reports)]
      /\ settled \in [Commands -> BOOLEAN] /\ ticket # 0 /\ Len(bus) + 1 # 0
  <2>1. Len(bus) \in Nat
    BY LenProperties DEF RefinementInv, TypesInv, PathRangesOK
  <2> QED BY <2>1 DEF RefinementInv, TypesInv, PathRangesOK, CallsOK, PathFlagsOK
<1>1. rank[c] = 0 /\ merged[c] = 0 /\ ~settled[c] /\ calls[c] = <<>> /\ bus' = bus
  <2>1. Untouched(c) /\ bus' = bus
    BY Zenon DEF Send, SendCoalesced, SendRefused, SendQueued
  <2> QED BY <2>1, Zenon DEF Untouched, RefinementInv, ExactlyOneReport
<1>2. fate[c] = Contract!Is("unsent")
  BY <1>1, FateOpen, FatePoints, Zenon
<1>3. \A d \in Commands \ {c} : calls'[d] = calls[d] /\ merged'[d] = merged[d] /\ rank'[d] = rank[d]
  <2>1. CASE SendCoalesced(c)
    BY <1>0, <2>1 DEF SendCoalesced, settleVars
  <2>2. CASE SendRefused(c)
    BY <2>2 DEF SendRefused, Settle, queueVars
  <2>3. CASE SendQueued(c)
    BY <1>0, <2>3 DEF SendQueued, settleVars
  <2> QED BY <2>1, <2>2, <2>3, Zenon DEF Send
<1>4. \A d \in Commands \ {c} : fate'[d] = fate[d]
  BY <1>3, FatePoints, Zenon
<1>5. \E s \in {"taken", "merged", "dropped"} : fate'[c] = Contract!Is(s)
  <2>1. CASE SendCoalesced(c)
    <3>1. calls'[c] = <<>> /\ merged'[c] # 0
      BY <1>0, <1>1, <2>1 DEF SendCoalesced, settleVars
    <3>2. fate'[c] = Contract!Is("merged")
      BY <3>1, NextFates, Zenon
    <3> QED BY <3>2, Zenon
  <2>2. CASE SendRefused(c)
    <3>1. calls'[c] = Append(calls[c], Dropped)
      BY <1>1, <2>2 DEF SendRefused, Settle
    <3>2. calls'[c] = <<Dropped>>
      BY <1>1, <3>1
    <3>3. fate'[c] = Contract!Is("dropped")
      BY <3>2, NextFates, Zenon
    <3> QED BY <3>3, Zenon
  <2>3. CASE SendQueued(c)
    <3>1. calls'[c] = <<>> /\ merged'[c] = 0 /\ rank'[c] # 0
      BY <1>0, <1>1, <2>3 DEF SendQueued, settleVars
    <3>2. fate'[c] = Contract!Is("taken")
      BY <3>1, NextFates, Zenon
    <3> QED BY <3>2, Zenon
  <2> QED BY <2>1, <2>2, <2>3, Zenon DEF Send
<1>6. PICK s \in {"taken", "merged", "dropped"} : fate'[c] = Contract!Is(s)
  BY <1>5
<1>7. fate' = [fate EXCEPT ![c] = Contract!Is(s)]
  <2> DEFINE f == fate
             g == fate'
  <2>1. f = [d \in Commands |-> f[d]] /\ g = [d \in Commands |-> g[d]]
    BY FatePoints, Zenon
  <2>2. g[c] = Contract!Is(s) /\ \A d \in Commands \ {c} : g[d] = f[d]
    BY <1>4, <1>6, Zenon
  <2> HIDE DEF f, g
  <2>3. g = [f EXCEPT ![c] = Contract!Is(s)]
    BY <2>1, <2>2
  <2> QED BY <2>3, Zenon DEF f, g
<1> QED BY <1>1, <1>2, <1>7, Zenon DEF Contract!Take

\* A write on a session that the gateway still has is the Reach of the contract.
LEMMA WriteReaches ==
    ASSUME RefinementInv, NEW w \in Workers, Write(w), session[w] = "open"
    PROVE  Contract!Reach(item[w], attempt[w]) /\ item[w] \in Commands /\ attempt[w] \in Attempts
<1>1. Working(w) /\ item[w] \in Commands /\ attempt[w] \in Attempts
  BY DEF Write, Working, InDelivery, RefinementInv, TypesInv, PathRangesOK, Holding
<1>2. fate[item[w]] = Contract!Is("taken")
  BY <1>1, FateTaken, Zenon DEF RefinementInv, PlacesInv, WorkersPlaced, Open
<1>3. UNCHANGED <<calls, merged, rank>>
  BY Zenon DEF Write, settleVars, queueVars
<1>4. fate' = fate
  BY <1>3, Zenon DEF fate
<1>5. Elements(bus') = Elements(bus) \cup {<<item[w], attempt[w]>>}
  BY WriteGrows, Zenon DEF RefinementInv
<1> QED BY <1>1, <1>2, <1>4, <1>5, Zenon DEF Contract!Reach, Elements

\* A settle of commands that are in the path is a Drop of those still open.
LEMMA SettleDrops ==
    ASSUME RefinementInv, NEW S, Settle(S, Dropped), UNCHANGED <<rank, merged, bus>>,
           \A d \in Commands : ~settled[d] /\ settled'[d] => rank[d] # 0
    PROVE  \E T \in SUBSET Commands : Contract!Drop(T)
<1> DEFINE T == {d \in Commands : d \in S /\ ~settled[d]}
<1>0. settled \in [Commands -> BOOLEAN]
  BY Zenon DEF RefinementInv, TypesInv, PathFlagsOK
<1>1. \A d \in T : fate[d] = Contract!Is("taken") /\ calls[d] = <<>>
  <2> SUFFICES ASSUME NEW d \in T PROVE fate[d] = Contract!Is("taken") /\ calls[d] = <<>>
    OBVIOUS
  <2>1. rank[d] # 0
    BY <1>0, SettleMarks, Zenon
  <2> QED BY <2>1, FateTaken, Zenon
<1>2. ASSUME NEW d \in Commands
      PROVE  fate'[d] = IF d \in T THEN Contract!Is("dropped") ELSE fate[d]
  <2>1. CASE d \in T
    <3>1. calls'[d] = Append(calls[d], Dropped) /\ calls[d] = <<>>
      BY <1>1, <2>1 DEF Settle
    <3>2. calls'[d] = <<Dropped>>
      BY <3>1
    <3> QED BY <2>1, <3>2, NextFates, Zenon
  <2>2. CASE d \notin T
    <3>1. calls'[d] = calls[d]
      BY <2>2 DEF Settle
    <3> QED BY <2>2, <3>1, FatePoints, Zenon
  <2> QED BY <2>1, <2>2
<1> HIDE DEF T
<1>3. fate' = [d \in Commands |-> IF d \in T THEN Contract!Is("dropped") ELSE fate[d]]
  <2> DEFINE f == fate
             g == fate'
  <2>1. g = [d \in Commands |-> g[d]]
    BY FatePoints, Zenon
  <2>2. \A d \in Commands : g[d] = IF d \in T THEN Contract!Is("dropped") ELSE f[d]
    BY <1>2, Zenon
  <2> HIDE DEF f, g
  <2>3. g = [d \in Commands |-> IF d \in T THEN Contract!Is("dropped") ELSE f[d]]
    BY <2>1, <2>2
  <2> QED BY <2>3, Zenon DEF f, g
<1>4. T \in SUBSET Commands
  BY Zenon DEF T
<1> QED BY <1>1, <1>3, <1>4, Zenon DEF Contract!Drop

\* An answer on a session that the gateway still has is the Deliver of the contract.
LEMMA AnswerDelivers ==
    ASSUME RefinementInv, NEW w \in Workers, pc[w] = "answer", session[w] = "open",
           Settle({item[w]}, Delivered(attempt[w])), UNCHANGED <<rank, merged, bus>>
    PROVE  /\ Contract!Deliver(item[w], attempt[w])
           /\ item[w] \in Commands /\ attempt[w] \in Attempts
<1>1. Working(w) /\ item[w] \in Commands /\ attempt[w] \in Attempts
  BY DEF Working, InDelivery, RefinementInv, TypesInv, PathRangesOK, Holding
<1>2. rank[item[w]] # 0 /\ ~settled[item[w]]
  BY <1>1, Zenon DEF RefinementInv, PlacesInv, WorkersPlaced, Open
<1>3. fate[item[w]] = Contract!Is("taken") /\ calls[item[w]] = <<>>
  BY <1>1, <1>2, FateTaken
<1>4. <<item[w], attempt[w]>> \in Elements(bus)
  BY Zenon DEF RefinementInv, WrittenInv
<1>5. calls'[item[w]] = <<Delivered(attempt[w])>>
  <2>1. calls'[item[w]] = Append(calls[item[w]], Delivered(attempt[w]))
    BY <1>1, <1>2 DEF Settle
  <2> QED BY <1>3, <2>1
<1>6. \A d \in Commands \ {item[w]} : calls'[d] = calls[d]
  BY DEF Settle
<1>7. fate' = [fate EXCEPT ![item[w]] = Contract!DeliveredAt(attempt[w])]
  <2> DEFINE f == fate
             g == fate'
             c == item[w]
  <2>1. f = [d \in Commands |-> f[d]] /\ g = [d \in Commands |-> g[d]]
    BY FatePoints, Zenon
  <2>2. g[c] = Contract!DeliveredAt(attempt[w])
    BY <1>1, <1>5, NextFates, Zenon
  <2>3. \A d \in Commands \ {c} : g[d] = f[d]
    BY <1>6, FatePoints, Zenon
  <2> HIDE DEF f, g
  <2>4. g = [f EXCEPT ![c] = Contract!DeliveredAt(attempt[w])]
    BY <1>1, <2>1, <2>2, <2>3
  <2> QED BY <2>4, Zenon DEF f, g
<1> QED BY <1>1, <1>3, <1>4, <1>7, Zenon DEF Contract!Deliver

\* Every step of the command path is a step of the contract, or none of its business.
LEMMA StepImplements ==
    RefinementInv /\ [PathNext]_pathVars => [Contract!ContractNext]_(Contract!contractVars)
<1> SUFFICES ASSUME RefinementInv, [PathNext]_pathVars
             PROVE  Contract!ContractNext \/ UNCHANGED <<fate, Elements(bus)>>
  BY Zenon DEF Contract!contractVars
<1>1. ASSUME NEW c \in Commands, Send(c) PROVE Contract!ContractNext
  BY <1>1, SendTakes, Zenon DEF Contract!ContractNext
<1>2. ASSUME NEW w \in Workers, Write(w), session[w] = "open" PROVE Contract!ContractNext
  BY <1>2, WriteReaches, Zenon DEF Contract!ContractNext, Contract!Attempts, Attempts
<1>3. CASE (\A c \in Commands : ~Send(c)) /\ bus' = bus
  <2>1. UNCHANGED <<rank, merged, bus>>
    BY <1>3, OnlySendNumbers, Zenon
  <2>2. \A d \in Commands : ~settled[d] /\ settled'[d] => rank[d] # 0
    BY <1>3, SettledWasTaken, Zenon DEF RefinementInv
  <2>3. CASE UNCHANGED settleVars
    <3>1. UNCHANGED <<calls, merged, rank, bus>>
      BY <2>1, <2>3, Zenon DEF settleVars
    <3> QED BY <3>1, Zenon DEF fate, Elements
  <2>4. ASSUME NEW S, Settle(S, Dropped) PROVE Contract!ContractNext
    BY <2>1, <2>2, <2>4, SettleDrops, Zenon DEF Contract!ContractNext
  <2>5. ASSUME NEW w \in Workers, pc[w] = "answer", session[w] = "open",
               Settle({item[w]}, Delivered(attempt[w]))
        PROVE  Contract!ContractNext
    BY <2>1, <2>5, AnswerDelivers, Zenon DEF Contract!ContractNext, Contract!Attempts, Attempts
  <2> QED BY <2>3, <2>4, <2>5, StepSettles, Zenon DEF SettlesSome
<1> QED BY <1>1, <1>2, <1>3, BusGrows, Zenon DEF RefinementInv

\* The command path keeps the promise of CommandContract: a command that was taken is
\* answered exactly once, and what is reported as delivered was written on the bus by
\* the attempt that the report names.
THEOREM PathImplementsContract == PathSpec => RefinesContract
<1>1. PathInit => Contract!ContractInit
  <2> SUFFICES ASSUME PathInit PROVE Contract!ContractInit
    OBVIOUS
  <2>1. Elements(bus) = {}
    BY DEF PathInit, Elements
  <2>2. \A c \in Commands : fate[c] = Contract!Is("unsent")
    <3>1. \A c \in Commands : calls[c] = <<>> /\ merged[c] = 0 /\ rank[c] = 0
      BY DEF PathInit
    <3> QED BY <3>1, FateOpen, FatePoints, Zenon
  <2>3. fate = [c \in Commands |-> Contract!Is("unsent")]
    <3> DEFINE f == fate
               u == Contract!Is("unsent")
    <3>1. f = [c \in Commands |-> f[c]] /\ \A c \in Commands : f[c] = u
      BY <2>2, FatePoints, Zenon
    <3> HIDE DEF f, u
    <3>2. f = [c \in Commands |-> u]
      BY <3>1
    <3> QED BY <3>2, Zenon DEF f, u
  <2> QED BY <2>1, <2>3, Zenon DEF Contract!ContractInit
<1>2. PathInit => WrittenInv
  BY DEF PathInit, WrittenInv
<1>3. PathSpec => []RefinementInv
  BY <1>2, TypesAlways, PlacesAlways, ReportedOnce, WrittenStep, PTL DEF PathSpec, RefinementInv
<1> QED BY <1>1, <1>3, StepImplements, PTL DEF PathSpec, RefinesContract, Contract!ContractSpec
==========================================================================
