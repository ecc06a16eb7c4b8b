--------------------------- MODULE CommandPath ---------------------------
(***************************************************************************)
(* The command path of one MyHOMEGatewayHandler (gateway.py): the bounded  *)
(* two-deque queue with its stop priority, the sending workers with their  *)
(* command sessions, the one in-place retry, the two delivery callbacks,   *)
(* a rejected password and close_listener().                               *)
(*                                                                         *)
(* A step of the model is the code between two suspension points of one    *)
(* coroutine.  The clock is abstracted: a queued command may be found      *)
(* older than its TTL whenever it is dequeued, and a worker waiting for    *)
(* work may reach its idle timeout whenever the queue is empty.            *)
(***************************************************************************)
EXTENDS Naturals, Sequences, FiniteSets

CONSTANTS Commands,    \* the send()/send_status_request() calls of a behaviour
          Devices,     \* (WHO, WHERE, interface) addresses
          Workers,     \* the sending workers (command_worker_count)
          MaxSize,     \* COMMAND_QUEUE_MAXSIZE
          MaxAttempts, \* COMMAND_ATTEMPTS
          Kind,        \* Kind[c]: a movement, a stop or a status request
          Device,      \* Device[c]: the device c addresses
          Tracked,     \* the calls that pass on_delivered / on_dropped
          None

ASSUME PathAssumption ==
    /\ MaxSize \in Nat \ {0}
    /\ MaxAttempts \in Nat \ {0}
    /\ Kind \in [Commands -> {"move", "stop", "status"}]
    /\ Device \in [Commands -> Devices]
    /\ Tracked \subseteq Commands
    /\ None \notin Commands
    /\ Workers # {}

VARIABLES
    stops,    \* _CommandQueue._stops
    queue,    \* _CommandQueue._queue
    calls,    \* calls[c]: the callbacks run for c, in order (history)
    settled,  \* _QueuedCommand.settled
    rank,     \* rank[c]: c was the rank-th command queued, 0 if it never was (history)
    ticket,   \* the next rank (history)
    merged,   \* merged[c] # 0: the status request c was coalesced into a waiting one,
              \* when merged[c] - 1 frames had reached the bus (history)
    pc,       \* where each sending_loop is suspended
    item,     \* the command each worker holds
    attempt,  \* the attempt of _deliver each worker is in
    session,  \* the command session each worker uses
    adopted,  \* adopted[w]: sending_loop's own variable holds that session, not only
              \* _deliver's
    leaked,   \* an open session was left that nobody will close any more (history)
    closing,  \* how far close_listener() has got
    stopping, \* _stop_command_workers
    sent,     \* _commands_sent
    dropped,  \* _commands_dropped
    bus       \* <<command, attempt>> copies the bus received, in order (history)

pathVars == <<stops, queue, calls, settled, rank, ticket, merged, pc, item, attempt,
              session, adopted, leaked, closing, stopping, sent, dropped, bus>>
queueVars == <<stops, queue, rank, ticket, merged>>
workerVars == <<pc, item, attempt, session, adopted>>
settleVars == <<calls, settled>>
countVars == <<sent, dropped, leaked>>
controlVars == <<closing, stopping>>

Attempts == 1..MaxAttempts
Elements(s) == {s[i] : i \in DOMAIN s}
Pending == stops \o queue
Untouched(c) == rank[c] = 0 /\ merged[c] = 0 /\ ~settled[c]

--------------------------------------------------------------------------
(* _QueuedCommand._settle: the first report wins, every other is a no-op. *)

Dropped == [what |-> "dropped", attempt |-> 0]
Delivered(a) == [what |-> "delivered", attempt |-> a]

\* Mutant of Settle: _settle without its early return on a settled command.
SettleAgain(S, report) ==
    /\ calls' = [c \in Commands |-> IF c \in S THEN Append(calls[c], report) ELSE calls[c]]
    /\ settled' = [c \in Commands |-> settled[c] \/ c \in S]

\* mark_delivered / mark_dropped for every command of S.
Settle(S, report) ==
    /\ calls' = [c \in Commands |-> IF c \in S /\ ~settled[c]
                                    THEN Append(calls[c], report) ELSE calls[c]]
    /\ settled' = [c \in Commands |-> settled[c] \/ c \in S]

--------------------------------------------------------------------------
(* _CommandQueue *)

\* _last_index_for: the places of c's device in the ordinary deque, and the
\* last of them.  Status requests do not count.
SameDevice(c) == {i \in DOMAIN queue : /\ Kind[queue[i]] # "status"
                                       /\ Device[queue[i]] = Device[c]}
LastFor(i, c) == i \in SameDevice(c) /\ \A j \in SameDevice(c) : j <= i

InsertBehind(s, i, c) == SubSeq(s, 1, i) \o <<c>> \o SubSeq(s, i + 1, Len(s))

\* Mutant of Put: a stop always jumps the queue, its own device's frames too.
PutStopFirst(c) ==
    IF Kind[c] = "stop" THEN stops' = Append(stops, c) /\ UNCHANGED queue
                        ELSE queue' = Append(queue, c) /\ UNCHANGED stops

\* Mutant of Put: a stop that may not jump goes to the tail of the queue.
PutStopLast(c) ==
    IF Kind[c] = "stop" /\ SameDevice(c) = {}
    THEN stops' = Append(stops, c) /\ UNCHANGED queue
    ELSE queue' = Append(queue, c) /\ UNCHANGED stops

\* _put: a stop overtakes the other devices, never its own.
Put(c) ==
    \/ /\ Kind[c] # "stop"
       /\ queue' = Append(queue, c)
       /\ UNCHANGED stops
    \/ /\ Kind[c] = "stop"
       /\ SameDevice(c) = {}
       /\ stops' = Append(stops, c)
       /\ UNCHANGED queue
    \/ /\ Kind[c] = "stop"
       /\ \E i \in DOMAIN queue : LastFor(i, c) /\ queue' = InsertBehind(queue, i, c)
       /\ UNCHANGED stops

\* _get: the stops first.
Get(c) ==
    \/ /\ stops # <<>>
       /\ c = Head(stops)
       /\ stops' = Tail(stops)
       /\ UNCHANGED queue
    \/ /\ stops = <<>>
       /\ queue # <<>>
       /\ c = Head(queue)
       /\ queue' = Tail(queue)
       /\ UNCHANGED stops

\* Mutant of DiscardQueuedAnd: the drain forgets to settle what it drained.
DiscardSilently(also) ==
    /\ stops' = <<>>
    /\ queue' = <<>>
    /\ Settle(also, Dropped)
    /\ dropped' = dropped + Len(stops) + Len(queue) + Cardinality(also)
    /\ UNCHANGED <<rank, ticket, merged, sent, leaked>>

\* _discard_queued / _drain_queue: every waiting command is dropped; the
\* commands of "also" are dropped, and counted, in the same step.
DiscardQueuedAnd(also) ==
    /\ stops' = <<>>
    /\ queue' = <<>>
    /\ Settle(Elements(Pending) \cup also, Dropped)
    /\ dropped' = dropped + Len(stops) + Len(queue) + Cardinality(also)
    /\ UNCHANGED <<rank, ticket, merged, sent, leaked>>

--------------------------------------------------------------------------
(* send() and send_status_request() *)

\* Mutant of HasPendingStatus: a frame a worker has already taken counts too.
HasKnownStatus(c) ==
    \E d \in Elements(Pending) \cup ({item[w] : w \in Workers} \ {None}) :
        Kind[d] = "status" /\ Device[d] = Device[c]

\* _has_pending_status: an identical status frame still waits in the queue.
HasPendingStatus(c) ==
    \E d \in Elements(Pending) : Kind[d] = "status" /\ Device[d] = Device[c]

Coalesces(c) == Kind[c] = "status" /\ c \notin Tracked /\ HasPendingStatus(c)

SendCoalesced(c) ==
    /\ Untouched(c)
    /\ Coalesces(c)
    /\ merged' = [merged EXCEPT ![c] = Len(bus) + 1]
    /\ UNCHANGED <<stops, queue, rank, ticket, settleVars, workerVars, controlVars, countVars, bus>>

\* _enqueue on a handler that is closed or stopping, or on a full queue.
SendRefused(c) ==
    /\ Untouched(c)
    /\ ~Coalesces(c)
    /\ \/ closing # "no" \/ stopping
       \/ Len(stops) + Len(queue) >= MaxSize
    /\ Settle({c}, Dropped)
    /\ dropped' = dropped + 1
    /\ UNCHANGED <<queueVars, workerVars, controlVars, sent, leaked, bus>>

SendQueued(c) ==
    /\ Untouched(c)
    /\ ~Coalesces(c)
    /\ closing = "no" /\ ~stopping
    /\ Len(stops) + Len(queue) < MaxSize
    /\ Put(c)
    /\ rank' = [rank EXCEPT ![c] = ticket]
    /\ ticket' = ticket + 1
    /\ UNCHANGED <<merged, settleVars, workerVars, controlVars, countVars, bus>>

--------------------------------------------------------------------------
(* sending_loop *)

\* A cancelled task runs no further step of its own: see Cancelled.
NotCancelled == closing = "no"

Goto(w, label) == pc' = [pc EXCEPT ![w] = label]
Release(w) == item' = [item EXCEPT ![w] = None]

\* The loop re-reads _stop_command_workers each time it comes round.  Leaving
\* it closes the session (the outer finally).
NextRound(w, s) ==
    /\ Goto(w, IF stopping THEN "stopped" ELSE "get")
    /\ session' = [session EXCEPT ![w] = IF stopping THEN "none" ELSE s]

StartWorker(w) ==
    /\ pc[w] = "new"
    /\ Goto(w, IF stopping THEN "stopped" ELSE "get")
    /\ UNCHANGED <<queueVars, settleVars, item, attempt, session, adopted, controlVars, countVars, bus>>

\* Nothing to send for command_session_idle: the session is given back.
IdleTimeout(w) ==
    /\ NotCancelled /\ pc[w] = "get"
    /\ session[w] # "none" \/ stopping
    /\ NextRound(w, "none")
    /\ UNCHANGED <<queueVars, settleVars, item, attempt, adopted, controlVars, countVars, bus>>

\* The gateway silently drops an idle command session: the socket looks open.
GatewayDropsSession(w) ==
    /\ pc[w] = "get"
    /\ session[w] = "open"
    /\ session' = [session EXCEPT ![w] = "halfopen"]
    /\ UNCHANGED <<queueVars, settleVars, pc, item, attempt, adopted, controlVars, countVars, bus>>

Dequeue(w) ==
    /\ NotCancelled /\ pc[w] = "get"
    /\ \E c \in Elements(Pending) :
          /\ Get(c)
          /\ item' = [item EXCEPT ![w] = c]
    /\ attempt' = [attempt EXCEPT ![w] = 1]
    /\ Goto(w, IF session[w] = "none" THEN "open" ELSE "send")
    /\ UNCHANGED <<rank, ticket, merged, settleVars, session, adopted, controlVars, countVars, bus>>

\* The dequeued command is older than command_ttl.
DequeueExpired(w) ==
    /\ NotCancelled /\ pc[w] = "get"
    /\ \E c \in Elements(Pending) :
          /\ Get(c)
          /\ Settle({c}, Dropped)
    /\ dropped' = dropped + 1
    /\ UNCHANGED controlVars
    /\ NextRound(w, session[w])
    /\ UNCHANGED <<rank, ticket, merged, item, attempt, adopted, sent, leaked, bus>>

--------------------------------------------------------------------------
(* _deliver *)

\* OWNCommandChannel.open() succeeded.
Opened(w) ==
    /\ NotCancelled /\ pc[w] = "open"
    /\ session' = [session EXCEPT ![w] = "open"]
    /\ adopted' = [adopted EXCEPT ![w] = FALSE]
    /\ Goto(w, "send")
    /\ UNCHANGED <<queueVars, settleVars, item, attempt, controlVars, countVars, bus>>

\* The frame leaves the socket; only a session the gateway still has puts it
\* on the bus.
Write(w) ==
    /\ NotCancelled /\ pc[w] = "send"
    /\ Goto(w, "answer")
    /\ bus' = IF session[w] = "open" THEN Append(bus, <<item[w], attempt[w]>>) ELSE bus
    /\ UNCHANGED <<queueVars, settleVars, item, attempt, session, adopted, controlVars, countVars>>

\* Mutant of Answered: a write that returned counts as delivered (as in 0.4.3).
AnsweredByTheWrite(w) ==
    /\ NotCancelled /\ pc[w] = "answer"
    /\ Settle({item[w]}, Delivered(attempt[w]))
    /\ sent' = sent + 1
    /\ adopted' = [adopted EXCEPT ![w] = TRUE]
    /\ Release(w)
    /\ UNCHANGED controlVars
    /\ NextRound(w, "open")
    /\ UNCHANGED <<queueVars, attempt, dropped, leaked, bus>>

\* Mutant of Answered: the report carries the first attempt's instant.
AnsweredFirstAttempt(w) ==
    /\ NotCancelled /\ pc[w] = "answer"
    /\ session[w] = "open"
    /\ Settle({item[w]}, Delivered(1))
    /\ sent' = sent + 1
    /\ adopted' = [adopted EXCEPT ![w] = TRUE]
    /\ Release(w)
    /\ UNCHANGED controlVars
    /\ NextRound(w, "open")
    /\ UNCHANGED <<queueVars, attempt, dropped, leaked, bus>>

\* ACK or NACK: the delivery is reported for this attempt's write.
Answered(w) ==
    /\ NotCancelled /\ pc[w] = "answer"
    /\ session[w] = "open"
    /\ Settle({item[w]}, Delivered(attempt[w]))
    /\ sent' = sent + 1
    /\ adopted' = [adopted EXCEPT ![w] = TRUE]
    /\ Release(w)
    /\ UNCHANGED controlVars
    /\ NextRound(w, "open")
    /\ UNCHANGED <<queueVars, attempt, dropped, leaked, bus>>

\* A transport error (refused, reset, EOF, timeout) anywhere in an attempt
\* that has another one behind it: a fresh session, the same command.
RetryAttempt(w) ==
    /\ NotCancelled /\ pc[w] \in {"open", "send", "answer"}
    /\ attempt[w] < MaxAttempts
    /\ attempt' = [attempt EXCEPT ![w] = @ + 1]
    /\ session' = [session EXCEPT ![w] = "none"]
    /\ Goto(w, "open")
    /\ UNCHANGED <<queueVars, settleVars, item, adopted, controlVars, countVars, bus>>

\* After a lost command the worker sleeps, unless the loops are stopping.
BackoffOrStop(w) ==
    /\ Goto(w, IF stopping THEN "stopped" ELSE "backoff")
    /\ session' = [session EXCEPT ![w] = "none"]
    /\ IF stopping THEN Release(w) ELSE UNCHANGED item

\* Mutant of GiveUp: the command is dropped and its worker hangs on to it for ever.
GiveUpStuck(w) ==
    /\ NotCancelled /\ pc[w] \in {"open", "send", "answer"}
    /\ Goto(w, "hung")
    /\ UNCHANGED <<queueVars, settleVars, item, attempt, session, adopted, controlVars, sent, dropped, bus>>

\* Mutant of GiveUp: the lost command is counted once per attempt.
GiveUpCountingAttempts(w) ==
    /\ NotCancelled /\ pc[w] \in {"open", "send", "answer"}
    /\ Settle({item[w]}, Dropped)
    /\ dropped' = dropped + attempt[w]
    /\ UNCHANGED controlVars
    /\ BackoffOrStop(w)
    /\ UNCHANGED <<queueVars, attempt, adopted, sent, bus>>

\* The last attempt failed, or an unexpected exception reached the catch-all
\* of sending_loop: the command is dropped and counted.
GiveUp(w) ==
    /\ NotCancelled /\ pc[w] \in {"open", "send", "answer"}
    /\ Settle({item[w]}, Dropped)
    /\ dropped' = dropped + 1
    /\ UNCHANGED controlVars
    /\ BackoffOrStop(w)
    /\ UNCHANGED <<queueVars, attempt, adopted, sent, bus>>

\* sending_loop closes the session its own variable holds and forgets the one
\* registered under its number: a session that _deliver opened for the command
\* at hand stays open.  (A session still being opened is closed by _deliver.)
Abandon(w) ==
    leaked' = (leaked \/ (pc[w] \in {"send", "answer"} /\ ~adopted[w]))

LastAttemptFails(w) == attempt[w] = MaxAttempts /\ GiveUp(w) /\ UNCHANGED leaked
UnexpectedError(w) == GiveUp(w) /\ Abandon(w)

WakeFromBackoff(w) ==
    /\ NotCancelled /\ pc[w] = "backoff"
    /\ Release(w)
    /\ UNCHANGED controlVars
    /\ NextRound(w, "none")
    /\ UNCHANGED <<queueVars, settleVars, attempt, adopted, countVars, bus>>

\* AuthenticationError while a command session is opened: _handle_auth_failure
\* stops the loops and settles the whole queue, then this command.
CommandAuthFailure(w) ==
    /\ NotCancelled /\ pc[w] = "open"
    /\ stopping' = TRUE
    /\ DiscardQueuedAnd({item[w]})
    /\ Release(w)
    /\ Goto(w, "stopped")
    /\ UNCHANGED <<attempt, session, adopted, closing, bus>>

\* The same verdict reached on the event session by listening_loop.
EventAuthFailure ==
    /\ closing = "no"
    /\ stopping' = TRUE
    /\ DiscardQueuedAnd({})
    /\ UNCHANGED <<workerVars, closing, bus>>

--------------------------------------------------------------------------
(* close_listener() *)

\* Up to the gather: the flags are set and every live task is cancelled.
CloseListener ==
    /\ closing = "no"
    /\ closing' = "cancelling"
    /\ stopping' = TRUE
    /\ UNCHANGED <<queueVars, settleVars, workerVars, countVars, bus>>

\* CancelledError reaches a worker at its suspension point: the finally net
\* settles the command it holds, and the loop closes the session it knows of.
Cancelled(w) ==
    /\ closing = "cancelling"
    /\ pc[w] \notin {"new", "stopped"}
    /\ Settle({item[w]} \ {None}, Dropped)
    /\ Release(w)
    /\ Goto(w, "stopped")
    /\ session' = [session EXCEPT ![w] = "none"]
    /\ Abandon(w)
    /\ UNCHANGED <<queueVars, attempt, adopted, controlVars, sent, dropped, bus>>

\* After the gather: what is still queued is discarded.
CloseFinish ==
    /\ closing = "cancelling"
    /\ \A w \in Workers : pc[w] \in {"new", "stopped"}
    /\ closing' = "closed"
    /\ DiscardQueuedAnd({})
    /\ UNCHANGED <<workerVars, stopping, bus>>

--------------------------------------------------------------------------
PathInit ==
    /\ stops = <<>> /\ queue = <<>> 
    /\ merged = [c \in Commands |-> 0]
    /\ rank = [c \in Commands |-> 0] /\ ticket = 1
    /\ calls = [c \in Commands |-> <<>>]
    /\ settled = [c \in Commands |-> FALSE]
    /\ pc = [w \in Workers |-> "new"]
    /\ item = [w \in Workers |-> None]
    /\ attempt = [w \in Workers |-> 1]
    /\ session = [w \in Workers |-> "none"]
    /\ adopted = [w \in Workers |-> FALSE] /\ leaked = FALSE
    /\ closing = "no" /\ stopping = FALSE
    /\ sent = 0 /\ dropped = 0
    /\ bus = <<>>

Send(c) == SendCoalesced(c) \/ SendRefused(c) \/ SendQueued(c)

WorkerStep(w) ==
    \/ StartWorker(w) \/ IdleTimeout(w) \/ Dequeue(w) \/ DequeueExpired(w)
    \/ Opened(w) \/ Write(w) \/ Answered(w)
    \/ RetryAttempt(w) \/ LastAttemptFails(w) \/ UnexpectedError(w)
    \/ WakeFromBackoff(w) \/ CommandAuthFailure(w) \/ Cancelled(w)

PathNext ==
    \/ \E c \in Commands : Send(c)
    \/ \E w \in Workers : WorkerStep(w) \/ GatewayDropsSession(w)
    \/ EventAuthFailure \/ CloseListener \/ CloseFinish

PathSpec == PathInit /\ [][PathNext]_pathVars

\* asyncio resumes every task, and every await of a worker is bounded: the get
\* by command_session_idle, the open by connect_timeout, the answer by
\* command_timeout, the backoff by max_backoff.  async_setup_entry starts the
\* workers it created; the gather of close_listener returns.
PathFairness ==
    /\ \A w \in Workers : WF_pathVars(WorkerStep(w))
    /\ WF_pathVars(CloseFinish)

PathFairSpec == PathSpec /\ PathFairness

--------------------------------------------------------------------------
(* Properties *)

Reports == {Dropped} \cup {Delivered(a) : a \in Attempts}

\* The type invariant of the command path.
PathTypeOK ==
    /\ stops \in Seq(Commands) /\ queue \in Seq(Commands)
    /\ calls \in [Commands -> Seq(Reports)]
    /\ settled \in [Commands -> BOOLEAN]
    /\ rank \in [Commands -> Nat] /\ ticket \in Nat \ {0}
    /\ merged \in [Commands -> Nat]
    /\ pc \in [Workers -> {"new", "get", "open", "send", "answer", "backoff", "stopped"}]
    /\ item \in [Workers -> Commands \cup {None}]
    /\ attempt \in [Workers -> Attempts]
    /\ session \in [Workers -> {"none", "open", "halfopen"}]
    /\ adopted \in [Workers -> BOOLEAN] /\ leaked \in BOOLEAN
    /\ closing \in {"no", "cancelling", "closed"}
    /\ stopping \in BOOLEAN
    /\ sent \in Nat /\ dropped \in Nat
    /\ bus \in Seq(Commands \X Attempts)

\* _QueuedCommand: "Exactly one of the two runs, exactly once".  No
\* interleaving of workers, retries, shutdown and the finally net of
\* sending_loop runs a second callback, and the settled flag says which
\* commands have had theirs.
ExactlyOneReport ==
    \A c \in Commands :
        /\ Len(calls[c]) <= 1
        /\ settled[c] <=> calls[c] # <<>>

InDelivery == {"open", "send", "answer"}
Waiting(c) == c \in Elements(stops) \/ c \in Elements(queue)
InFlight(c) == \E w \in Workers : item[w] = c /\ pc[w] \in InDelivery

\* No accepted command is forgotten: until its caller is told, it waits in the
\* queue or is held by a worker that is delivering it, and once the caller has
\* been told neither is true, so that a stale command is never replayed (gw-11).
NothingForgotten ==
    \A c \in Commands :
        rank[c] # 0 => (settled[c] <=> ~(Waiting(c) \/ InFlight(c)))

\* "Delivered" means that the copy the report is timed on reached the bus: a
\* write into a session the gateway has closed is never reported (0.4.5).
DeliveredReachedBus ==
    \A c \in Commands, a \in Attempts :
        Delivered(a) \in Elements(calls[c]) => <<c, a>> \in Elements(bus)

\* c and d address the same device and neither is a status request.
Ordered(c, d) == Device[c] = Device[d] /\ Kind[c] # "status" /\ Kind[d] # "status"

\* The frames of one device reach the bus in the order they were asked for: a
\* stop never gets ahead of the movement it must end, through the priority
\* deque, the retry and the drops.  True of one sending worker only
\* (_CommandQueue's docstring says why).
SameDeviceInOrder ==
    \A i, j \in DOMAIN bus :
        i < j /\ Ordered(bus[i][1], bus[j][1]) => rank[bus[i][1]] <= rank[bus[j][1]]

\* A stop waits for its own device and for other stops, and for nothing else:
\* in the ordinary deque it stands right behind a frame of its own device.
StopPriority ==
    \A i \in DOMAIN queue :
        i > 1 /\ Kind[queue[i]] = "stop" => Ordered(queue[i - 1], queue[i])

\* commands_sent and commands_dropped count every settled command once while
\* the handler runs; a shutdown adds nothing for the command it interrupts.
Accounting ==
    LET done == Cardinality({c \in Commands : settled[c]})
    IN  /\ sent + dropped <= done
        /\ closing = "no" => sent + dropped = done

\* A coalesced status request is answered by a frame that reaches the bus after
\* the request was made, never by one already on its way; unless that frame is
\* itself lost.
MergedRequestIsFresh ==
    \A c \in Commands : merged[c] # 0 =>
        \E d \in Commands :
            /\ Kind[d] = "status" /\ Device[d] = Device[c] /\ rank[d] # 0
            /\ \/ Waiting(d) \/ InFlight(d) \/ Dropped \in Elements(calls[d])
               \/ \E i \in DOMAIN bus : i >= merged[c] /\ bus[i][1] = d

\* The promise to callers, as an abstract specification.
fate == [c \in Commands |->
    IF calls[c] # <<>>
    THEN [state |-> calls[c][Len(calls[c])].what, attempt |-> calls[c][Len(calls[c])].attempt]
    ELSE [attempt |-> 0,
          state |-> IF merged[c] # 0 THEN "merged" ELSE IF rank[c] # 0 THEN "taken" ELSE "unsent"]]

Contract == INSTANCE CommandContract WITH onBus <- Elements(bus)

\* The command path implements CommandContract.
RefinesContract == Contract!ContractSpec

\* Every command the handler took is eventually reported, one way or the other.
EventuallyReported == \A c \in Commands : rank[c] # 0 ~> settled[c]

\* "A channel we opened must never outlive this frame, gateways limit the number
\* of concurrent sessions" (_deliver), and close_listener() is to close both
\* sessions: once it has returned no command session is left open.
ClosesEverySession == closing = "closed" => ~leaked
==========================================================================
