--------------------------- MODULE EventSession ---------------------------
(***************************************************************************)
(* listening_loop and _check_idle of MyHOMEGatewayHandler (gateway.py): the *)
(* monitor session, its idle watchdog, the reconnection backoff and the    *)
(* availability it publishes.                                              *)
(*                                                                         *)
(* Time advances in unit steps (Tick).  Every await of the loop ends by    *)
(* its own timeout at the latest, so Tick is not enabled past it.  The     *)
(* monotonic timestamps of the code are kept as ages; an age stops at the  *)
(* threshold it is compared with.  The command path appears by what the    *)
(* loop sees of it: a probe that is queued or refused, a status request    *)
(* that is acknowledged, a rejected password.                              *)
(***************************************************************************)
EXTENDS Naturals

CONSTANTS IdleTimeout,    \* idle_timeout (idle_watchdog_sec)
          ProbeWindow,    \* probe_window
          ReadPoll,       \* read_poll_interval
          ConnectTimeout, \* connect_timeout
          InitialBackoff, \* initial_backoff
          MaxBackoff,     \* max_backoff
          MaxTries        \* bound: connection attempts told apart in a row

ASSUME TimingAssumption ==
    /\ IdleTimeout \in Nat \ {0}
    /\ ProbeWindow \in Nat \ {0}
    /\ ReadPoll \in Nat \ {0}
    /\ ConnectTimeout \in Nat \ {0}
    /\ InitialBackoff \in Nat \ {0}
    /\ MaxBackoff \in Nat
    /\ MaxTries \in Nat \ {0}
    /\ InitialBackoff <= MaxBackoff

VARIABLES
    pc,         \* where listening_loop is suspended
    wait,       \* time spent in the current await
    backoff,    \* the next sleep after a lost session
    idle,       \* now - _last_rx, up to IdleTimeout
    probing,    \* _probe_sent_at is not None
    sinceProbe, \* now - _probe_sent_at, up to ProbeWindow
    acked,      \* _command_ack_at >= _probe_sent_at
    connected,  \* is_connected
    sstate,     \* _session_state
    authFailed, \* auth_failed
    stop,       \* _stop_event_listener
    closing,    \* how far close_listener() has got
    up,         \* the gateway accepts and negotiates sessions
    peer,       \* the gateway's end of the monitor session
    quiet,      \* time since the open session last gave a frame, a status request was
                \* acknowledged, or a probe was refused, up to MaxQuiet + 1 (history)
    tries,      \* connections attempted since a session proved alive, up to MaxTries
                \* (history)
    spent       \* time since a session proved alive, up to Slept[MaxTries] (history)

loopVars == <<pc, wait, backoff>>
watchdogVars == <<idle, probing, sinceProbe, acked, quiet>>
publishedVars == <<connected, sstate, authFailed>>
controlVars == <<stop, closing>>
gatewayVars == <<up, peer>>
historyVars == <<tries, spent>>
sessionVars == <<loopVars, watchdogVars, publishedVars, controlVars, gatewayVars, historyVars>>

Least(m, n) == IF m <= n THEN m ELSE n

\* The longest silence the watchdog lets pass on an open session: an
\* acknowledged probe, idle_timeout and an unanswered probe, each rounded up to
\* the next poll.
MaxQuiet == IdleTimeout + 2 * ProbeWindow + 3 * (ReadPoll - 1)

\* The n-th sleep of a row of failures, and the time slept before the n-th attempt.
BackoffAt[n \in Nat] ==
    IF n <= 1 THEN InitialBackoff ELSE Least(2 * BackoffAt[n - 1], MaxBackoff)
Slept[n \in Nat] == IF n <= 1 THEN 0 ELSE Slept[n - 1] + BackoffAt[n - 1]

--------------------------------------------------------------------------
(* Helpers of the loop *)

\* Mutant of DownState: a lost session hides the rejected password.
DownStateForgets == "disconnected"

\* _set_connected(False) without a session state.
DownState == IF authFailed THEN "auth_failed" ELSE "disconnected"

\* The loop is left: its finally closes the session and publishes offline.
LeaveLoop ==
    /\ pc' = "stopped"
    /\ wait' = 0
    /\ connected' = FALSE
    /\ sstate' = DownState
    /\ peer' = "none"

\* Mutant of ReadAgain: the flag is not read while the session works.
ReadAgainAlways ==
    /\ pc' = "reading"
    /\ wait' = 0
    /\ UNCHANGED <<connected, sstate, peer>>

\* The top of the loop with a session at hand, and without one.
ReadAgain ==
    IF stop
    THEN LeaveLoop
    ELSE /\ pc' = "reading"
         /\ wait' = 0
         /\ UNCHANGED <<connected, sstate, peer>>

OpenAgain ==
    IF stop
    THEN LeaveLoop /\ UNCHANGED tries
    ELSE /\ pc' = "opening"
         /\ wait' = 0
         /\ sstate' = "connecting"
         /\ tries' = Least(tries + 1, MaxTries)
         /\ UNCHANGED <<connected, peer>>

\* The watchdog of a session that has just given a sign of life.
ResetWatchdog == idle' = 0 /\ probing' = FALSE /\ sinceProbe' = 0 /\ acked' = FALSE

\* A frame, or a whole poll interval without a failure: the session is alive.
ProvedAlive == backoff' = InitialBackoff /\ tries' = 0 /\ spent' = 0

\* Mutant of LoseSession: the error ends the task.
LoseSessionForGood ==
    /\ connected' = FALSE
    /\ sstate' = DownState
    /\ peer' = "none"
    /\ pc' = "stopped"
    /\ wait' = 0

\* A transport error: offline at once, then the backoff sleep.
LoseSession ==
    /\ connected' = FALSE
    /\ sstate' = DownState
    /\ peer' = "none"
    /\ pc' = IF stop THEN "stopped" ELSE "sleeping"
    /\ wait' = 0

--------------------------------------------------------------------------
(* listening_loop *)

NotCancelled == closing = "no"

Start ==
    /\ pc = "new"
    /\ IF closing # "no" THEN pc' = "stopped" /\ UNCHANGED <<wait, connected, sstate, peer, tries>>
                         ELSE OpenAgain
    /\ UNCHANGED <<backoff, watchdogVars, authFailed, controlVars, up, spent>>

\* Mutant of Opened: the backoff is reset by the connection itself.
OpenedResettingBackoff ==
    /\ NotCancelled /\ pc = "opening" /\ up
    /\ peer' = "live"
    /\ ResetWatchdog
    /\ connected' = TRUE
    /\ sstate' = "connected"
    /\ pc' = "reading"
    /\ wait' = 0
    /\ quiet' = 0
    /\ backoff' = InitialBackoff
    /\ UNCHANGED <<authFailed, controlVars, up, historyVars>>

\* open() returned: the session is verified, and published.
Opened ==
    /\ NotCancelled /\ pc = "opening" /\ up
    /\ peer' = "live"
    /\ ResetWatchdog
    /\ connected' = TRUE
    /\ sstate' = "connected"
    /\ pc' = "reading"
    /\ wait' = 0
    /\ quiet' = 0
    /\ UNCHANGED <<backoff, authFailed, controlVars, up, historyVars>>

\* Refused, reset or timed out, whether or not the gateway is up.
OpenFails ==
    /\ NotCancelled /\ pc = "opening"
    /\ LoseSession
    /\ UNCHANGED <<backoff, watchdogVars, authFailed, controlVars, up, historyVars>>

\* AuthenticationError on the event session: the loops stop for good.
OpenRejected ==
    /\ NotCancelled /\ pc = "opening" /\ up
    /\ stop' = TRUE
    /\ authFailed' = TRUE
    /\ connected' = FALSE
    /\ sstate' = "auth_failed"
    /\ peer' = "none"
    /\ pc' = "stopped"
    /\ wait' = 0
    /\ UNCHANGED <<backoff, watchdogVars, closing, up, historyVars>>

\* get_next() returned a frame (parsable or not) and it was dispatched.
FrameArrives ==
    /\ NotCancelled /\ pc = "reading" /\ peer = "live"
    /\ ResetWatchdog
    /\ quiet' = 0
    /\ ProvedAlive
    /\ ReadAgain
    /\ UNCHANGED <<authFailed, controlVars, up>>

\* EOF, a reset, an over-long frame, or TCP keepalive giving the peer up.
ReadFails ==
    /\ NotCancelled /\ pc = "reading" /\ peer = "gone"
    /\ LoseSession
    /\ UNCHANGED <<backoff, watchdogVars, authFailed, controlVars, up, historyVars>>

\* Mutant of Wake: the doubling is not capped.
WakeUnbounded ==
    /\ NotCancelled /\ pc = "sleeping" /\ wait = backoff
    /\ backoff' = 2 * backoff
    /\ OpenAgain
    /\ UNCHANGED <<watchdogVars, authFailed, controlVars, up, spent>>

Wake ==
    /\ NotCancelled /\ pc = "sleeping" /\ wait = backoff
    /\ backoff' = Least(2 * backoff, MaxBackoff)
    /\ OpenAgain
    /\ UNCHANGED <<watchdogVars, authFailed, controlVars, up, spent>>

--------------------------------------------------------------------------
(* The poll timed out: _check_idle.  Each alternative is one of its exits. *)

PollTimeout == NotCancelled /\ pc = "reading" /\ wait = ReadPoll

CheckNotIdle ==
    /\ PollTimeout
    /\ idle < IdleTimeout
    /\ ProvedAlive
    /\ ReadAgain
    /\ UNCHANGED <<watchdogVars, authFailed, controlVars, up>>

CheckQueuesProbe ==
    /\ PollTimeout
    /\ idle >= IdleTimeout /\ ~probing
    /\ probing' = TRUE
    /\ sinceProbe' = 0
    /\ acked' = FALSE
    /\ ProvedAlive
    /\ ReadAgain
    /\ UNCHANGED <<idle, quiet, authFailed, controlVars, up>>

\* The command queue refused the probe: the watchdog stays unarmed until the
\* next poll.
CheckProbeRefused ==
    /\ PollTimeout
    /\ idle >= IdleTimeout /\ ~probing
    /\ quiet' = 0
    /\ ProvedAlive
    /\ ReadAgain
    /\ UNCHANGED <<idle, probing, sinceProbe, acked, authFailed, controlVars, up>>

CheckProbeWindowOpen ==
    /\ PollTimeout
    /\ idle >= IdleTimeout /\ probing
    /\ sinceProbe < ProbeWindow
    /\ ProvedAlive
    /\ ReadAgain
    /\ UNCHANGED <<watchdogVars, authFailed, controlVars, up>>

\* Mutant of CheckRearms: any probe that was sent re-arms the watchdog.
CheckRearmsUnanswered ==
    /\ PollTimeout
    /\ idle >= IdleTimeout /\ probing
    /\ sinceProbe >= ProbeWindow
    /\ ResetWatchdog
    /\ ProvedAlive
    /\ ReadAgain
    /\ UNCHANGED <<quiet, authFailed, controlVars, up>>

\* A status request was ACKed since the probe went out: not reconnecting.
CheckRearms ==
    /\ PollTimeout
    /\ idle >= IdleTimeout /\ probing
    /\ sinceProbe >= ProbeWindow
    /\ acked
    /\ ResetWatchdog
    /\ ProvedAlive
    /\ ReadAgain
    /\ UNCHANGED <<quiet, authFailed, controlVars, up>>

\* Mutant of CheckReconnects: the acknowledgement is not looked at.
CheckReconnectsAnyway ==
    /\ PollTimeout
    /\ idle >= IdleTimeout /\ probing
    /\ sinceProbe >= ProbeWindow
    /\ ProvedAlive
    /\ LoseSession
    /\ UNCHANGED <<watchdogVars, authFailed, controlVars, up>>

\* Neither session answered: SessionError, and the monitor is rebuilt.
CheckReconnects ==
    /\ PollTimeout
    /\ idle >= IdleTimeout /\ probing
    /\ sinceProbe >= ProbeWindow
    /\ ~acked
    /\ ProvedAlive
    /\ LoseSession
    /\ UNCHANGED <<watchdogVars, authFailed, controlVars, up>>

--------------------------------------------------------------------------
(* The rest of the handler, as the loop sees it *)

\* A status request is ACKed on a command session (_on_command_result).
StatusAcked ==
    /\ NotCancelled /\ pc = "reading" /\ up
    /\ acked' = TRUE
    /\ quiet' = 0
    /\ UNCHANGED <<loopVars, idle, probing, sinceProbe, publishedVars, controlVars, gatewayVars, historyVars>>

\* _handle_auth_failure on a command session: the flags are set, offline is
\* published, and the loop finds out when it next comes round.
CommandSessionRejected ==
    /\ NotCancelled /\ up
    /\ stop' = TRUE
    /\ authFailed' = TRUE
    /\ connected' = FALSE
    /\ sstate' = "auth_failed"
    /\ UNCHANGED <<loopVars, watchdogVars, closing, gatewayVars, historyVars>>

\* close_listener() up to the gather.
CloseListener ==
    /\ closing = "no"
    /\ closing' = "cancelling"
    /\ stop' = TRUE
    /\ UNCHANGED <<loopVars, watchdogVars, publishedVars, gatewayVars, historyVars>>

Cancelled ==
    /\ closing = "cancelling"
    /\ pc \notin {"new", "stopped"}
    /\ LeaveLoop
    /\ UNCHANGED <<backoff, watchdogVars, authFailed, controlVars, up, historyVars>>

CloseFinish ==
    /\ closing = "cancelling"
    /\ pc \in {"new", "stopped"}
    /\ closing' = "closed"
    /\ connected' = FALSE
    /\ sstate' = DownState
    /\ UNCHANGED <<loopVars, watchdogVars, authFailed, stop, gatewayVars, historyVars>>

--------------------------------------------------------------------------
(* The gateway and the clock *)

\* The gateway goes down or comes back; going down it may or may not say
\* goodbye, and the monitor's peer is gone either way.
GatewayToggles ==
    /\ up' = ~up
    /\ peer' = IF up /\ peer = "live" THEN "gone" ELSE peer
    /\ UNCHANGED <<loopVars, watchdogVars, publishedVars, controlVars, historyVars>>

\* The gateway drops one monitor session and stays up.
PeerDrops ==
    /\ peer = "live"
    /\ peer' = "gone"
    /\ UNCHANGED <<loopVars, watchdogVars, publishedVars, controlVars, up, historyVars>>

Awaiting ==
    \/ pc = "opening" /\ wait < ConnectTimeout
    \/ pc = "reading" /\ wait < ReadPoll
    \/ pc = "sleeping" /\ wait < backoff

Tick ==
    /\ Awaiting
    /\ wait' = wait + 1
    /\ spent' = IF spent < Slept[MaxTries] THEN spent + 1 ELSE spent
    /\ IF pc = "reading"
       THEN /\ idle' = Least(idle + 1, IdleTimeout)
            /\ sinceProbe' = IF probing THEN Least(sinceProbe + 1, ProbeWindow) ELSE 0
            /\ quiet' = Least(quiet + 1, MaxQuiet + 1)
       ELSE UNCHANGED <<idle, sinceProbe, quiet>>
    /\ UNCHANGED <<pc, backoff, probing, acked, publishedVars, controlVars, gatewayVars, tries>>

--------------------------------------------------------------------------
SessionInit ==
    /\ pc = "new" /\ wait = 0 /\ backoff = InitialBackoff
    /\ idle = 0 /\ probing = FALSE /\ sinceProbe = 0 /\ acked = FALSE /\ quiet = 0
    /\ connected = FALSE /\ sstate = "disconnected" /\ authFailed = FALSE
    /\ stop = FALSE /\ closing = "no"
    /\ up \in BOOLEAN /\ peer = "none"
    /\ tries = 0 /\ spent = 0

CheckIdle ==
    \/ CheckNotIdle \/ CheckQueuesProbe \/ CheckProbeRefused
    \/ CheckProbeWindowOpen \/ CheckRearms \/ CheckReconnects

LoopStep ==
    \/ Start \/ Opened \/ OpenFails \/ OpenRejected
    \/ FrameArrives \/ ReadFails \/ Wake \/ CheckIdle \/ Cancelled

SessionNext ==
    \/ LoopStep \/ Tick
    \/ StatusAcked \/ CommandSessionRejected \/ CloseListener \/ CloseFinish
    \/ GatewayToggles \/ PeerDrops

SessionSpec == SessionInit /\ [][SessionNext]_sessionVars

\* asyncio resumes the task and time passes.  A gateway that is up does not
\* refuse every attempt, and TCP keepalive gives a dead peer up in the end
\* (own_session.py sets it on both channels).
SessionFairness ==
    /\ WF_sessionVars(Tick)
    /\ WF_sessionVars(Start \/ OpenFails \/ Wake \/ CheckIdle \/ Cancelled)
    /\ WF_sessionVars(ReadFails)
    /\ SF_sessionVars(Opened)

SessionFairSpec == SessionSpec /\ SessionFairness

--------------------------------------------------------------------------
(* Properties *)

\* The type invariant of the event session.
SessionTypeOK ==
    /\ pc \in {"new", "opening", "reading", "sleeping", "stopped"}
    /\ wait \in Nat /\ backoff \in InitialBackoff..MaxBackoff
    /\ idle \in 0..IdleTimeout /\ sinceProbe \in 0..ProbeWindow
    /\ probing \in BOOLEAN /\ acked \in BOOLEAN
    /\ connected \in BOOLEAN
    /\ sstate \in {"disconnected", "connecting", "connected", "auth_failed"}
    /\ authFailed \in BOOLEAN /\ stop \in BOOLEAN
    /\ closing \in {"no", "cancelling", "closed"}
    /\ up \in BOOLEAN /\ peer \in {"none", "live", "gone"}
    /\ quiet \in 0..(MaxQuiet + 1)
    /\ tries \in 0..MaxTries /\ spent \in Nat

\* What the entities are told agrees with the loop (_set_connected): available
\* only while an opened session is read, the two published values agree, and a
\* rejected password outlives the teardown that follows it: a loop without a
\* session never calls it "disconnected".
AvailabilityHonest ==
    /\ connected <=> sstate = "connected"
    /\ connected => pc = "reading"
    /\ authFailed /\ pc \in {"new", "sleeping", "stopped"} => sstate = "auth_failed"

\* The idle watchdog (gw-03): an open monitor session is never read for longer
\* than MaxQuiet without a frame, an acknowledged status request or a refused
\* probe, whatever the gateway does.
MonitorSilenceBounded == pc = "reading" => quiet <= MaxQuiet

\* "Connect then fail at once must keep slowing down": the n-th connection in a
\* row that did not prove alive comes after n - 1 growing sleeps.
BackoffHonoured == tries > 0 => spent >= Slept[tries]

\* The watchdog never rebuilds a monitor the gateway still serves unless nothing
\* was heard on either session for a whole probe window (R7).
NoChurn ==
    [][pc = "reading" /\ pc' = "sleeping" /\ peer = "live" => quiet >= ProbeWindow]_sessionVars

\* After close_listener() or a rejected password on either session the gateway
\* goes offline for good and the monitor session is closed.
StoppedGoesOffline == stop ~> [](~connected /\ peer = "none")

\* While the gateway stays up and the handler is not stopped, a live monitor
\* session always comes back: no error kills the loop.
MonitorComesBack == <>[](up /\ ~stop) => []<>(pc = "reading" /\ peer = "live")
==========================================================================
