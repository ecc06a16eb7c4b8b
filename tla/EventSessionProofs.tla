------------------------ MODULE EventSessionProofs ------------------------
(***************************************************************************)
(* What TLAPS proves of EventSession, for every value of the timeouts: the *)
(* type invariant, the honesty of the published availability, the bound on *)
(* the silence of the monitor, the restraint of the watchdog and the growing*)
(* pauses between failed connections.                                      *)
(***************************************************************************)
EXTENDS EventSession, WellFoundedInduction, TLAPS

\* The silence an unarmed and an armed watchdog may start from.
Unarmed == ProbeWindow + ReadPoll - 1
Armed == Unarmed + IdleTimeout + ReadPoll - 1

\* What each phase of the watchdog has let pass, given the time spent in the
\* current poll.
WatchdogInv ==
    /\ wait <= ReadPoll
    /\ probing => idle = IdleTimeout
    /\ ~probing =>
          /\ idle < IdleTimeout => quiet <= Unarmed + idle
          /\ idle = IdleTimeout => quiet + 1 <= Unarmed + IdleTimeout + wait
    /\ probing /\ ~acked =>
          /\ sinceProbe < ProbeWindow => quiet <= Armed + sinceProbe
          /\ sinceProbe = ProbeWindow => quiet + 1 <= Armed + ProbeWindow + wait
          /\ sinceProbe <= quiet
    /\ probing /\ acked =>
          /\ sinceProbe < ProbeWindow => quiet <= sinceProbe
          /\ sinceProbe = ProbeWindow => quiet + 1 <= ProbeWindow + wait

SilenceInv == pc = "reading" => WatchdogInv

--------------------------------------------------------------------------
\* SessionTypeOK in the two parts that the provers can each do.
FlagsOK ==
    /\ probing \in BOOLEAN /\ acked \in BOOLEAN /\ connected \in BOOLEAN
    /\ authFailed \in BOOLEAN /\ stop \in BOOLEAN /\ up \in BOOLEAN

RangesOK ==
    /\ pc \in {"new", "opening", "reading", "sleeping", "stopped"}
    /\ wait \in Nat /\ backoff \in InitialBackoff..MaxBackoff
    /\ idle \in 0..IdleTimeout /\ sinceProbe \in 0..ProbeWindow
    /\ sstate \in {"disconnected", "connecting", "connected", "auth_failed"}
    /\ closing \in {"no", "cancelling", "closed"}
    /\ peer \in {"none", "live", "gone"}
    /\ quiet \in 0..(MaxQuiet + 1)
    /\ tries \in 0..MaxTries /\ spent \in Nat

\* The flags stay Boolean.
LEMMA FlagsStep == FlagsOK /\ [SessionNext]_sessionVars => FlagsOK'
<1> SUFFICES ASSUME FlagsOK, [SessionNext]_sessionVars PROVE FlagsOK'
  OBVIOUS
<1> USE DEF FlagsOK
<1>1. CASE Start \/ Wake
  BY <1>1, Zenon DEF Start, Wake, OpenAgain, LeaveLoop, watchdogVars, controlVars
<1>2. CASE Opened
  BY <1>2, Zenon DEF Opened, ResetWatchdog, controlVars
<1>3. CASE OpenFails \/ OpenRejected \/ ReadFails
  BY <1>3, Zenon DEF OpenFails, OpenRejected, ReadFails, LoseSession, watchdogVars, controlVars
<1>4. CASE FrameArrives
  BY <1>4, Zenon DEF FrameArrives, ResetWatchdog, ReadAgain, LeaveLoop, controlVars
<1>5. CASE CheckNotIdle \/ CheckProbeWindowOpen
  BY <1>5, Zenon DEF CheckNotIdle, CheckProbeWindowOpen, ReadAgain, LeaveLoop,
                     watchdogVars, controlVars
<1>6. CASE CheckQueuesProbe \/ CheckProbeRefused \/ CheckRearms
  BY <1>6, Zenon DEF CheckQueuesProbe, CheckProbeRefused, CheckRearms, ResetWatchdog,
                     ReadAgain, LeaveLoop, controlVars
<1>7. CASE CheckReconnects
  BY <1>7, Zenon DEF CheckReconnects, LoseSession, watchdogVars, controlVars
<1>8. CASE StatusAcked \/ CommandSessionRejected \/ CloseListener
  BY <1>8, Zenon DEF StatusAcked, CommandSessionRejected, CloseListener, watchdogVars,
                     publishedVars, controlVars, gatewayVars
<1>9. CASE Cancelled \/ CloseFinish
  BY <1>9, Zenon DEF Cancelled, CloseFinish, LeaveLoop, watchdogVars, controlVars, gatewayVars
<1>10. CASE GatewayToggles \/ PeerDrops \/ Tick
  BY <1>10, Zenon DEF GatewayToggles, PeerDrops, Tick, watchdogVars, publishedVars, controlVars,
                      gatewayVars
<1>11. CASE UNCHANGED sessionVars
  BY <1>11, Zenon DEF sessionVars, watchdogVars, publishedVars, controlVars, gatewayVars
<1> QED
  BY <1>1, <1>2, <1>3, <1>4, <1>5, <1>6, <1>7, <1>8, <1>9, <1>10, <1>11, Zenon
  DEF SessionNext, LoopStep, CheckIdle

\* Everything else stays in its range.
LEMMA RangesStep == FlagsOK /\ RangesOK /\ [SessionNext]_sessionVars => RangesOK'
<1> SUFFICES ASSUME FlagsOK, RangesOK, [SessionNext]_sessionVars PROVE RangesOK'
  OBVIOUS
<1> USE TimingAssumption DEF TimingAssumption, RangesOK, MaxQuiet, Least
<1>1. CASE Start \/ Wake
  BY <1>1 DEF Start, Wake, OpenAgain, LeaveLoop, DownState, watchdogVars, controlVars
<1>2. CASE Opened
  BY <1>2 DEF Opened, ResetWatchdog, historyVars, controlVars
<1>3. CASE OpenFails \/ OpenRejected \/ ReadFails
  BY <1>3 DEF OpenFails, OpenRejected, ReadFails, LoseSession, DownState,
              watchdogVars, controlVars, historyVars
<1>4. CASE FrameArrives
  BY <1>4 DEF FrameArrives, ResetWatchdog, ProvedAlive, ReadAgain, LeaveLoop, DownState,
              controlVars
<1>5. CASE CheckNotIdle \/ CheckProbeWindowOpen
  BY <1>5 DEF CheckNotIdle, CheckProbeWindowOpen, ProvedAlive, ReadAgain, LeaveLoop,
              DownState, watchdogVars, controlVars
<1>6. CASE CheckQueuesProbe \/ CheckProbeRefused \/ CheckRearms
  BY <1>6 DEF CheckQueuesProbe, CheckProbeRefused, CheckRearms, ResetWatchdog, ProvedAlive,
              ReadAgain, LeaveLoop, DownState, controlVars
<1>7. CASE CheckReconnects
  BY <1>7 DEF CheckReconnects, ProvedAlive, LoseSession, DownState, watchdogVars, controlVars
<1>8. CASE StatusAcked \/ CommandSessionRejected \/ CloseListener
  BY <1>8 DEF StatusAcked, CommandSessionRejected, CloseListener, loopVars, watchdogVars,
              publishedVars, controlVars, gatewayVars, historyVars
<1>9. CASE Cancelled \/ CloseFinish
  BY <1>9 DEF Cancelled, CloseFinish, LeaveLoop, DownState, loopVars, watchdogVars,
              controlVars, gatewayVars, historyVars
<1>10. CASE GatewayToggles \/ PeerDrops
  BY <1>10 DEF GatewayToggles, PeerDrops, loopVars, watchdogVars, publishedVars, controlVars,
               historyVars
<1>11. CASE Tick
  BY <1>11 DEF Tick, Awaiting, publishedVars, controlVars, gatewayVars
<1>12. CASE UNCHANGED sessionVars
  BY <1>12 DEF sessionVars, loopVars, watchdogVars, publishedVars, controlVars, gatewayVars,
               historyVars
<1> QED
  BY <1>1, <1>2, <1>3, <1>4, <1>5, <1>6, <1>7, <1>8, <1>9, <1>10, <1>11, <1>12, Zenon
  DEF SessionNext, LoopStep, CheckIdle

\* Every variable of the event session keeps its type: in particular the
\* backoff of listening_loop stays between initial_backoff and max_backoff.
THEOREM SessionTypeCorrect == SessionSpec => []SessionTypeOK
<1>1. SessionInit => FlagsOK
  BY Zenon DEF SessionInit, FlagsOK
<1>2. SessionInit => RangesOK
  BY TimingAssumption DEF TimingAssumption, SessionInit, RangesOK, MaxQuiet
<1>3. FlagsOK /\ RangesOK => SessionTypeOK
  BY Zenon DEF FlagsOK, RangesOK, SessionTypeOK
<1> QED BY <1>1, <1>2, <1>3, FlagsStep, RangesStep, PTL DEF SessionSpec

--------------------------------------------------------------------------
\* Each step of the loop, the clock and the gateway keeps the account of the
\* silence.  Only Tick adds to it, and only the watchdog changes its phase.
LEMMA SilenceStep ==
    FlagsOK /\ RangesOK /\ SilenceInv /\ [SessionNext]_sessionVars => SilenceInv'
<1> SUFFICES ASSUME FlagsOK, RangesOK, SilenceInv, [SessionNext]_sessionVars PROVE SilenceInv'
  OBVIOUS
<1> USE TimingAssumption
    DEF TimingAssumption, FlagsOK, RangesOK, SilenceInv, WatchdogInv, Unarmed, Armed
<1>1. CASE Start \/ Wake
  BY <1>1 DEF Start, Wake, OpenAgain, LeaveLoop
<1>2. CASE Opened
  BY <1>2 DEF Opened, ResetWatchdog
<1>3. CASE OpenFails \/ OpenRejected \/ ReadFails \/ CheckReconnects
  BY <1>3 DEF OpenFails, OpenRejected, ReadFails, CheckReconnects, LoseSession
<1>4. CASE FrameArrives
  BY <1>4 DEF FrameArrives, ResetWatchdog, ReadAgain, LeaveLoop
<1>5. CASE CheckNotIdle
  BY <1>5 DEF CheckNotIdle, PollTimeout, ReadAgain, LeaveLoop, watchdogVars
<1>6. CASE CheckProbeWindowOpen
  BY <1>6 DEF CheckProbeWindowOpen, PollTimeout, ReadAgain, LeaveLoop, watchdogVars
<1>7. CASE CheckQueuesProbe
  BY <1>7 DEF CheckQueuesProbe, PollTimeout, ReadAgain, LeaveLoop
<1>8. CASE CheckProbeRefused
  BY <1>8 DEF CheckProbeRefused, PollTimeout, ReadAgain, LeaveLoop
<1>9. CASE CheckRearms
  BY <1>9 DEF CheckRearms, PollTimeout, ResetWatchdog, ReadAgain, LeaveLoop
<1>10. CASE StatusAcked
  BY <1>10 DEF StatusAcked, loopVars
<1>11. CASE CommandSessionRejected \/ CloseListener \/ CloseFinish
  BY <1>11 DEF CommandSessionRejected, CloseListener, CloseFinish, loopVars, watchdogVars
<1>12. CASE Cancelled
  BY <1>12 DEF Cancelled, LeaveLoop
<1>13. CASE GatewayToggles \/ PeerDrops
  BY <1>13 DEF GatewayToggles, PeerDrops, loopVars, watchdogVars
<1>14. CASE Tick
  BY <1>14 DEF Tick, Awaiting, Least, MaxQuiet
<1>15. CASE UNCHANGED sessionVars
  BY <1>15 DEF sessionVars, loopVars, watchdogVars
<1> QED
  BY <1>1, <1>2, <1>3, <1>4, <1>5, <1>6, <1>7, <1>8, <1>9, <1>10, <1>11, <1>12, <1>13, <1>14,
     <1>15, Zenon
  DEF SessionNext, LoopStep, CheckIdle

\* The account bounds the silence.
LEMMA SilenceBound == RangesOK /\ SilenceInv => MonitorSilenceBounded
  BY TimingAssumption DEF TimingAssumption, RangesOK, SilenceInv, WatchdogInv, Unarmed, Armed,
                          MonitorSilenceBounded, MaxQuiet

\* SilenceInv is an invariant, with the types it rests on.
LEMMA SilenceAlways == SessionSpec => [](FlagsOK /\ RangesOK /\ SilenceInv)
<1>1. SessionInit => FlagsOK
  BY Zenon DEF SessionInit, FlagsOK
<1>2. SessionInit => RangesOK
  BY TimingAssumption DEF TimingAssumption, SessionInit, RangesOK, MaxQuiet
<1>3. SessionInit => SilenceInv
  BY DEF SessionInit, SilenceInv
<1> QED BY <1>1, <1>2, <1>3, FlagsStep, RangesStep, SilenceStep, PTL DEF SessionSpec

\* The idle watchdog of _check_idle works for every idle_timeout, probe_window
\* and read_poll_interval: an open monitor is never read for longer than
\* MaxQuiet with nothing heard from the gateway.
THEOREM SilenceBounded == SessionSpec => []MonitorSilenceBounded
  BY SilenceAlways, SilenceBound, PTL

\* _check_idle never rebuilds a monitor that the gateway still serves before a
\* whole probe window has passed in silence on both sessions.
THEOREM WatchdogDoesNotChurn == SessionSpec => NoChurn
<1>1. FlagsOK /\ RangesOK /\ SilenceInv /\ [SessionNext]_sessionVars =>
        [pc = "reading" /\ pc' = "sleeping" /\ peer = "live" => quiet >= ProbeWindow]_sessionVars
  <2> SUFFICES ASSUME FlagsOK, RangesOK, SilenceInv, SessionNext,
                      pc = "reading", pc' = "sleeping", peer = "live"
               PROVE  quiet >= ProbeWindow
    BY DEF sessionVars
  <2>1. CheckReconnects
    BY DEF SessionNext, LoopStep, CheckIdle, Start, Opened, OpenFails, OpenRejected,
           FrameArrives, ReadFails, Wake, CheckNotIdle, CheckQueuesProbe, CheckProbeRefused,
           CheckProbeWindowOpen, CheckRearms, Cancelled, Tick, StatusAcked,
           CommandSessionRejected, CloseListener, CloseFinish, GatewayToggles, PeerDrops,
           ReadAgain, LeaveLoop, loopVars
  <2> QED
    BY <2>1, TimingAssumption DEF TimingAssumption, CheckReconnects, FlagsOK, RangesOK,
                                  SilenceInv, WatchdogInv
<1> QED BY <1>1, SilenceAlways, PTL DEF SessionSpec, NoChurn

--------------------------------------------------------------------------
\* The inductive form: a rejected password also stops the loop, so that it is
\* never followed by "connecting".
HonestInv ==
    /\ AvailabilityHonest
    /\ authFailed => stop

\* _set_connected tells the truth: entities are available only while an opened
\* monitor session is read, and a rejected password is never called
\* "disconnected" by the teardown that follows it.
THEOREM AvailabilityIsHonest == SessionSpec => []AvailabilityHonest
<1>1. SessionInit => HonestInv
  BY Zenon DEF SessionInit, HonestInv, AvailabilityHonest
<1>2. HonestInv /\ [SessionNext]_sessionVars => HonestInv'
  <2> SUFFICES ASSUME HonestInv, [SessionNext]_sessionVars PROVE HonestInv'
    OBVIOUS
  <2> USE DEF HonestInv, AvailabilityHonest
  <2>1. CASE Start \/ Wake
    BY <2>1 DEF Start, Wake, OpenAgain, LeaveLoop, DownState, controlVars
  <2>2. CASE Opened
    BY <2>2 DEF Opened, controlVars
  <2>3. CASE OpenFails \/ OpenRejected \/ ReadFails \/ CheckReconnects
    BY <2>3 DEF OpenFails, OpenRejected, ReadFails, CheckReconnects, LoseSession, DownState,
                controlVars
  <2>4. CASE FrameArrives \/ CheckNotIdle \/ CheckProbeWindowOpen \/ CheckQueuesProbe
             \/ CheckProbeRefused \/ CheckRearms
    BY <2>4 DEF FrameArrives, CheckNotIdle, CheckProbeWindowOpen, CheckQueuesProbe,
                CheckProbeRefused, CheckRearms, PollTimeout, ReadAgain, LeaveLoop, DownState,
                controlVars
  <2>5. CASE StatusAcked \/ GatewayToggles \/ PeerDrops \/ Tick
    BY <2>5 DEF StatusAcked, GatewayToggles, PeerDrops, Tick, loopVars, publishedVars,
                controlVars
  <2>6. CASE CommandSessionRejected \/ CloseListener
    BY <2>6 DEF CommandSessionRejected, CloseListener, loopVars, publishedVars
  <2>7. CASE Cancelled \/ CloseFinish
    BY <2>7 DEF Cancelled, CloseFinish, LeaveLoop, DownState, loopVars, controlVars
  <2>8. CASE UNCHANGED sessionVars
    BY <2>8 DEF sessionVars, loopVars, publishedVars, controlVars
  <2> QED
    BY <2>1, <2>2, <2>3, <2>4, <2>5, <2>6, <2>7, <2>8, Zenon
    DEF SessionNext, LoopStep, CheckIdle
<1>3. HonestInv => AvailabilityHonest
  BY DEF HonestInv
<1> QED BY <1>1, <1>2, <1>3, PTL DEF SessionSpec
--------------------------------------------------------------------------
(* The backoff is defined by recursion on the number of failures.  That    *)
(* such functions exist is proved here, as the provers take it from no     *)
(* library theorem.                                                        *)

\* A set of natural numbers that is not empty has a first.
LEMMA First ==
  ASSUME NEW T, T \subseteq Nat, T # {}
  PROVE  \E x \in T : \A y \in T : x <= y
<1>1. \E x \in T : \A y \in T : ~(<<y, x>> \in OpToRel(<, Nat))
  BY NatLessThanWellFounded, WFMin
<1>2. \A x, y \in T : ~(<<y, x>> \in OpToRel(<, Nat)) => x <= y
  <2> SUFFICES ASSUME NEW x \in T, NEW y \in T, ~(x <= y) PROVE <<y, x>> \in OpToRel(<, Nat)
    OBVIOUS
  <2>1. x \in Nat /\ y \in Nat /\ y < x
    OBVIOUS
  <2> QED BY <2>1 DEF OpToRel
<1> QED BY <1>1, <1>2, Zenon

\* `f` is, up to n, the row that starts with `a` and goes on by F.
Grows(f, a, F, n) ==
    \A i \in 0..n : f[i] = IF i <= 1 THEN a ELSE F[<<i - 1, f[i - 1]>>]

\* Two such rows agree as far as both go.
LEMMA RowsAgree ==
  ASSUME NEW a, NEW F, NEW f, NEW g, NEW m \in Nat, NEW n \in Nat, m <= n,
         Grows(f, a, F, m), Grows(g, a, F, n)
  PROVE  \A i \in 0..m : f[i] = g[i]
<1> DEFINE Apart == {i \in 0..m : f[i] # g[i]}
<1> SUFFICES ASSUME Apart # {} PROVE FALSE
  OBVIOUS
<1>1. PICK i \in Apart : \A j \in Apart : i <= j
  <2>1. Apart \subseteq Nat
    OBVIOUS
  <2> QED
    BY <2>1, First, Zenon
<1>2. i \in 0..m /\ i \in 0..n /\ f[i] # g[i]
  BY <1>1
<1>3. CASE i <= 1
  <2>1. f[i] = a /\ g[i] = a
    BY <1>2, <1>3, Zenon DEF Grows
  <2> QED
    BY <1>2, <2>1
<1>4. CASE ~(i <= 1)
  <2>1. i - 1 \in 0..m /\ ~(i <= i - 1)
    BY <1>2, <1>4
  <2>2. f[i - 1] = g[i - 1]
    BY <1>1, <2>1
  <2>3. f[i] = F[<<i - 1, f[i - 1]>>] /\ g[i] = F[<<i - 1, g[i - 1]>>]
    BY <1>2, <1>4 DEF Grows
  <2> QED
    BY <1>2, <2>2, <2>3
<1> QED
  BY <1>3, <1>4

\* There is a row of every length, with its values where F has them.
LEMMA RowsExist ==
  ASSUME NEW S, NEW a \in S, NEW F \in [Nat \X S -> S]
  PROVE  \A n \in Nat : \E f \in [0..n -> S] : Grows(f, a, F, n)
<1> DEFINE None == {n \in Nat : ~ \E f \in [0..n -> S] : Grows(f, a, F, n)}
<1> SUFFICES ASSUME None # {} PROVE FALSE
  OBVIOUS
<1>1. PICK n \in None : \A j \in None : n <= j
  <2>1. None \subseteq Nat
    OBVIOUS
  <2> QED
    BY <2>1, First, Zenon
<1>2. n \in Nat /\ ~ \E f \in [0..n -> S] : Grows(f, a, F, n)
  BY <1>1
<1>3. CASE n <= 1
  <2> DEFINE f == [i \in 0..n |-> a]
  <2>1. f \in [0..n -> S] /\ Grows(f, a, F, n)
    BY <1>2, <1>3 DEF Grows
  <2> QED
    BY <1>2, <2>1
<1>4. CASE ~(n <= 1)
  <2>1. n - 1 \in Nat /\ ~(n <= n - 1)
    BY <1>2, <1>4
  <2>2. n - 1 \notin None
    BY <1>1, <2>1
  <2>3. PICK h \in [0..(n - 1) -> S] : Grows(h, a, F, n - 1)
    BY <2>1, <2>2
  <2> DEFINE last == F[<<n - 1, h[n - 1]>>]
             f == [i \in 0..n |-> IF i = n THEN last ELSE h[i]]
  <2>4. last \in S
    BY <2>1, <2>3
  <2>5. \A i \in 0..n : i # n => i \in 0..(n - 1) /\ f[i] = h[i]
    BY <1>2
  <2>6. n \in 0..n /\ n - 1 \in 0..n /\ n - 1 # n /\ f[n] = last
    BY <1>2, <2>1
  <2>7. f \in [0..n -> S]
    BY <1>2, <2>3, <2>4, <2>5
  <2> HIDE DEF f
  <2>8. Grows(f, a, F, n)
    <3> SUFFICES ASSUME NEW i \in 0..n PROVE f[i] = IF i <= 1 THEN a ELSE F[<<i - 1, f[i - 1]>>]
      BY DEF Grows
    <3>1. CASE i = n
      BY <1>4, <2>5, <2>6, <3>1
    <3>2. CASE i # n
      <4>1. i \in 0..(n - 1) /\ f[i] = h[i]
        BY <2>5, <3>2
      <4>2. ~(i <= 1) => i - 1 \in 0..n /\ i - 1 # n
        BY <4>1, <1>2
      <4>3. ~(i <= 1) => f[i - 1] = h[i - 1]
        BY <4>2, <2>5
      <4> QED
        BY <2>3, <4>1, <4>3 DEF Grows
    <3> QED
      BY <3>1, <3>2
  <2> QED
    BY <1>2, <2>7, <2>8
<1> QED
  BY <1>3, <1>4

Endless(g, a, F) == \A n \in Nat : g[n] = IF n <= 1 THEN a ELSE F[<<n - 1, g[n - 1]>>]

\* So there is one without an end.
LEMMA RowWithoutEnd ==
  ASSUME NEW S, NEW a \in S, NEW F \in [Nat \X S -> S]
  PROVE  \E g \in [Nat -> S] : Endless(g, a, F)
<1> DEFINE Row(n) == CHOOSE f \in [0..n -> S] : Grows(f, a, F, n)
           g == [n \in Nat |-> Row(n)[n]]
<1>1. \A n \in Nat : Row(n) \in [0..n -> S] /\ Grows(Row(n), a, F, n)
  BY RowsExist, Zenon
<1> HIDE DEF Row
<1>2. g \in [Nat -> S]
  BY <1>1
<1>3. ASSUME NEW n \in Nat PROVE g[n] = IF n <= 1 THEN a ELSE F[<<n - 1, g[n - 1]>>]
  <2>1. n \in 0..n /\ g[n] = Row(n)[n]
    OBVIOUS
  <2>2. CASE n <= 1
    BY <1>1, <2>1, <2>2 DEF Grows
  <2>3. CASE ~(n <= 1)
    <3>1. n - 1 \in Nat /\ n - 1 \in 0..(n - 1) /\ n - 1 <= n
      BY <2>3
    <3>2. Row(n - 1)[n - 1] = Row(n)[n - 1]
      <4>1. Grows(Row(n - 1), a, F, n - 1) /\ Grows(Row(n), a, F, n)
        BY <1>1, <3>1
      <4>2. \A f, h, i : Grows(f, a, F, n - 1) /\ Grows(h, a, F, n) /\ i \in 0..(n - 1) => f[i] = h[i]
        BY <3>1, RowsAgree
      <4> QED
        BY <3>1, <4>1, <4>2, Zenon
    <3>3. g[n - 1] = Row(n - 1)[n - 1]
      BY <3>1
    <3>4. Row(n)[n] = F[<<n - 1, Row(n)[n - 1]>>]
      BY <1>1, <2>1, <2>3 DEF Grows
    <3> QED
      BY <2>1, <2>3, <3>2, <3>3, <3>4
  <2> QED
    BY <2>2, <2>3
<1> QED
  BY <1>2, <1>3 DEF Endless

\* BackoffAt is the row that doubles up to the limit.
LEMMA BackoffRow ==
  /\ \A n \in Nat : BackoffAt[n] \in Nat
  /\ \A n \in Nat : BackoffAt[n] = IF n <= 1 THEN InitialBackoff
                                   ELSE Least(2 * BackoffAt[n - 1], MaxBackoff)
<1> DEFINE F == [p \in Nat \X Nat |-> Least(2 * p[2], MaxBackoff)]
           Is(g) == g = [n \in Nat |-> IF n <= 1 THEN InitialBackoff
                                       ELSE Least(2 * g[n - 1], MaxBackoff)]
<1>1. InitialBackoff \in Nat /\ MaxBackoff \in Nat
  BY TimingAssumption DEF TimingAssumption
<1>2. F \in [Nat \X Nat -> Nat]
  BY <1>1 DEF Least
<1>3. \A i, x \in Nat : F[<<i, x>>] = Least(2 * x, MaxBackoff)
  OBVIOUS
<1> HIDE DEF F
<1>4. PICK g \in [Nat -> Nat] : Endless(g, InitialBackoff, F)
  BY <1>1, <1>2, RowWithoutEnd, Zenon
<1>5. \A n \in Nat : ~(n <= 1) => n - 1 \in Nat /\ g[n - 1] \in Nat
  OBVIOUS
<1>6. \A n \in Nat : g[n] = IF n <= 1 THEN InitialBackoff ELSE Least(2 * g[n - 1], MaxBackoff)
  BY <1>3, <1>4, <1>5 DEF Endless
<1>7. Is(g)
  BY <1>6
<1>8. BackoffAt = CHOOSE f : Is(f)
  BY DEF BackoffAt
<1>9. Is(BackoffAt)
  <2> HIDE DEF Is
  <2> QED
    BY <1>7, <1>8, Zenon
<1>10. \A n \in Nat : BackoffAt[n] = IF n <= 1 THEN InitialBackoff
                                     ELSE Least(2 * BackoffAt[n - 1], MaxBackoff)
  <2> DEFINE b == BackoffAt
  <2>1. Is(b)
    BY <1>9
  <2> HIDE DEF b
  <2>2. \A n \in Nat : b[n] = IF n <= 1 THEN InitialBackoff ELSE Least(2 * b[n - 1], MaxBackoff)
    BY <2>1
  <2> QED
    BY <2>2 DEF b
<1>11. \A n \in Nat : BackoffAt[n] \in Nat
  <2> DEFINE Wrong == {n \in Nat : BackoffAt[n] \notin Nat}
  <2> SUFFICES ASSUME Wrong # {} PROVE FALSE
    OBVIOUS
  <2>1. PICK n \in Wrong : \A j \in Wrong : n <= j
    <3>1. Wrong \subseteq Nat
      OBVIOUS
    <3> QED
      BY <3>1, First, Zenon
  <2>2. n \in Nat /\ BackoffAt[n] \notin Nat
    BY <2>1
  <2>3. ~(n <= 1)
    BY <1>1, <1>10, <2>2
  <2>4. n - 1 \in Nat /\ ~(n <= n - 1)
    BY <2>2, <2>3
  <2>5. BackoffAt[n - 1] \in Nat
    BY <2>1, <2>4
  <2>6. BackoffAt[n] = Least(2 * BackoffAt[n - 1], MaxBackoff)
    BY <1>10, <2>2, <2>3
  <2> QED
    BY <1>1, <2>2, <2>5, <2>6 DEF Least
<1> QED
  BY <1>10, <1>11

\* Slept is the row of their sums.
LEMMA SleptRow ==
  /\ \A n \in Nat : Slept[n] \in Nat
  /\ \A n \in Nat : Slept[n] = IF n <= 1 THEN 0 ELSE Slept[n - 1] + BackoffAt[n - 1]
<1> DEFINE F == [p \in Nat \X Nat |-> p[2] + BackoffAt[p[1]]]
           Is(g) == g = [n \in Nat |-> IF n <= 1 THEN 0 ELSE g[n - 1] + BackoffAt[n - 1]]
<1>1. \A n \in Nat : BackoffAt[n] \in Nat
  BY BackoffRow
<1>2. F \in [Nat \X Nat -> Nat]
  BY <1>1
<1>3. \A i, x \in Nat : F[<<i, x>>] = x + BackoffAt[i]
  OBVIOUS
<1> HIDE DEF F
<1>4. PICK g \in [Nat -> Nat] : Endless(g, 0, F)
  <2>1. 0 \in Nat
    OBVIOUS
  <2> QED
    BY <1>2, <2>1, RowWithoutEnd, Zenon
<1>5. \A n \in Nat : ~(n <= 1) => n - 1 \in Nat /\ g[n - 1] \in Nat
  OBVIOUS
<1>6. \A n \in Nat : g[n] = IF n <= 1 THEN 0 ELSE g[n - 1] + BackoffAt[n - 1]
  BY <1>3, <1>4, <1>5 DEF Endless
<1>7. Is(g)
  BY <1>6
<1>8. Slept = CHOOSE f : Is(f)
  BY DEF Slept
<1>9. Is(Slept)
  <2> HIDE DEF Is
  <2> QED
    BY <1>7, <1>8, Zenon
<1>10. \A n \in Nat : Slept[n] = IF n <= 1 THEN 0 ELSE Slept[n - 1] + BackoffAt[n - 1]
  <2> DEFINE b == Slept
  <2>1. Is(b)
    BY <1>9
  <2> HIDE DEF b
  <2>2. \A n \in Nat : b[n] = IF n <= 1 THEN 0 ELSE b[n - 1] + BackoffAt[n - 1]
    BY <2>1
  <2> QED
    BY <2>2 DEF b
<1>11. \A n \in Nat : Slept[n] \in Nat
  <2> DEFINE Wrong == {n \in Nat : Slept[n] \notin Nat}
  <2> SUFFICES ASSUME Wrong # {} PROVE FALSE
    OBVIOUS
  <2>1. PICK n \in Wrong : \A j \in Wrong : n <= j
    <3>1. Wrong \subseteq Nat
      OBVIOUS
    <3> QED
      BY <3>1, First, Zenon
  <2>2. n \in Nat /\ Slept[n] \notin Nat
    BY <2>1
  <2>3. ~(n <= 1)
    BY <1>10, <2>2
  <2>4. n - 1 \in Nat /\ ~(n <= n - 1)
    BY <2>2, <2>3
  <2>5. Slept[n - 1] \in Nat
    BY <2>1, <2>4
  <2>6. Slept[n] = Slept[n - 1] + BackoffAt[n - 1]
    BY <1>10, <2>2, <2>3
  <2> QED
    BY <1>1, <2>2, <2>4, <2>5, <2>6
<1> QED
  BY <1>10, <1>11

\* Nobody has slept less before a later attempt.
LEMMA SleptGrows == \A m, n \in Nat : m <= n => Slept[m] <= Slept[n]
<1> SUFFICES ASSUME NEW m \in Nat, NEW k \in Nat, m <= k, ~(Slept[m] <= Slept[k]) PROVE FALSE
  OBVIOUS
<1> DEFINE Wrong == {n \in Nat : m <= n /\ ~(Slept[m] <= Slept[n])}
<1>1. PICK n \in Wrong : \A j \in Wrong : n <= j
  <2>1. Wrong \subseteq Nat /\ Wrong # {}
    OBVIOUS
  <2> QED
    BY <2>1, First, Zenon
<1>2. n \in Nat /\ m <= n /\ ~(Slept[m] <= Slept[n])
  BY <1>1
<1>3. Slept[m] \in Nat /\ Slept[n] \in Nat
  BY <1>2, SleptRow
<1>4. m # n
  BY <1>2, <1>3
<1>5. n - 1 \in Nat /\ m <= n - 1 /\ ~(n <= n - 1)
  BY <1>2, <1>4
<1>6. Slept[n - 1] \in Nat /\ BackoffAt[n - 1] \in Nat
  BY <1>5, SleptRow, BackoffRow
<1>7. Slept[m] <= Slept[n - 1]
  BY <1>1, <1>5
<1>8. CASE n <= 1
  <2>1. m <= 1
    BY <1>2, <1>8
  <2>2. Slept[n] = 0 /\ Slept[m] = 0
    BY <1>2, <1>8, <2>1, SleptRow
  <2> QED
    BY <1>2, <2>2
<1>9. CASE ~(n <= 1)
  <2>1. Slept[n] = Slept[n - 1] + BackoffAt[n - 1]
    BY <1>2, <1>9, SleptRow
  <2> QED
    BY <1>2, <1>3, <1>6, <1>7, <2>1
<1> QED
  BY <1>8, <1>9

\* The n-th attempt has its backoff behind it or is sleeping through it, and the next
\* sleep is no shorter than the n-th.
BackoffInv ==
    /\ pc = "new" => tries = 0
    /\ tries > 0 =>
         /\ backoff >= BackoffAt[tries]
         /\ spent >= Least(Slept[tries] + (IF pc = "sleeping" THEN wait ELSE 0), Slept[MaxTries])

\* Each step keeps it: only Wake counts an attempt after another, only Tick spends time.
LEMMA BackoffStep ==
    FlagsOK /\ RangesOK /\ BackoffInv /\ [SessionNext]_sessionVars => BackoffInv'
<1> SUFFICES ASSUME FlagsOK, RangesOK, BackoffInv, [SessionNext]_sessionVars PROVE BackoffInv'
  OBVIOUS
<1>1. /\ tries \in Nat /\ tries <= MaxTries /\ MaxTries \in Nat \ {0} /\ wait \in Nat /\ spent \in Nat
      /\ backoff \in Nat /\ InitialBackoff \in Nat /\ MaxBackoff \in Nat
      /\ InitialBackoff <= backoff /\ backoff <= MaxBackoff
  BY TimingAssumption DEF TimingAssumption, RangesOK
<1>2. /\ Slept[tries] \in Nat /\ Slept[MaxTries] \in Nat /\ Slept[1] = 0 /\ BackoffAt[tries] \in Nat
      /\ BackoffAt[1] = InitialBackoff
  BY <1>1, SleptRow, BackoffRow
\* Most steps leave the account alone, or start the next sleep.
<1>3. ASSUME UNCHANGED <<backoff, tries, spent>>, pc' = "new" => pc = "new",
             pc' = "sleeping" => wait' = 0 \/ (pc = "sleeping" /\ wait' = wait)
      PROVE  BackoffInv'
  BY <1>1, <1>2, <1>3 DEF BackoffInv, Least
\* A session that proved alive begins a new account.
<1>4. ASSUME ProvedAlive, pc' # "new" PROVE BackoffInv'
  BY <1>4 DEF BackoffInv, ProvedAlive
<1>5. CASE Start
  <2>1. tries = 0 /\ UNCHANGED <<backoff, spent>> /\ pc' # "new" /\ pc' # "sleeping"
    BY <1>5 DEF Start, OpenAgain, LeaveLoop, BackoffInv
  <2>2. tries' = 0 \/ tries' = 1
    BY <1>1, <1>5, <2>1 DEF Start, OpenAgain, Least
  <2> QED
    BY <1>1, <1>2, <2>1, <2>2 DEF BackoffInv, Least
<1>6. CASE Wake
  <2>1. /\ pc = "sleeping" /\ wait = backoff /\ backoff' = Least(2 * backoff, MaxBackoff)
        /\ spent' = spent /\ pc' # "new" /\ pc' # "sleeping"
    BY <1>6 DEF Wake, OpenAgain, LeaveLoop
  <2>2. tries' = tries \/ tries' = Least(tries + 1, MaxTries)
    BY <1>6 DEF Wake, OpenAgain
  <2>3. backoff' \in Nat /\ backoff <= backoff'
    BY <1>1, <2>1 DEF Least
  <2>4. CASE tries' = tries
    BY <1>1, <1>2, <2>1, <2>3, <2>4 DEF BackoffInv, Least
  <2>5. CASE tries = 0 /\ tries' # tries
    <3>1. tries' = 1
      BY <1>1, <2>2, <2>5 DEF Least
    <3> QED
      BY <1>1, <1>2, <2>1, <2>3, <3>1 DEF BackoffInv, Least
  <2>6. CASE tries > 0 /\ tries' # tries
    <3>1. tries' = tries + 1 /\ tries + 1 \in Nat /\ ~(tries + 1 <= 1) /\ (tries + 1) - 1 = tries
      BY <1>1, <2>2, <2>6 DEF Least
    <3>2. /\ Slept[tries'] = Slept[tries] + BackoffAt[tries]
          /\ BackoffAt[tries'] = Least(2 * BackoffAt[tries], MaxBackoff)
      BY <3>1, SleptRow, BackoffRow
    <3>3. backoff >= BackoffAt[tries] /\ spent >= Least(Slept[tries] + wait, Slept[MaxTries])
      BY <2>1, <2>6 DEF BackoffInv
    <3>4. backoff' >= BackoffAt[tries']
      BY <1>1, <1>2, <2>1, <3>2, <3>3 DEF Least
    <3>5. spent' >= Least(Slept[tries'], Slept[MaxTries])
      BY <1>1, <1>2, <2>1, <3>2, <3>3 DEF Least
    <3> QED
      BY <1>2, <2>1, <3>2, <3>4, <3>5 DEF BackoffInv
  <2> QED
    BY <1>1, <2>4, <2>5, <2>6
<1>7. CASE Tick
  <2>1. /\ UNCHANGED <<backoff, tries, pc>> /\ wait' = wait + 1
        /\ spent' = IF spent < Slept[MaxTries] THEN spent + 1 ELSE spent
    BY <1>7 DEF Tick
  <2> QED
    BY <1>1, <1>2, <2>1 DEF BackoffInv, Least
<1>8. CASE Opened \/ OpenFails \/ OpenRejected \/ ReadFails
  <2>1. UNCHANGED <<backoff, tries, spent>> /\ wait' = 0 /\ pc' # "new"
    BY <1>8 DEF Opened, OpenFails, OpenRejected, ReadFails, LoseSession, historyVars
  <2> QED
    BY <1>3, <2>1
<1>9. CASE StatusAcked \/ CommandSessionRejected \/ CloseListener \/ CloseFinish \/ GatewayToggles
           \/ PeerDrops \/ UNCHANGED sessionVars
  <2>1. UNCHANGED <<backoff, tries, spent, pc, wait>>
    BY <1>9 DEF StatusAcked, CommandSessionRejected, CloseListener, CloseFinish, GatewayToggles,
                PeerDrops, sessionVars, loopVars, historyVars
  <2> QED
    BY <1>3, <2>1
<1>10. CASE Cancelled
  <2>1. UNCHANGED <<backoff, tries, spent>> /\ pc' = "stopped"
    BY <1>10 DEF Cancelled, LeaveLoop, historyVars
  <2> QED
    BY <1>3, <2>1
<1>11. CASE FrameArrives \/ CheckIdle
  <2>1. ProvedAlive
    BY <1>11 DEF FrameArrives, CheckIdle, CheckNotIdle, CheckQueuesProbe, CheckProbeRefused,
                 CheckProbeWindowOpen, CheckRearms, CheckReconnects
  <2>2. pc' # "new"
    BY <1>11 DEF FrameArrives, CheckIdle, CheckNotIdle, CheckQueuesProbe, CheckProbeRefused,
                 CheckProbeWindowOpen, CheckRearms, CheckReconnects, ReadAgain, LeaveLoop, LoseSession
  <2> QED
    BY <1>4, <2>1, <2>2
<1> QED
  BY <1>5, <1>6, <1>7, <1>8, <1>9, <1>10, <1>11, Zenon DEF SessionNext, LoopStep

\* "Connect then fail at once must keep slowing down" (listening_loop): for every initial
\* and largest backoff the n-th attempt in a row that did not prove alive comes after the
\* n - 1 growing sleeps before it.
THEOREM FailuresSlowDown == SessionSpec => []BackoffHonoured
<1>1. SessionInit => FlagsOK
  BY Zenon DEF SessionInit, FlagsOK
<1>2. SessionInit => RangesOK
  BY TimingAssumption DEF TimingAssumption, SessionInit, RangesOK, MaxQuiet
<1>3. SessionInit => BackoffInv
  BY DEF SessionInit, BackoffInv
<1>4. RangesOK /\ BackoffInv => BackoffHonoured
  <2> SUFFICES ASSUME RangesOK, BackoffInv, tries > 0 PROVE spent >= Slept[tries]
    BY DEF BackoffHonoured
  <2>1. /\ tries \in Nat /\ MaxTries \in Nat /\ tries <= MaxTries /\ wait \in Nat /\ spent \in Nat
    BY TimingAssumption DEF TimingAssumption, RangesOK
  <2>2. Slept[tries] \in Nat /\ Slept[MaxTries] \in Nat /\ Slept[tries] <= Slept[MaxTries]
    BY <2>1, SleptRow, SleptGrows
  <2> QED
    BY <2>1, <2>2 DEF BackoffInv, Least
<1> QED BY <1>1, <1>2, <1>3, <1>4, FlagsStep, RangesStep, BackoffStep, PTL DEF SessionSpec
==========================================================================
