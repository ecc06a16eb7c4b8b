-------------------------- MODULE TwoConversations --------------------------
(***************************************************************************)
(* The same guided calibration done in both clients: the panel's session   *)
(* and the options dialog were written twice and are meant to ask the same *)
(* questions, measure the same things and save the same record.  Two users *)
(* give the same answers, and the shutters of two equal windows move the   *)
(* same way; the panel may leave out a homing the dialog makes.            *)
(*                                                                         *)
(* The two clients differ on purpose, and these differences are left out:  *)
(* the check of a profile runs upwards in the panel and downwards in the   *)
(* dialog, the record of a new profile (path A) is written differently,    *)
(* and a model that cannot be built at the summary or at a check is a      *)
(* screen in the panel.  Stops at the panel, readings gone stale and the   *)
(* ends of a session are in CalibrationSession.                            *)
(***************************************************************************)
EXTENDS Conversation, FiniteSets

CONSTANT Openings   \* the paths the two users may open (a bound)

ASSUME OpeningsAssumption == Openings \subseteq {"path_a", "path_b", "path_c"}

P == INSTANCE PanelConversation
D == INSTANCE DialogConversation

VARIABLES
    p,   \* the panel's conversation
    d,   \* the dialog's conversation
    own  \* whether the record or the file holds this window's own travel

vars == <<p, d, own>>

Summaries == {"summary_basic", "summary_short", "summary_correction", "summary_precise"}

Init ==
    /\ p = P!NewTalk /\ d = D!NewTalk
    /\ own \in BOOLEAN

Settled == p.queued = P!NoJob /\ d.queued = D!NoJob

-----------------------------------------------------------------------------
(* The users answer.  A press may come too late, and a time measured by a  *)
(* press may be one no model accepts.                                      *)

Answers(a) ==
    CASE a = "lifted_off" -> {"fit", "late"}
      [] a \in {"stopped_open", "stopped_closed"} -> {"fit", "late", "unfit"}
      [] OTHER -> {"fit"}

Acts ==
    /\ Settled
    /\ \E a \in P!Offered(p) \cap D!Offered(d) : \E verdict \in Answers(a) :
         /\ p.step = "path" => a \in Openings
         /\ p' = P!Act(p, a, verdict)
         /\ d' = D!Act(d, a, verdict)
    /\ UNCHANGED own

Values(step) ==
    CASE step = "lift_gap" -> {"bad", "empty", "touching", "fit"}
      [] step = "measure_verify" -> {"bad", "near", "far"}
      [] step \in {"path_b", "path_c"} -> {"fit"}
      [] OTHER -> {"bad", "fit"}

Submits ==
    /\ Settled
    /\ P!Screens[p.step].form /\ d.step \in D!Forms
    /\ \E verdict \in Values(p.step) :
         /\ p' = P!Submit(p, verdict, own)
         /\ d' = D!Submit(d, verdict, own)
    /\ UNCHANGED own

-----------------------------------------------------------------------------
(* The movements.  Nothing is known of a shutter while a job runs.         *)

Started(t) == [t EXCEPT !.at = "none", !.stopFirst = FALSE, !.queued = P!NoJob]
StartedTask(t) == [t EXCEPT !.at = "none", !.stopFirst = FALSE, !.queued = D!NoJob]

PanelMoves(verdict) == p' = P!Settled(Started(p), p.queued, verdict)
DialogMoves(verdict) == d' = D!Settled(StartedTask(d), d.queued, verdict)

Outcomes(job) == IF job = "stop_lift" THEN {"fit", "unfit", "failed"} ELSE {"fit", "failed"}

BothMove ==
    /\ p.queued # P!NoJob /\ d.queued # D!NoJob
    /\ p.queued.job = d.queued.job
    /\ p.queued.dir = d.queued.dir \/ "verify_b" \in {p.run.reading, d.run.reading}
    /\ \E verdict \in Outcomes(p.queued.job) : PanelMoves(verdict) /\ DialogMoves(verdict)
    /\ UNCHANGED own

(* The homing the panel left out.                                          *)
DialogHomesAlone ==
    /\ d.queued.job = "home" /\ p.queued.job # "home"
    /\ DialogMoves("fit")
    /\ UNCHANGED <<p, own>>

Next == Acts \/ Submits \/ BothMove \/ DialogHomesAlone

Spec == Init /\ [][Next]_vars

-----------------------------------------------------------------------------
(* Properties.                                                             *)

(* With neither waiting for a movement the two conversations are on the    *)
(* same screen, offer the same answers, have measured the same and have    *)
(* the same stages still to come; and when a movement is due, the panel's  *)
(* is the dialog's unless the dialog has a homing to make alone.           *)
SameConversation ==
    /\ p.m = d.m /\ p.named = d.named /\ p.profile = d.profile
    /\ p.plan = d.plan /\ p.index = d.index /\ p.report = d.report
    /\ Settled => p.step = d.step /\ P!Offered(p) = D!Offered(d)
    /\ ~Settled => \/ d.queued.job = "home"
                   \/ p.queued.job = d.queued.job /\ p.queued.done = d.queued.done

Records == [profile : {"before", "none"}, wins : BOOLEAN, height : BOOLEAN, keys : SUBSET Keys]

(* Whatever the record held, saving a profile (path B) or a correction     *)
(* (path C) writes the same record from either client.                     *)
SameRecord ==
    p.step \in Summaries /\ p.path \in {"path_b", "path_c"} =>
      \A record \in Records :
        P!RecordToWrite(p, record, "shutter") = D!RecordToWrite(d, record)
=============================================================================
