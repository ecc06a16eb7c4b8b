------------------------- MODULE CommandContract -------------------------
(***************************************************************************)
(* What the command path of the gateway handler promises to a caller of    *)
(* send() / send_status_request(), with no queue, worker or session in it: *)
(* a command that was taken is answered exactly once, by on_delivered or   *)
(* by on_dropped (the docstring of _QueuedCommand in gateway.py), and what *)
(* is reported as delivered was written on the bus by the attempt that the *)
(* report names.  CommandPath is shown to implement this module.           *)
(***************************************************************************)
EXTENDS Naturals

CONSTANTS Commands,   \* the send() calls of a behaviour, one value per call
          MaxAttempts \* COMMAND_ATTEMPTS

VARIABLES fate,  \* what each caller has been told about its command
          onBus  \* <<command, attempt>> for every copy the bus has received

contractVars == <<fate, onBus>>

Attempts == 1..MaxAttempts

\* "unsent": not sent yet; "taken": send() returned True and nothing was
\* reported; "merged": a status request folded into one still waiting.
Fates == [state: {"unsent", "taken", "merged", "dropped"}, attempt: {0}]
         \cup [state: {"delivered"}, attempt: Attempts]

Is(state) == [state |-> state, attempt |-> 0]
DeliveredAt(a) == [state |-> "delivered", attempt |-> a]

ContractInit ==
    /\ fate = [c \in Commands |-> Is("unsent")]
    /\ onBus = {}

\* send() takes the command, merges it, or refuses it (on_dropped at once).
Take(c) ==
    /\ fate[c] = Is("unsent")
    /\ \E s \in {"taken", "merged", "dropped"} : fate' = [fate EXCEPT ![c] = Is(s)]
    /\ UNCHANGED onBus

\* The bus receives a copy of a command whose caller is still waiting.
Reach(c, a) ==
    /\ fate[c] = Is("taken")
    /\ onBus' = onBus \cup {<<c, a>>}
    /\ UNCHANGED fate

\* The gateway answered a copy: its caller hears on_delivered, once.
Deliver(c, a) ==
    /\ fate[c] = Is("taken")
    /\ <<c, a>> \in onBus
    /\ fate' = [fate EXCEPT ![c] = DeliveredAt(a)]
    /\ UNCHANGED onBus

\* Any number of waiting callers hear on_dropped, each once.
Drop(S) ==
    /\ \A c \in S : fate[c] = Is("taken")
    /\ fate' = [c \in Commands |-> IF c \in S THEN Is("dropped") ELSE fate[c]]
    /\ UNCHANGED onBus

ContractNext ==
    \/ \E c \in Commands : Take(c)
    \/ \E c \in Commands, a \in Attempts : Reach(c, a) \/ Deliver(c, a)
    \/ \E S \in SUBSET Commands : Drop(S)

ContractSpec == ContractInit /\ [][ContractNext]_contractVars
==========================================================================
