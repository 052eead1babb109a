------------------------- MODULE LiveDebugProtocol -------------------------
(***************************************************************************)
(* What the live debug server promises its client about the life of the    *)
(* debugged program, whatever its threads do: the program becomes ready,   *)
(* each round (a continue or a step the server accepts) ends in exactly one *)
(* stop before the next round is announced, and "terminated" ends all.     *)
(***************************************************************************)
EXTENDS Naturals

VARIABLES
    phase,    \* the last event of the program's life
    round,    \* the round it belongs to
    events    \* how many there have been

vars == <<phase, round, events>>

Init == phase = "none" /\ round = 0 /\ events = 0

Announce(p, r) == phase' = p /\ round' = r /\ events' = events + 1

Ready == phase = "none" /\ Announce("ready", 0)

Halted == phase \in {"ready", "stopped"}

Continue == Halted /\ Announce("continued", round + 1)

(* The end of a continued round.                                           *)
Stop == phase = "continued" /\ Announce("stopped", round)

(* A step is announced by its stop only.                                   *)
StepStop == Halted /\ Announce("stopped", round + 1)

(* The program ends in its round, in a step, or because the client leaves. *)
Terminate == phase # "terminated" /\ \E r \in {round, round + 1} :
                                         Announce("terminated", r)

Next == Ready \/ Continue \/ Stop \/ StepStop \/ Terminate

Spec == Init /\ [][Next]_vars
=============================================================================
