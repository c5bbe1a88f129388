------------------------------ MODULE Lockstep ------------------------------
(***************************************************************************)
(* What the control exchange of a network game promises, with no network   *)
(* in it: there is one sequence of controls, decided tick by tick, and     *)
(* every client executes that sequence from its beginning, one control per *)
(* control tick, never ahead of what is decided.  GameControlNetwork is    *)
(* shown to implement this specification.                                  *)
(***************************************************************************)
EXTENDS Naturals, Sequences, SequencesExt

CONSTANT Clients

VARIABLES
    decided,    \* the control of every decided tick, in tick order
    executed    \* executed[n]: the controls client n has executed, in order

vars == <<decided, executed>>

Init ==
    /\ decided = <<>>
    /\ executed = [n \in Clients |-> <<>>]

(* Some ticks are decided: what was decided before never changes. *)
Decide ==
    /\ IsStrictPrefix(decided, decided')
    /\ UNCHANGED executed

(* Client n executes the next tick. *)
Execute(n) ==
    LET k == Len(executed[n]) + 1
    IN  /\ k <= Len(decided)
        /\ executed' = [executed EXCEPT ![n] = Append(@, decided[k])]
        /\ UNCHANGED decided

Next == Decide \/ \E n \in Clients : Execute(n)

Spec == Init /\ [][Next]_vars
=============================================================================
