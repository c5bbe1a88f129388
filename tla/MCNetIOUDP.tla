----------------------------- MODULE MCNetIOUDP ------------------------------
(* Small instances of NetIOUDP. *)
EXTENDS NetIOUDP, TLC

CONSTANTS a, b

(* One side sends, more than its list of sent packets may hold.            *)
Volume == a :> 3 @@ b :> 0

(* A lossy network, one that mixes up the datagrams of a connection, one   *)
(* that is perfect while a program restarts, and a slow one.               *)
AnyNetwork ==
    {"Lose", "Reconnect"} :> 2 @@
    {"Lose", "Duplicate", "Overtake"} :> 1 @@
    {"Restart", "Reconnect"} :> 1 @@
    {"Delay", "Refuse"} :> 0

(* What is proved of InOrder and NeverStarves applies to this instance.    *)
ASSUME ConditionsAssumption == NeverMixes /\ Patient
=============================================================================
