---------------------------- MODULE MCNetworkRes -----------------------------
(* Small instances of NetworkRes. *)
EXTENDS NetworkRes

CONSTANTS s, a, b

Game(clients, chunks, dynamic, faults, often) ==
    [clients |-> clients, chunks |-> chunks, dynamic |-> dynamic, faults |-> faults, often |-> often]

(* Two clients load from the source and from each other, or one more       *)
(* chunks.                                                                 *)
AnyGame ==
    {Game({s, a, b}, 2, FALSE, {"OtherLeaves"}, 1),
     Game({s, a, b}, 1, TRUE, {"Stall"}, 1),
     Game({s, a, b}, 1, FALSE, {"SourceLeaves"}, 1),
     Game({s, a}, 4, TRUE, {"OtherLeaves", "WriteError"}, 2),
     Game({s, a}, 3, TRUE, {"Stall"}, 2),
     Game({s, a}, 3, FALSE, {"ReadError", "SourceLeaves"}, 2)}

(* Two clients load from a source that leaves.                             *)
Abandoned == {Game({s, a, b}, 2, FALSE, {"SourceLeaves"}, 1)}

(* A client drops what it is loading, and so may another one.              *)
Relisted == {Game({s, a, b}, 2, FALSE, {"Stall"}, 2)}
=============================================================================
