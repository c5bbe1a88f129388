----------------------- MODULE MCNetworkIOConnection -----------------------
(* Bounds for model checking the message connection. *)
EXTENDS NetworkIOConnection

CONSTANTS a, b

Thread == [main |-> FALSE, broadcast |-> FALSE]
Main == [main |-> TRUE, broadcast |-> FALSE]
Broadcast == [main |-> FALSE, broadcast |-> TRUE]

Known(ms, ns) ==
    [messages |-> a :> ms @@ b :> ns, trusts |-> [s \in Sides |-> TRUE]]
Unknown(ms, ns) ==
    [messages |-> a :> ms @@ b :> ns, trusts |-> [s \in Sides |-> s = a]]

MCSettings ==
    {Known(<<Thread, Main, Thread>>, <<>>), Known(<<Broadcast, Thread>>, <<Thread>>), Unknown(<<Thread>>, <<Main>>)}
=============================================================================
