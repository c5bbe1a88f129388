------------------------------ MODULE NetIOUDP -------------------------------
(***************************************************************************)
(* Reliable UDP, C4NetIOUDP: two computers that talk over datagrams.       *)
(*                                                                         *)
(* Each side keeps a Peer for the other.  What the application sends gets  *)
(* the next numbers, one for every fragment, and is kept until the other   *)
(* side acknowledges it; a Check acknowledges what came complete and asks  *)
(* for the fragments that are missing.  A connection starts with Conn and  *)
(* ConnOK, which tell the other side where the numbers start.  Nothing in  *)
(* a datagram says to which connection it belongs.                         *)
(*                                                                         *)
(* A step is an entry of C4NetIOUDP; a handler is a function from peers to *)
(* peers, and the datagrams it sends collect in the field send.  Time is   *)
(* left to chance: a check is due or a time is over at any moment that     *)
(* the network allows.  Multicast, which the game never turns on, a second *)
(* address of a peer and pings without a connection are left out.          *)
(*                                                                         *)
(* An operator whose name ends in a word after "_" is its namesake with a  *)
(* plausible bug; nothing here uses it.                                    *)
(***************************************************************************)
EXTENDS Integers, Sequences, FiniteSets, SequencesExt

CONSTANTS
    Sides,      \* the two computers
    Sizes,      \* the numbers of fragments a packet may have
    MaxAsk,     \* iMaxAskCnt
    MaxRetries, \* iConnectRetries
    Backlog,    \* iMaxOPacketBacklog
    Networks,   \* the faults a network may commit, and how many it may lose,
                \* double, reorder or restart at most
    MaxO,       \* MaxO[s]: bound on the fragments s sends over a connection
    Capacity,   \* bound on the datagrams to a side when it asks for more
    MaxLives    \* bound on the peers a side creates

(* Reconnect lets a side have one connection after the other. *)
Faults == {"Lose", "Duplicate", "Overtake", "Delay", "Restart", "Refuse", "Reconnect"}

ASSUME SidesAssumption == IsFiniteSet(Sides) /\ Cardinality(Sides) = 2
ASSUME SizesAssumption == Sizes \subseteq Nat \ {0}
ASSUME OptionsAssumption == {MaxAsk, Backlog} \subseteq Nat \ {0} /\ MaxRetries \in Nat
ASSUME NetworksAssumption ==
    DOMAIN Networks \subseteq SUBSET Faults /\ \A n \in DOMAIN Networks : Networks[n] \in Nat
ASSUME BoundsAssumption ==
    MaxO \in [Sides -> Nat] /\ {Capacity, MaxLives} \subseteq Nat

VARIABLES
    peer,     \* peer[s]: what s keeps of the other side, see NewPeer
    net,      \* net[s]: the datagrams on their way to s
    lives,    \* lives[s]: how many peers s has created
    starved,  \* why connections were closed for "starvation", see HandleCheck
    allowed,  \* the faults this network commits
    faults    \* how many it has committed

vars == <<peer, net, lives, starved, allowed, faults>>

Other(s) == CHOOSE t \in Sides : t # s
larger(a, b) == IF a > b THEN a ELSE b

(* The numbers of a finite set in order. *)
Rank(S, n) == Cardinality({k \in S : k < n})
Sorted(S) == [k \in 1..Cardinality(S) |-> CHOOSE n \in S : Rank(S, n) = k - 1]
-----------------------------------------------------------------------------
(* A peer: the outgoing packet counter and the packets not acknowledged,   *)
(* the number up to which everything came complete, the highest number the *)
(* other side is known to have used, the fragments that came too early.    *)
(* All it has thrown away unacknowledged is below thrown, a history.       *)
(* got is what the application received since OnConn, and first the number *)
(* the connection starts with.  A side without a peer, or with one that is *)
(* closed, has the status None.                                            *)
NewPeer ==
    [status |-> "Conn", retries |-> MaxRetries,
     o |-> 0, opackets |-> <<>>, thrown |-> 0,
     i |-> 0, r |-> 0, ipackets |-> {}, timer |-> FALSE, asked |-> 0,
     got |-> <<>>, first |-> 0, send |-> <<>>, starved |-> {}]
NoPeer == [NewPeer EXCEPT !.status = "None"]

(* Datagrams.  A fragment is told apart by the life of the peer that sent  *)
(* it, which stands for its data.                                          *)
ConnMsg(n) == [kind |-> "Conn", nr |-> n]
ConnOKMsg(n) == [kind |-> "ConnOK", nr |-> n]
CloseMsg == [kind |-> "Close", nr |-> 0]
CheckMsg(n, ack, ask) == [kind |-> "Check", nr |-> n, ack |-> ack, ask |-> ask]
GetFragment(p, n) ==
    [kind |-> "Data", nr |-> n, fnr |-> p.nr, cnt |-> p.cnt, life |-> p.life]

SendDirect(h, ms) == [h EXCEPT !.send = @ \o ms]

Numbers(p) == p.nr .. p.nr + p.cnt - 1
SendPacket(h, p) == SendDirect(h, [k \in 1..p.cnt |-> GetFragment(p, p.nr + k - 1)])
-----------------------------------------------------------------------------
(* Checking for lost packets *)

FragmentPresent(h, n) == \E f \in h.ipackets : f.nr = n
Missing(h) ==
    {n \in (IF h.timer THEN larger(h.asked + 1, h.i) ELSE h.i) .. h.r - 1 :
        ~FragmentPresent(h, n)}
FirstOf(S) == {n \in S : Rank(S, n) < MaxAsk}

(* Without a time limit the list of asked fragments starts anew. *)
Ask(h, ask, force) ==
    SendDirect([h EXCEPT !.asked = IF ask # {} THEN Max(ask) ELSE IF h.timer THEN @ ELSE 0,
                         !.timer = @ \/ ask # {}],
               IF ask # {} \/ force THEN <<CheckMsg(h.o, h.i, ask)>> ELSE <<>>)

Check(h, force) ==
    IF h.status = "Works" THEN {Ask(h, ask, force) : ask \in {FirstOf(Missing(h))}} ELSE {h}

(* Receiving packets *)

(* A packet is put together from fragments of the same first number and    *)
(* size, and takes no number of another one.                               *)
AddFragment(h, m) ==
    IF /\ m.nr \in m.fnr .. m.fnr + m.cnt - 1
       /\ ~FragmentPresent(h, m.nr)
       /\ \A f \in h.ipackets :
             \/ f.fnr = m.fnr /\ f.cnt = m.cnt
             \/ f.fnr + f.cnt <= m.fnr
             \/ m.fnr + m.cnt <= f.fnr
    THEN [h EXCEPT !.ipackets = @ \cup {m}]
    ELSE h

(* The packets at the front that are complete, without a gap. *)
CompleteUntil(h, n) == \A k \in h.i .. n - 1 : FragmentPresent(h, k)
CompleteIPackets(h) ==
    IF \E f \in h.ipackets : f.fnr < h.i THEN {}
    ELSE {f \in h.ipackets : CompleteUntil(h, f.fnr + f.cnt)}

(* A packet handed over: its number, its size and whose data it holds. *)
Packets(F) ==
    LET N == Sorted({f.fnr : f \in F})
        At(k) == {f \in F : f.fnr = N[k]}
    IN  [k \in DOMAIN N |-> [nr |-> N[k], cnt |-> (CHOOSE f \in At(k) : TRUE).cnt,
                             lives |-> {f.life : f \in At(k)}]]

(* Hands over what is complete although something before it is missing. *)
CheckCompleteIPackets_Gaps(h) ==
    LET done == {f \in h.ipackets :
                    \A k \in f.fnr .. f.fnr + f.cnt - 1 : FragmentPresent(h, k)}
    IN  IF h.status # "Works" \/ done = {} THEN h
        ELSE [h EXCEPT !.got = @ \o Packets(done),
                       !.i = Max({f.fnr + f.cnt : f \in done}),
                       !.ipackets = @ \ done]

CheckCompleteIPackets(h) ==
    LET done == CompleteIPackets(h)
    IN  IF h.status # "Works" THEN h
        ELSE [h EXCEPT !.got = @ \o Packets(done),
                       !.i = @ + Cardinality(done),
                       !.ipackets = @ \ done]
-----------------------------------------------------------------------------
(* Connections *)

(* The status is Closed and the peer will be deleted: it is as if it were  *)
(* not there.                                                              *)
OnClose(h) == [NoPeer EXCEPT !.send = h.send, !.starved = h.starved]
Close(h) == OnClose(SendDirect(h, <<CloseMsg>>))

DoConn(h) ==
    SendDirect([h EXCEPT !.status = "Conn", !.retries = MaxRetries], <<ConnMsg(h.o)>>)

(* The application accepts the connection or does not want it any more. *)
OnConn(h, accept) ==
    LET c == [h EXCEPT !.status = "Works"]
    IN  IF accept THEN CheckCompleteIPackets(c) ELSE Close(c)
-----------------------------------------------------------------------------
(* The packets of the other side *)

(* Does not answer where the connection already works. *)
HandleConn_Silent(h, m, accept) ==
    IF h.status = "Works" THEN h
    ELSE OnConn(SendDirect([h EXCEPT !.r = m.nr, !.i = m.nr, !.ipackets = {}],
                           <<ConnOKMsg(h.o)>>), accept)

(* A Conn for a connection that works, but is further, closes it and       *)
(* starts again.  Either way the other side says where its numbers start.  *)
HandleConn(h, m, accept) ==
    LET old == IF h.status = "Works" /\ h.i # m.nr THEN DoConn([h EXCEPT !.got = <<>>]) ELSE h
        new == [old EXCEPT !.r = m.nr, !.i = m.nr, !.ipackets = {}, !.timer = FALSE, !.asked = 0,
                           !.first = IF old.got = <<>> THEN m.nr ELSE @]
    IN  OnConn(SendDirect(new, <<ConnOKMsg(new.o)>>), accept)

HandleConnOK(h, m, accept) == IF h.status = "Conn" THEN OnConn(h, accept) ELSE h

HandleData_Old(h, m) == CheckCompleteIPackets(AddFragment(h, m))
HandleData(h, m) ==
    IF m.nr < h.i THEN h ELSE CheckCompleteIPackets(AddFragment(h, m))

(* Forgets what is acknowledged and sends what is asked for, until there   *)
(* is a fragment it does not have: it was thrown away, or cleared as       *)
(* acknowledged.                                                           *)
From(P, k) == SubSeq(P, k + 1, Len(P))
ClearPackets_Early(P, ack) ==
    From(P, Cardinality({k \in DOMAIN P : \A j \in 1..k : P[j].nr <= ack}))
ClearPackets(P, ack) ==
    From(P, Cardinality({k \in DOMAIN P : \A j \in 1..k : P[j].nr < ack}))
HasFragment(P, n) == \E k \in DOMAIN P : n \in Numbers(P[k])
GetPacketFrgm(P, n) == P[CHOOSE k \in DOMAIN P : n \in Numbers(P[k])]

HandleCheck(h, m) ==
    LET P == ClearPackets(h.opackets, m.ack)
        found == {n \in m.ask : \A k \in m.ask : k <= n => HasFragment(P, k)}
        N == Sorted(found)
        resend == [k \in DOMAIN N |-> GetFragment(GetPacketFrgm(P, N[k]), N[k])]
        answered == SendDirect([h EXCEPT !.opackets = P], resend)
        Excused(n) == n < h.thrown \/ HasFragment(P, n)
        reason == IF \A n \in m.ask : Excused(n) THEN "Thrown" ELSE "Cleared"
    IN  IF found = m.ask THEN answered ELSE Close([answered EXCEPT !.starved = {reason}])

Handle(h, m, accept) ==
    CASE m.kind = "Conn" -> HandleConn(h, m, accept)
      [] m.kind = "ConnOK" -> HandleConnOK(h, m, accept)
      [] m.kind = "Data" -> HandleData(h, m)
      [] m.kind = "Check" -> HandleCheck(h, m)
      [] m.kind = "Close" -> OnClose(h)

(* Every packet tells a number the other side has used; what is missing is *)
(* asked for at once.                                                      *)
OnRecv(h, m, accept) ==
    {Handle(c, m, accept) : c \in Check([h EXCEPT !.r = larger(@, m.nr)], FALSE)}

(* Without a peer only a Conn counts: it creates one, which connects back. *)
OnPacket(h, m, accept) ==
    IF h.status # "None" THEN OnRecv(h, m, accept)
    ELSE IF m.kind = "Conn" THEN {DoConn(NewPeer)}
    ELSE {h}
-----------------------------------------------------------------------------
(* The two sides *)

Init ==
    /\ peer = [s \in Sides |-> NoPeer]
    /\ net = [s \in Sides |-> <<>>]
    /\ lives = [s \in Sides |-> 0]
    /\ starved = {}
    /\ allowed \in DOMAIN Networks
    /\ faults = 0

(* The peer of s becomes one of H; its datagrams are on their way, and     *)
(* what is still on its way to s is q.                                     *)
Becomes(s, H, q) == \E h \in H :
    /\ peer' = [peer EXCEPT ![s] = [h EXCEPT !.send = <<>>, !.starved = {}]]
    /\ net' = [net EXCEPT ![s] = q, ![Other(s)] = @ \o h.send]
    /\ lives' = IF peer[s].status = "None" /\ h.status # "None"
                THEN [lives EXCEPT ![s] = @ + 1] ELSE lives
    /\ starved' = starved \cup h.starved
    /\ UNCHANGED allowed

MayCreate(s) == lives[s] < IF "Reconnect" \in allowed THEN MaxLives ELSE 1

(* s gets the datagram m and q is left. *)
Deliver(s, m, q) ==
    /\ m.kind = "Conn" /\ peer[s].status = "None" => MayCreate(s)
    /\ \E accept \in IF "Refuse" \in allowed THEN BOOLEAN ELSE {TRUE} :
          Becomes(s, OnPacket(peer[s], m, accept), q)

Receive(s) ==
    /\ net[s] # <<>>
    /\ Deliver(s, Head(net[s]), Tail(net[s]))
    /\ UNCHANGED faults

(* The application *)

Connect(s) ==
    /\ peer[s].status = "None"
    /\ MayCreate(s)
    /\ Becomes(s, {DoConn(NewPeer)}, net[s])
    /\ UNCHANGED faults

CloseAddr(s) ==
    /\ peer[s].status # "None"
    /\ "Refuse" \in allowed
    /\ Becomes(s, {Close(peer[s])}, net[s])
    /\ UNCHANGED faults

(* A packet is kept until it is acknowledged, or too many others are. *)
AddPacket(h, p) ==
    LET P == Append(h.opackets, p)
    IN  IF Len(P) <= Backlog THEN [h EXCEPT !.opackets = P]
        ELSE [h EXCEPT !.opackets = Tail(P), !.thrown = larger(@, Head(P).nr + Head(P).cnt)]

Send(s) ==
    /\ peer[s].status = "Works"
    /\ \E c \in Sizes :
          LET p == [nr |-> peer[s].o, cnt |-> c, life |-> lives[s]]
          IN  /\ p.nr + c <= MaxO[s]
              /\ Becomes(s, {SendPacket(AddPacket([peer[s] EXCEPT !.o = @ + c], p), p)}, net[s])
    /\ UNCHANGED faults

(* C4NetIOUDP::Execute, without a packet.  A second is long: what was sent *)
(* in the last one is not under way any more, if the network has no        *)
(* delays.                                                                 *)
UnderWay(s, K) == \E k \in DOMAIN net[s] : net[s][k].kind \in K
Roomy(s) == ~UnderWay(Other(s), {"Check"}) /\ Len(net[s]) < Capacity

(* Says nothing while nothing seems to be missing. *)
DoCheck_Lazy(s) ==
    /\ peer[s].status = "Works"
    /\ Roomy(s)
    /\ Becomes(s, Check(peer[s], FALSE), net[s])
    /\ UNCHANGED faults

DoCheck(s) ==
    /\ peer[s].status = "Works"
    /\ Roomy(s)
    /\ Becomes(s, Check(peer[s], TRUE), net[s])
    /\ UNCHANGED faults

(* iNextReCheck is over: what was asked for is not under way any more. *)
ReCheckDue(s) ==
    /\ peer[s].timer
    /\ ~UnderWay(s, {"Data"})
    /\ \A k \in DOMAIN net[Other(s)] : LET m == net[Other(s)][k] IN
          m.kind = "Check" => m.ask = {}
    /\ Becomes(s, {[peer[s] EXCEPT !.timer = FALSE]}, net[s])
    /\ UNCHANGED faults

OnTimeout(s) ==
    /\ peer[s].status = "Conn"
    /\ \/ "Delay" \in allowed /\ Roomy(s)
       \/ \A t \in Sides : ~UnderWay(t, {"Conn", "ConnOK"})
    /\ IF peer[s].retries > 0
       THEN Becomes(s, {[DoConn(peer[s]) EXCEPT !.retries = peer[s].retries - 1]}, net[s])
       ELSE Becomes(s, {Close(peer[s])}, net[s])
    /\ UNCHANGED faults

(* The network *)

Fault(f) ==
    /\ f \in allowed
    /\ faults < Networks[allowed]
    /\ faults' = faults + 1

Lose(s) ==
    /\ Fault("Lose")
    /\ \E k \in DOMAIN net[s] : net' = [net EXCEPT ![s] = RemoveAt(@, k)]
    /\ UNCHANGED <<peer, lives, starved, allowed>>

(* The copy arrives after what is under way. *)
Duplicate(s) ==
    /\ Fault("Duplicate")
    /\ net[s] # <<>>
    /\ Deliver(s, Head(net[s]), Append(Tail(net[s]), Head(net[s])))

Overtake(s) ==
    /\ Fault("Overtake")
    /\ \E k \in DOMAIN net[s] \ {1} : Deliver(s, net[s][k], RemoveAt(net[s], k))

(* The program ends without a word and may connect again. *)
Restart(s) ==
    /\ Fault("Restart")
    /\ peer[s].status # "None"
    /\ Becomes(s, {NoPeer}, net[s])

Step(s) ==
    \/ Receive(s) \/ Connect(s) \/ CloseAddr(s) \/ Send(s)
    \/ DoCheck(s) \/ ReCheckDue(s) \/ OnTimeout(s)
    \/ Lose(s) \/ Duplicate(s) \/ Overtake(s) \/ Restart(s)

(* A bound may stop a side for good. *)
Next == \E s \in Sides : Step(s)

Spec == Init /\ [][Next]_vars

(* The network thread executes the class again and again; the network      *)
(* hands out in the end what it does not lose.                             *)
FairSpec ==
    Spec /\ \A s \in Sides :
        /\ WF_vars(Receive(s)) /\ WF_vars(DoCheck(s))
        /\ WF_vars(ReCheckDue(s)) /\ WF_vars(OnTimeout(s))
-----------------------------------------------------------------------------
Up == \A s \in Sides : peer[s].status = "Works"

(* The counters and lists of a peer fit together: what it keeps of its own *)
(* has numbers below its counter, what came too early is above what came   *)
(* complete, and a side without a peer keeps nothing.                      *)
TypeOK ==
    /\ \A s \in Sides :
        LET h == peer[s] IN
        /\ h.status \in {"None", "Conn", "Works"} /\ h.retries \in 0..MaxRetries
        /\ h.status = "None" => h = NoPeer
        /\ h.o \in 0..MaxO[s] /\ h.i \in Nat /\ h.r \in Nat
        /\ \A k \in DOMAIN h.opackets : \A n \in Numbers(h.opackets[k]) : n < h.o
        /\ \A f \in h.ipackets : f.nr >= h.i
        /\ h.send = <<>>
    /\ starved \subseteq {"Thrown", "Cleared"}
    /\ allowed \in DOMAIN Networks /\ faults \in 0..Networks[allowed]

(* The packets of a connection (CheckCompleteIPackets) follow each other:  *)
(* none left out, none twice, none before its turn.                        *)
NoneLeftOut ==
    \A s \in Sides : LET got == peer[s].got IN
        \A k \in DOMAIN got :
            got[k].nr = IF k = 1 THEN peer[s].first ELSE got[k-1].nr + got[k-1].cnt

(* Their fragments were sent over one connection of the other side.        *)
OfOneConnection ==
    \A s \in Sides : LET got == peer[s].got IN
        \A j, k \in DOMAIN got : got[j].lives = got[k].lives /\ Cardinality(got[k].lives) = 1

(* What the application receives over a connection (CheckCompleteIPackets) *)
(* is what the other side sent: every packet whole, of one connection of   *)
(* the sender, none twice, none left out, in order, though datagrams get   *)
(* lost, doubled or late, or the other program restarts.                   *)
InOrder == NoneLeftOut /\ OfOneConnection

(* Where datagrams are only lost, a side is asked for what it has only     *)
(* after its list of sent packets ran over (C4NetIO.cpp:3504): no          *)
(* connection is closed for "starvation" because of what was forgotten as  *)
(* acknowledged.  After the first "starvation" one side may still take the *)
(* old connection for the new one, and nothing is said of it.              *)
LossyOnly == allowed \subseteq {"Lose", "Reconnect"}
NeverStarves == LossyOnly /\ starved # {} => "Thrown" \in starved

(* When what is said above holds for every value of the constants.         *)

(* No network brings a datagram of an old connection to a new one: there   *)
(* is only one connection, or what was said before the Conn that begins    *)
(* the next one also comes before it, or no connection ends but for        *)
(* "starvation", since what is lost can be sent again and nobody runs out  *)
(* of tries.                                                               *)
NeverMixes ==
    \A n \in DOMAIN Networks :
        \/ "Reconnect" \notin n
        \/ n \cap {"Lose", "Duplicate", "Overtake"} = {}
        \/ n \subseteq {"Lose", "Reconnect"} /\ Networks[n] <= MaxRetries

(* A connection was closed for "starvation" where datagrams are lost and a *)
(* side may connect again: from there on nothing is said for the last of   *)
(* the three.                                                              *)
GivenUp == {"Lose", "Reconnect"} \subseteq allowed /\ starved # {}

(* A network that only loses datagrams loses no more than there are tries  *)
(* to connect.                                                             *)
Patient == \A n \in DOMAIN Networks : n \subseteq {"Lose", "Reconnect"} => Networks[n] <= MaxRetries

(* A side that tries to connect gets a connection both sides agree on if   *)
(* not more datagrams are lost than there are retries: no lost Conn or     *)
(* ConnOK leaves one side waiting and the other one working.               *)
Establishes ==
    LossyOnly /\ (\E s \in Sides : peer[s].status = "Conn") ~> Up \/ GivenUp

(* While both sides work, all that was sent is received and acknowledged   *)
(* in the end, the last fragment too, whose loss no later packet shows,    *)
(* whatever the network has done before, unless it was given up.           *)
CatchesUp ==
    <>[](Up /\ ~GivenUp) =>
        <>[](\A s \in Sides : peer[s].opackets = <<>> /\ peer[Other(s)].i = peer[s].o)
=============================================================================
