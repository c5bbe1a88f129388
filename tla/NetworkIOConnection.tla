------------------------ MODULE NetworkIOConnection ------------------------
(***************************************************************************)
(* A message connection between two computers and its post mortem          *)
(* (C4Network2IO, C4Network2IOConnection, C4Network2).                     *)
(*                                                                         *)
(* Two clients of a game that already reach each other some way open a     *)
(* better connection, use it for their messages and may lose it at any     *)
(* time.  Each numbers and keeps what it sends; pings tell which packets   *)
(* arrived.  When a connection breaks, what is left is sent over the other *)
(* connection, as a post mortem.                                           *)
(*                                                                         *)
(* On each side the network thread receives packets, handles those of its  *)
(* own and leaves the others, in a queue of events, to the main thread.    *)
(* Where the main thread looks at the status of the connection first and   *)
(* sets it afterwards, the rest of the handler waits at the head of the    *)
(* queue, so that the network thread may come in between; what the network *)
(* thread has still to do of a post mortem is at the head of the other     *)
(* connection.                                                             *)
(*                                                                         *)
(* The other connection stands for whatever route is left, directly or     *)
(* through the host, and does not break.  Packets are told apart by their  *)
(* sender and by their place in what it sends.                             *)
(***************************************************************************)
EXTENDS Integers, Sequences, FiniteSets, SequencesExt

CONSTANTS
    Sides,    \* the two computers
    Settings  \* what they send and whether they know each other, see Setting

(* A message is for the main thread of the receiver or for its network     *)
(* thread, and is sent to one client or broadcast.                         *)
Message == [main : BOOLEAN, broadcast : BOOLEAN]

(* messages[s] is what s sends, in this order; trusts[s] whether its       *)
(* network thread accepts the other side (doAutoAccept).                   *)
Setting == [messages : [Sides -> Seq(Message)], trusts : [Sides -> BOOLEAN]]

ASSUME SidesAssumption == IsFiniteSet(Sides) /\ Cardinality(Sides) = 2
ASSUME SettingsAssumption == Settings \subseteq Setting

VARIABLES
    setting,  \* the setting of this run, which does not change
    conn,     \* conn[s]: the C4Network2IOConnection of s
    wire,     \* wire[s]: what is on its way to s over the connection
    other,    \* other[s]: what is on its way to s over the other connection
    events,   \* events[s]: what the network thread left to the main thread
    msgConn,  \* msgConn[s]: whether the connection or the other is pMsgConn
    sent,     \* sent[s]: the connection each message of s went over
    handled,  \* handled[s]: the messages s has handled
    recovered \* recovered[s]: the status when s received a post mortem

vars == <<setting, conn, wire, other, events, msgConn, sent, handled, recovered>>

Other(s) == CHOOSE t \in Sides : t # s
larger(a, b) == IF a > b THEN a ELSE b
-----------------------------------------------------------------------------
(* iInPacketCounter, iOutPacketCounter, pPacketLog (the oldest first),     *)
(* fAutoAccept, fPostMortemSent; listed while in pConnList, live while the *)
(* C4NetIO below has the connection.                                       *)
NewConn ==
    [status |-> "Connected", auto |-> FALSE, listed |-> TRUE, live |-> TRUE,
     in |-> 0, out |-> 0, log |-> <<>>, postMortemSent |-> FALSE]

isHalfAccepted(c) == c.status \in {"HalfAccepted", "Accepted"}
isClosed(c) == c.status \in {"Closed", "ConnectFail"}
isOpen(c) == ~isClosed(c)

Packet(kind) == [kind |-> kind, nr |-> 0]
Ping(n) == [kind |-> "Ping", nr |-> n]
(* Message n of s, over this connection with the Number of its             *)
(* PacketLogEntry, which stays in the log, or over the other one.          *)
Data(s, n, on, number) ==
    [kind |-> "Data", nr |-> n, main |-> setting.messages[s][n].main, on |-> on, number |-> number]
Event(p, on) == [pkt |-> p, by |-> on]
Disconn == Event(Packet("Disconn"), "this")

(* Packets before PID_PacketLogStart are neither counted nor kept. *)
Counted(p) == p.kind = "Data"

(* Keeps a packet only if it can be sent at once. *)
Send_Closed(c, p) ==
    IF Counted(p) /\ isOpen(c) THEN [c EXCEPT !.out = @ + 1, !.log = Append(@, p)] ELSE c
(* C4Network2IOConnection::Send: what becomes of the connection, and what  *)
(* the other side will receive.                                            *)
Send(c, p) == IF Counted(p) THEN [c EXCEPT !.out = @ + 1, !.log = Append(@, p)] ELSE c
OnWire(c, p) == IF isOpen(c) /\ c.live THEN <<p>> ELSE <<>>

(* The first number in the log, and what ClearPacketLog leaves of it. *)
LogStart(c) == c.out - Len(c.log)
(* Also removes the first packet the other side has not received. *)
ClearPacketLog_OneMore(c, until) ==
    [c EXCEPT !.log = SubSeq(@, larger(0, until + 1 - LogStart(c)) + 1, Len(@))]
ClearPacketLog(c, until) ==
    [c EXCEPT !.log = SubSeq(@, larger(0, until - LogStart(c)) + 1, Len(@))]

CreatePostMortem(c) == c.log # <<>> /\ ~c.postMortemSent
PostMortem(c) == [kind |-> "PostMortem", counter |-> c.out, packets |-> c.log]
(* Hands over all there is, also what was received before. *)
PacketsFrom_All(pm, n) == pm.packets
(* C4PacketPostMortem::getPacket, for this number and all that follow. *)
PacketsFrom(pm, n) ==
    LET first == pm.counter - Len(pm.packets)
    IN  IF n \in first .. pm.counter - 1
        THEN SubSeq(pm.packets, n - first + 1, Len(pm.packets))
        ELSE <<>>
-----------------------------------------------------------------------------
Init ==
    /\ setting \in Settings
    /\ conn = [s \in Sides |-> NewConn]
    /\ wire = [s \in Sides |-> <<Packet("Conn")>>]
    /\ other = [s \in Sides |-> <<>>]
    /\ events = [s \in Sides |-> <<>>]
    /\ msgConn = [s \in Sides |-> "other"]
    /\ sent = [s \in Sides |-> <<>>]
    /\ handled = [s \in Sides |-> <<>>]
    /\ recovered = [s \in Sides |-> "no"]

(* SendMsg, or a broadcast, over the message connection.  A broadcast      *)
(* passes over a connection that is closed.                                *)
SendMessage(s) ==
    LET n == Len(sent[s]) + 1
        c == conn[s]
        skipped == msgConn[s] = "this" /\ setting.messages[s][n].broadcast /\ isClosed(c)
        on == IF skipped THEN "none" ELSE msgConn[s]
        p == Data(s, n, on, IF on = "this" THEN c.out ELSE 0)
    IN  /\ n <= Len(setting.messages[s])
        /\ sent' = [sent EXCEPT ![s] = Append(@, on)]
        /\ conn' = IF on = "this" THEN [conn EXCEPT ![s] = Send(@, p)] ELSE conn
        /\ wire' = IF on = "this" THEN [wire EXCEPT ![Other(s)] = @ \o OnWire(c, p)] ELSE wire
        /\ other' = IF on = "other" THEN [other EXCEPT ![Other(s)] = Append(@, p)] ELSE other
        /\ UNCHANGED <<setting, events, msgConn, handled, recovered>>

-----------------------------------------------------------------------------
(* The network thread *)

(* The thread is in the middle of a post mortem, with these packets left. *)
Recovery(packets) == [kind |-> "Recovery", packets |-> packets]
Busy(s) == other[s] # <<>> /\ Head(other[s]).kind = "Recovery"

(* Packets arrive as long as the connection is listed and C4NetIO has it.  *)
Receives(s, kind) ==
    /\ ~Busy(s)
    /\ wire[s] # <<>>
    /\ Head(wire[s]).kind = kind
    /\ conn[s].live /\ conn[s].listed

(* PID_Conn goes on to the main thread in any case. *)
ReceiveConn(s) ==
    LET c == conn[s]
        accepts == isOpen(c) /\ setting.trusts[s]
    IN  /\ Receives(s, "Conn")
        /\ conn' = IF accepts
                   THEN [conn EXCEPT ![s] = [@ EXCEPT !.status = "HalfAccepted", !.auto = TRUE]]
                   ELSE conn
        /\ wire' = [wire EXCEPT ![s] = Tail(@),
                                ![Other(s)] = @ \o (IF accepts THEN OnWire(c, Packet("ConnRe"))
                                                    ELSE <<>>)]
        /\ events' = [events EXCEPT ![s] = Append(@, Event(Packet("Conn"), "this"))]
        /\ UNCHANGED <<setting, other, msgConn, sent, handled, recovered>>

(* Leaves the acceptance to the main thread. *)
ReceiveConnRe_Later(s) ==
    /\ Receives(s, "ConnRe")
    /\ wire' = [wire EXCEPT ![s] = Tail(@)]
    /\ events' = [events EXCEPT ![s] = Append(@, Event(Packet("ConnRe"), "this"))]
    /\ UNCHANGED <<setting, conn, other, msgConn, sent, handled, recovered>>

ReceiveConnRe(s) ==
    /\ Receives(s, "ConnRe")
    /\ conn' = IF isHalfAccepted(conn[s]) /\ conn[s].auto
               THEN [conn EXCEPT ![s] = [@ EXCEPT !.status = "Accepted"]]
               ELSE conn
    /\ wire' = [wire EXCEPT ![s] = Tail(@)]
    /\ events' = [events EXCEPT ![s] = Append(@, Event(Packet("ConnRe"), "this"))]
    /\ UNCHANGED <<setting, other, msgConn, sent, handled, recovered>>

ReceivePing(s) ==
    /\ Receives(s, "Ping")
    /\ conn' = IF isOpen(conn[s])
               THEN [conn EXCEPT ![s] = ClearPacketLog(@, Head(wire[s]).nr)]
               ELSE conn
    /\ wire' = [wire EXCEPT ![s] = Tail(@)]
    /\ UNCHANGED <<setting, other, events, msgConn, sent, handled, recovered>>

(* C4Network2IO::HandlePacket by the network thread, of a packet of the    *)
(* application: it handles the packet itself or passes it on.              *)
HandledByThread(c, p) == IF c.status = "Accepted" /\ ~p.main THEN <<p>> ELSE <<>>
PassedOn(c, p) == IF isHalfAccepted(c) /\ p.main THEN <<Event(p, "this")>> ELSE <<>>

ReceiveData(s) ==
    LET c == conn[s]
        p == Head(wire[s])
    IN  /\ Receives(s, "Data")
        /\ conn' = [conn EXCEPT ![s] = [c EXCEPT !.in = c.in + 1]]
        /\ wire' = [wire EXCEPT ![s] = Tail(@)]
        /\ handled' = [handled EXCEPT ![s] = @ \o HandledByThread(c, p)]
        /\ events' = [events EXCEPT ![s] = @ \o PassedOn(c, p)]
        /\ UNCHANGED <<setting, other, msgConn, sent, recovered>>

(* Over the other connection, which stays accepted. *)
ReceiveOther(s) ==
    LET p == Head(other[s])
    IN  /\ other[s] # <<>>
        /\ p.kind = "Data"
        /\ other' = [other EXCEPT ![s] = Tail(@)]
        /\ handled' = [handled EXCEPT ![s] = IF p.main THEN @ ELSE Append(@, p)]
        /\ events' = [events EXCEPT ![s] = IF p.main THEN Append(@, Event(p, "other")) ELSE @]
        /\ UNCHANGED <<setting, conn, wire, msgConn, sent, recovered>>

(* PID_PostMortem of a connection that is not forgotten: what was not      *)
(* received has to be handled, one packet after the other, then the        *)
(* connection is closed and forgotten.                                     *)
ReceivePostMortem(s) ==
    LET c == conn[s]
        pm == Head(other[s])
    IN  /\ other[s] # <<>>
        /\ pm.kind = "PostMortem"
        /\ IF c.listed
           THEN /\ other' = [other EXCEPT ![s][1] = Recovery(PacketsFrom(pm, c.in))]
                /\ recovered' = [recovered EXCEPT ![s] = c.status]
           ELSE /\ other' = [other EXCEPT ![s] = Tail(@)]
                /\ UNCHANGED recovered
        /\ UNCHANGED <<setting, conn, wire, events, msgConn, sent, handled>>

RecoverPacket(s) ==
    LET packets == Head(other[s]).packets
        p == Head(packets)
    IN  /\ Busy(s)
        /\ packets # <<>>
        /\ other' = [other EXCEPT ![s][1] = Recovery(Tail(packets))]
        /\ handled' = [handled EXCEPT ![s] = @ \o HandledByThread(conn[s], p)]
        /\ events' = [events EXCEPT ![s] = @ \o PassedOn(conn[s], p)]
        /\ UNCHANGED <<setting, conn, wire, msgConn, sent, recovered>>

(* C4Network2IOConnection::Close: C4NetIO calls OnDisconn if it still has  *)
(* the connection.                                                         *)
Close(c) == IF isClosed(c) THEN c ELSE [c EXCEPT !.status = "Closed", !.live = FALSE]
CloseEvents(c) == IF isOpen(c) /\ c.live THEN <<Disconn>> ELSE <<>>

RemoveConnection(s) ==
    /\ Busy(s)
    /\ Head(other[s]).packets = <<>>
    /\ other' = [other EXCEPT ![s] = Tail(@)]
    /\ conn' = [conn EXCEPT ![s] = [Close(@) EXCEPT !.listed = FALSE]]
    /\ wire' = [wire EXCEPT ![s] = <<>>]
    /\ events' = [events EXCEPT ![s] = @ \o CloseEvents(conn[s])]
    /\ UNCHANGED <<setting, msgConn, sent, handled, recovered>>

(* C4NetIO finds the connection closed or broken. *)
Disconnected(c) ==
    [c EXCEPT !.live = FALSE,
              !.status = IF isClosed(c) THEN @ ELSE IF isHalfAccepted(c) THEN "Closed" ELSE "ConnectFail"]

OnDisconn(s) ==
    /\ ~Busy(s)
    /\ conn[s].live /\ conn[s].listed
    /\ conn' = [conn EXCEPT ![s] = Disconnected(@)]
    /\ wire' = [wire EXCEPT ![s] = <<>>]
    /\ events' = [events EXCEPT ![s] = Append(@, Disconn)]
    /\ UNCHANGED <<setting, other, msgConn, sent, handled, recovered>>

(* Leaves the removal of a closed connection to the post mortem. *)
CheckTimeout_Kept(s) ==
    /\ ~Busy(s)
    /\ conn[s].listed /\ isOpen(conn[s])
    /\ conn' = [conn EXCEPT ![s] = Close(@)]
    /\ wire' = [wire EXCEPT ![s] = <<>>]
    /\ events' = [events EXCEPT ![s] = @ \o CloseEvents(conn[s])]
    /\ UNCHANGED <<setting, other, msgConn, sent, handled, recovered>>

(* C4Network2IO::CheckTimeout: no acceptance, or no answer to a ping, for  *)
(* too long; a closed connection is forgotten after a while.               *)
CheckTimeout(s) ==
    /\ ~Busy(s)
    /\ conn[s].listed
    /\ conn' = [conn EXCEPT ![s] = IF isOpen(@) THEN Close(@) ELSE [@ EXCEPT !.listed = FALSE]]
    /\ wire' = [wire EXCEPT ![s] = <<>>]
    /\ events' = [events EXCEPT ![s] = @ \o CloseEvents(conn[s])]
    /\ UNCHANGED <<setting, other, msgConn, sent, handled, recovered>>

(* C4Network2IO::Ping.  One ping at a time is on its way, and only if it   *)
(* has something new to tell; the others change nothing.                   *)
SendPing(s) ==
    LET p == Ping(conn[s].in)
    IN  /\ ~Busy(s)
        /\ conn[s].listed /\ isOpen(conn[s])
        /\ OnWire(conn[s], p) # <<>>
        /\ p.nr > LogStart(conn[Other(s)])
        /\ \A k \in 1..Len(wire[Other(s)]) : wire[Other(s)][k].kind # "Ping"
        /\ wire' = [wire EXCEPT ![Other(s)] = Append(@, p)]
        /\ UNCHANGED <<setting, conn, other, events, msgConn, sent, handled, recovered>>
-----------------------------------------------------------------------------
(* The main thread *)

NextEvent(s, kind) == events[s] # <<>> /\ Head(events[s]).pkt.kind = kind
Rest(s, kind) == [events EXCEPT ![s][1] = Event(Packet(kind), "this")]
Done(s) == [events EXCEPT ![s] = Tail(@)]

(* C4Network2::HandleConn answers, then marks the connection. *)
HandleConn(s) ==
    LET c == conn[s]
        answers == c.status = "Connected"
    IN  /\ NextEvent(s, "Conn")
        /\ wire' = [wire EXCEPT ![Other(s)] = @ \o (IF answers THEN OnWire(c, Packet("ConnRe"))
                                                    ELSE <<>>)]
        /\ events' = IF answers THEN Rest(s, "SetHalfAccepted") ELSE Done(s)
        /\ UNCHANGED <<setting, conn, other, msgConn, sent, handled, recovered>>

SetHalfAccepted(s) ==
    /\ NextEvent(s, "SetHalfAccepted")
    /\ conn' = IF isClosed(conn[s]) THEN conn
               ELSE [conn EXCEPT ![s] = [@ EXCEPT !.status = "HalfAccepted"]]
    /\ events' = Done(s)
    /\ UNCHANGED <<setting, wire, other, msgConn, sent, handled, recovered>>

(* C4Network2::HandleConnRe looks whether the connection is open and not   *)
(* yet accepted, then accepts it and uses it for messages.                 *)
HandleConnRe(s) ==
    LET c == conn[s]
    IN  /\ NextEvent(s, "ConnRe")
        /\ events' = IF isOpen(c) /\ ~(c.status = "Accepted" /\ ~c.auto)
                     THEN Rest(s, "SetAccepted")
                     ELSE Done(s)
        /\ UNCHANGED <<setting, conn, wire, other, msgConn, sent, handled, recovered>>

(* In a build without assertions the status may leave Closed here. *)
SetAccepted(s) ==
    /\ NextEvent(s, "SetAccepted")
    /\ conn' = [conn EXCEPT ![s] = [@ EXCEPT !.status = "Accepted", !.auto = FALSE]]
    /\ msgConn' = [msgConn EXCEPT ![s] = "this"]
    /\ events' = Done(s)
    /\ UNCHANGED <<setting, wire, other, sent, handled, recovered>>

(* C4Network2IO::HandlePacket by the main thread. *)
HandlePacket(s) ==
    LET e == Head(events[s])
    IN  /\ NextEvent(s, "Data")
        /\ handled' = [handled EXCEPT ![s] =
                          IF e.by = "other" \/ conn[s].status = "Accepted"
                          THEN Append(@, e.pkt) ELSE @]
        /\ events' = Done(s)
        /\ UNCHANGED <<setting, conn, wire, other, msgConn, sent, recovered>>

(* Uses the other connection only once the post mortem is sent. *)
HandleDisconn_MortemFirst(s) ==
    LET c == conn[s]
        creates == c.status # "ConnectFail" /\ CreatePostMortem(c)
    IN  /\ NextEvent(s, "Disconn")
        /\ events' = IF creates THEN events ELSE Done(s)
        /\ msgConn' = IF creates \/ c.status = "ConnectFail" THEN msgConn ELSE [msgConn EXCEPT ![s] = "other"]
        /\ conn' = IF creates THEN [conn EXCEPT ![s] = [@ EXCEPT !.postMortemSent = TRUE]] ELSE conn
        /\ other' = IF creates THEN [other EXCEPT ![Other(s)] = Append(@, PostMortem(c))] ELSE other
        /\ UNCHANGED <<setting, wire, sent, handled, recovered>>

(* C4Network2::OnDisconn: the other connection takes over, and what was    *)
(* not acknowledged goes over it.                                          *)
HandleDisconn(s) ==
    LET c == conn[s]
    IN  /\ NextEvent(s, "Disconn")
        /\ events' = Done(s)
        /\ IF c.status = "ConnectFail"
           THEN UNCHANGED <<conn, msgConn, other>>
           ELSE /\ msgConn' = [msgConn EXCEPT ![s] = "other"]
                /\ IF CreatePostMortem(c)
                   THEN /\ conn' = [conn EXCEPT ![s] = [@ EXCEPT !.postMortemSent = TRUE]]
                        /\ other' = [other EXCEPT ![Other(s)] = Append(@, PostMortem(c))]
                   ELSE UNCHANGED <<conn, other>>
        /\ UNCHANGED <<setting, wire, sent, handled, recovered>>
-----------------------------------------------------------------------------
NetworkThread(s) ==
    \/ ReceiveConn(s) \/ ReceiveConnRe(s) \/ ReceivePing(s) \/ ReceiveData(s)
    \/ ReceiveOther(s) \/ ReceivePostMortem(s) \/ RecoverPacket(s)
    \/ RemoveConnection(s)

MainThread(s) ==
    \/ HandleConn(s) \/ SetHalfAccepted(s) \/ HandleConnRe(s) \/ SetAccepted(s)
    \/ HandlePacket(s) \/ HandleDisconn(s)

Next ==
    \E s \in Sides :
        \/ NetworkThread(s) \/ MainThread(s)
        \/ SendMessage(s) \/ SendPing(s) \/ OnDisconn(s) \/ CheckTimeout(s)

Spec == Init /\ [][Next]_vars

(* Once C4NetIO has lost the connection, pings are not answered and time   *)
(* runs out; and closed connections are forgotten after a while.           *)
Lost(s) == (\E t \in Sides : ~conn[t].live) \/ isClosed(conn[s])

FairSpec ==
    /\ Spec
    /\ \A s \in Sides :
          /\ WF_vars(NetworkThread(s))
          /\ WF_vars(MainThread(s))
          /\ WF_vars(Lost(s) /\ CheckTimeout(s))
-----------------------------------------------------------------------------
SentPacket(s) ==
    {Data(s, n, on, number) : n \in 1..Len(setting.messages[s]), on \in {"this", "other"},
                              number \in 0..Len(setting.messages[s])}
SidePacket == {Packet("Conn"), Packet("ConnRe")}

(* Everything has its type; and what a side keeps reaches back to what the *)
(* other has received, while that counts no more than was sent             *)
(* (ClearPacketLog, OnPacketReceived).                                     *)
TypeOK ==
    /\ setting \in Settings
    /\ \A s \in Sides :
          LET c == conn[s] IN
          /\ c.status \in {"Connected", "HalfAccepted", "Accepted", "Closed", "ConnectFail"}
          /\ {c.auto, c.listed, c.live, c.postMortemSent} \subseteq BOOLEAN
          /\ Len(c.log) <= c.out /\ LogStart(c) <= conn[Other(s)].in /\ conn[Other(s)].in <= c.out
          /\ Range(c.log) \subseteq SentPacket(s)
          /\ \A k \in 1..Len(wire[s]) :
                wire[s][k] \in SidePacket \cup SentPacket(Other(s))
                               \cup {Ping(n) : n \in 0..Len(setting.messages[s])}
          /\ msgConn[s] \in {"this", "other"}
          /\ sent[s] \in Seq({"this", "other", "none"}) /\ Len(sent[s]) <= Len(setting.messages[s])
          /\ Range(handled[s]) \subseteq SentPacket(Other(s))

(* Whatever way a message takes, it is handled at most once, and messages  *)
(* of one kind are handled in the order they were sent.  Only what was     *)
(* sent before the connection was there may be overtaken by what is sent   *)
(* over it.                                                                *)
InOrder ==
    \A s \in Sides : \A i, j \in 1..Len(handled[s]) :
        LET p == handled[s][i]
            q == handled[s][j]
        IN  i < j /\ p.main = q.main =>
                p.nr < q.nr \/ (q.nr < p.nr /\ q.on = "other" /\ p.on = "this")

(* The messages of s to the network thread of the other side that went     *)
(* over the connection, and were not handled.                              *)
Missing(s) ==
    {n \in 1..Len(sent[s]) :
        /\ sent[s][n] = "this" /\ ~setting.messages[s][n].main
        /\ \A p \in Range(handled[Other(s)]) : p.nr # n}

(* A post mortem that comes to an accepted connection leaves no message    *)
(* unhandled: together with what was received it is all that was sent      *)
(* (PID_PostMortem).                                                       *)
Recovers ==
    \A s \in Sides :
        setting.trusts[s] /\ recovered[s] = "Accepted" /\ ~Busy(s) => Missing(Other(s)) = {}

(* What C4Network2IO.cpp:1433 and 1443 assert: a side that has sent its    *)
(* post mortem sends no packet over the connection any more, so all that   *)
(* it counted is in the post mortem or had arrived.  It has left the       *)
(* connection before, and neither an acceptance nor an end of it that the  *)
(* network thread has still put into the queue brings it back.             *)
NoneAfterPostMortem ==
    [][\A s \in Sides : conn[s].postMortemSent =>
          /\ conn'[s].postMortemSent
          /\ conn'[s].out = conn[s].out /\ conn'[s].log = conn[s].log]_vars

(* What C4Network2IO.cpp:1429 says of packets sent over a closed           *)
(* connection: "post mortem will reroute it later".                        *)
Reroutes ==
    \A s \in Sides :
        setting.trusts[s] /\ recovered[s] \in {"Accepted", "Closed"} /\ ~Busy(s) => Missing(Other(s)) = {}

(* What C4Network2IO.cpp:1320 says of a closed connection: "Connection     *)
(* can't return from these".                                               *)
StaysClosed ==
    [][\A s \in Sides : isClosed(conn[s]) => isClosed(conn'[s])]_vars

(* A message to the network thread of the other side does not stay on its  *)
(* way forever: it is handled, or the connection is closed there first.    *)
Delivers ==
    []<>(\A s \in Sides :
            setting.trusts[s] /\ conn[s].live /\ recovered[s] = "no" => Missing(Other(s)) = {})

(* A connection that is lost for one side ends for both: it is forgotten,  *)
(* nothing is left to do, and messages go over the other connection.       *)
Settles ==
    (\E s \in Sides : ~conn[s].live) ~>
        \A s \in Sides : /\ ~conn[s].listed /\ ~conn[s].live
                         /\ events[s] = <<>> /\ msgConn[s] = "other"
=============================================================================
