--------------------- MODULE NetworkIOConnection_proofs ----------------------
(***************************************************************************)
(* Theorems about the message connection.                                  *)
(***************************************************************************)
EXTENDS NetworkIOConnection, FiniteSetTheorems, SequenceTheorems, TLAPS

-----------------------------------------------------------------------------
(* The values the variables take. *)
Statuses == {"Connected", "HalfAccepted", "Accepted", "Closed", "ConnectFail"}
MessagePacket == [kind : {"Data"}, nr : Nat, main : BOOLEAN, on : {"this", "other"}, number : Nat]
WirePacket == [kind : {"Conn", "ConnRe", "Ping"}, nr : Nat] \cup MessagePacket
OtherPacket ==
    MessagePacket \cup [kind : {"PostMortem"}, counter : Nat, packets : Seq(MessagePacket)]
                  \cup [kind : {"Recovery"}, packets : Seq(MessagePacket)]
Step == [kind : {"Conn", "ConnRe", "SetHalfAccepted", "SetAccepted", "Disconn"}, nr : {0}]
EventPacket == [pkt : Step \cup MessagePacket, by : {"this", "other"}]
Connection ==
    [status : Statuses, auto : BOOLEAN, listed : BOOLEAN, live : BOOLEAN,
     in : Nat, out : Nat, log : Seq(MessagePacket), postMortemSent : BOOLEAN]

Types ==
    /\ setting \in Settings
    /\ conn \in [Sides -> Connection]
    /\ wire \in [Sides -> Seq(WirePacket)]
    /\ other \in [Sides -> Seq(OtherPacket)]
    /\ events \in [Sides -> Seq(EventPacket)]
    /\ msgConn \in [Sides -> {"this", "other"}]
    /\ sent \in [Sides -> Seq({"this", "other", "none"})]
    /\ handled \in [Sides -> Seq(MessagePacket)]
    /\ recovered \in [Sides -> {"no"} \cup Statuses]

(* The messages that s has sent, and what may hold them. *)
SentBy(s) ==
    {p \in MessagePacket :
        /\ p.nr \in 1 .. Len(sent[s]) /\ p.on = sent[s][p.nr]
        /\ p.main = setting.messages[s][p.nr].main /\ p.number <= Len(setting.messages[s])}
OnTheWire(S) == [kind : {"Conn", "ConnRe"}, nr : {0}] \cup [kind : {"Ping"}, nr : Nat] \cup S
OnTheOther(S) ==
    S \cup [kind : {"PostMortem"}, counter : Nat, packets : Seq(S)]
      \cup [kind : {"Recovery"}, packets : Seq(S)]
InTheQueue(S) == [pkt : Step \cup {p \in S : p.main}, by : {"this", "other"}]

(* Every message anywhere is one that the other side has sent. *)
Genuine ==
    \A s \in Sides :
        /\ Len(sent[s]) <= Len(setting.messages[s])
        /\ conn[s].log \in Seq(SentBy(s))
        /\ wire[s] \in Seq(OnTheWire(SentBy(Other(s))))
        /\ other[s] \in Seq(OnTheOther(SentBy(Other(s))))
        /\ events[s] \in Seq(InTheQueue(SentBy(Other(s))))
        /\ handled[s] \in Seq(SentBy(Other(s)))

(* The log of s holds the packets with the numbers from LogStart on, as    *)
(* far back as the other side needs them.                                  *)
Numbered(log, first) == \A k \in DOMAIN log : log[k].number = first + k - 1 /\ log[k].on = "this"
Rising(log) == \A k, l \in DOMAIN log : k < l => log[k].nr < log[l].nr
Logged(c, d) ==
    /\ LogStart(c) \in 0 .. d.in /\ d.in <= c.out
    /\ Numbered(c.log, LogStart(c)) /\ Rising(c.log)
Logs == \A s \in Sides : Logged(conn[s], conn[Other(s)]) /\ conn[s].out <= Len(sent[s])

(* What is on its way over the connection is, in this order, what the      *)
(* other side has in its log from the next number on: up to some number,   *)
(* or to the last while that side is live.                                 *)
Comes(w, n) == \E j \in DOMAIN w : w[j].kind = "Data" /\ w[j].number = n
OnItsWay(w, c, d) ==
    /\ \A i \in DOMAIN w : w[i].kind = "Data" =>
        w[i].number \in c.in .. d.out - 1 /\ w[i] = d.log[w[i].number - LogStart(d) + 1]
    /\ \A i, j \in DOMAIN w : w[i].kind = "Data" /\ w[j].kind = "Data" /\ i < j => w[i].number < w[j].number
    /\ \A i \in DOMAIN w : w[i].kind = "Ping" => w[i].nr <= d.in
    /\ c.live =>
        \A n \in c.in .. d.out - 1 :
            /\ d.live => Comes(w, n)
            /\ \A i \in DOMAIN w : w[i].kind = "Data" /\ n < w[i].number => Comes(w, n)
Wires == \A s \in Sides : OnItsWay(wire[s], conn[s], conn[Other(s)])

(* A connection that C4NetIO has is open and listed; when it is lost, that *)
(* is told once, after everything it brought about the acceptance.         *)
Living(c, es) ==
    /\ c.live => isOpen(c) /\ c.listed
    /\ \A i \in DOMAIN es : es[i].pkt.kind = "Disconn" =>
        /\ ~c.live
        /\ \A j \in DOMAIN es : i < j => es[j].pkt.kind \notin {"ConnRe", "SetAccepted", "Disconn"}
Lives == \A s \in Sides : Living(conn[s], events[s])
-----------------------------------------------------------------------------
(* There are two sides. *)
LEMMA TwoSides ==
    ASSUME NEW s \in Sides
    PROVE  Other(s) \in Sides /\ Other(s) # s /\ Other(Other(s)) = s /\ Sides = {s, Other(s)}
<1>1. IsFiniteSet(Sides \ {s}) /\ Cardinality(Sides \ {s}) = 1
  BY SidesAssumption, FS_RemoveElement
<1>2. PICK t : Sides \ {s} = {t}
  BY <1>1, FS_Singleton
<1>3. t \in Sides /\ t # s /\ Sides = {s, t}
  BY <1>2
<1>4. Other(s) = t
  BY <1>3 DEF Other
<1>5. Other(t) = s
  BY <1>3 DEF Other
<1> QED
  BY <1>3, <1>4, <1>5

(* Sequences that get one more element, or none, at the end, or lose their *)
(* first one.                                                              *)
LEMMA AtEnd ==
    ASSUME NEW S, NEW w \in Seq(S), NEW x
    PROVE  /\ w \o <<x>> = Append(w, x) /\ w \o <<>> = w
           /\ Append(w, x)[Len(w) + 1] = x /\ Len(Append(w, x)) = Len(w) + 1
           /\ DOMAIN Append(w, x) = 1 .. Len(w) + 1
           /\ \A i \in 1 .. Len(w) : Append(w, x)[i] = w[i]
           /\ DOMAIN w = 1 .. Len(w)
OBVIOUS

(* The sequence without its first element. *)
LEMMA AtFront ==
    ASSUME NEW S, NEW w \in Seq(S), w # <<>>
    PROVE  /\ Tail(w) \in Seq(S) /\ Head(w) = w[1] /\ Head(w) \in S /\ Len(Tail(w)) = Len(w) - 1
           /\ DOMAIN Tail(w) = 1 .. Len(w) - 1 /\ DOMAIN w = 1 .. Len(w) /\ 1 \in DOMAIN w
           /\ \A i \in 1 .. Len(w) - 1 : Tail(w)[i] = w[i + 1]
OBVIOUS

(* The operations on the sequence of one side keep the type of the         *)
(* sequences of both.                                                      *)
LEMMA OneSequence ==
    ASSUME NEW S, NEW f \in [Sides -> Seq(S)], NEW s \in Sides
    PROVE  /\ \A x \in S : [f EXCEPT ![s] = Append(f[s], x)] \in [Sides -> Seq(S)]
           /\ \A x \in S : [f EXCEPT ![s] = f[s] \o <<x>>] \in [Sides -> Seq(S)]
           /\ [f EXCEPT ![s] = f[s] \o <<>>] \in [Sides -> Seq(S)]
           /\ [f EXCEPT ![s] = <<>>] \in [Sides -> Seq(S)]
           /\ f[s] # <<>> => /\ [f EXCEPT ![s] = Tail(f[s])] \in [Sides -> Seq(S)]
                             /\ \A x \in S : [f EXCEPT ![s][1] = x] \in [Sides -> Seq(S)]
<1>1. f[s] \in Seq(S) /\ \A t \in Sides : f[t] \in Seq(S)
  OBVIOUS
<1>2. ASSUME NEW x \in S PROVE Append(f[s], x) \in Seq(S) /\ f[s] \o <<x>> \in Seq(S)
  BY <1>1
<1>3. f[s] \o <<>> \in Seq(S)
  BY <1>1
<1>4. ASSUME f[s] # <<>> PROVE Tail(f[s]) \in Seq(S) /\ \A x \in S : [f[s] EXCEPT ![1] = x] \in Seq(S)
  BY <1>1, <1>4, ExceptSeq
<1>5. \A w \in Seq(S) : [f EXCEPT ![s] = w] \in [Sides -> Seq(S)]
  OBVIOUS
<1> QED
  BY <1>1, <1>2, <1>3, <1>4, <1>5
-----------------------------------------------------------------------------
(* The types *)

(* The packets and events that the operations make, and what they hold,    *)
(* have their types.                                                       *)
LEMMA Packets ==
    /\ \A n \in Nat : Ping(n) \in WirePacket
    /\ Packet("Conn") \in WirePacket /\ Packet("ConnRe") \in WirePacket
    /\ Event(Packet("Conn"), "this") \in EventPacket
    /\ Event(Packet("ConnRe"), "this") \in EventPacket
    /\ Event(Packet("SetAccepted"), "this") \in EventPacket
    /\ Event(Packet("SetHalfAccepted"), "this") \in EventPacket
    /\ Disconn \in EventPacket
    /\ \A p \in MessagePacket, by \in {"this", "other"} : Event(p, by) \in EventPacket
    /\ MessagePacket \subseteq WirePacket
    /\ MessagePacket \subseteq OtherPacket
    /\ \A ps \in Seq(MessagePacket) : Recovery(ps) \in OtherPacket
    /\ \A p \in OtherPacket :
        /\ p.kind \in {"PostMortem", "Recovery"} => p.packets \in Seq(MessagePacket)
        /\ p.kind = "PostMortem" => p.counter \in Nat
        /\ p.kind = "Data" => p \in MessagePacket
    /\ \A p \in WirePacket : p.nr \in Nat /\ (p.kind = "Data" => p \in MessagePacket)
    /\ \A e \in EventPacket : e.pkt.kind = "Data" => e.pkt \in MessagePacket
    /\ \A p \in MessagePacket : /\ p.kind = "Data" /\ p.nr \in Nat /\ p.number \in Nat
                               /\ p.main \in BOOLEAN /\ p.on \in {"this", "other"}
BY DEF Ping, Packet, Event, Disconn, WirePacket, MessagePacket, Step, EventPacket, OtherPacket, Recovery

(* What becomes of a connection keeps its type. *)
LEMMA ConnectionTypes ==
    ASSUME NEW c \in Connection
    PROVE  /\ \A p \in MessagePacket : Send(c, p) \in Connection
           /\ \A n \in Nat : ClearPacketLog(c, n) \in Connection
           /\ Close(c) \in Connection /\ [Close(c) EXCEPT !.listed = FALSE] \in Connection
           /\ [c EXCEPT !.listed = FALSE] \in Connection
           /\ Disconnected(c) \in Connection
           /\ [c EXCEPT !.status = "HalfAccepted", !.auto = TRUE] \in Connection
           /\ [c EXCEPT !.status = "Accepted", !.auto = FALSE] \in Connection
           /\ [c EXCEPT !.status = "HalfAccepted"] \in Connection
           /\ [c EXCEPT !.status = "Accepted"] \in Connection
           /\ [c EXCEPT !.in = c.in + 1] \in Connection
           /\ [c EXCEPT !.postMortemSent = TRUE] \in Connection
           /\ PostMortem(c) \in OtherPacket
           /\ LogStart(c) \in Int
<1>1. /\ c.log \in Seq(MessagePacket) /\ c.out \in Nat /\ c.in \in Nat /\ Len(c.log) \in Nat
      /\ c.postMortemSent \in BOOLEAN
  BY DEF Connection
<1>2. LogStart(c) \in Int
  BY <1>1 DEF LogStart
<1>3. ASSUME NEW p \in MessagePacket PROVE Send(c, p) \in Connection
  <2>1. Append(c.log, p) \in Seq(MessagePacket) /\ c.out + 1 \in Nat
    BY <1>1
  <2> QED
    BY <2>1 DEF Send, Connection
<1>4. Close(c) \in Connection
  BY DEF Close, Connection, Statuses
<1>5. \A d \in Connection : [d EXCEPT !.listed = FALSE] \in Connection
  BY DEF Connection
<1>6. PostMortem(c) \in OtherPacket
  BY <1>1 DEF PostMortem, OtherPacket
<1>7. ASSUME NEW n \in Nat PROVE ClearPacketLog(c, n) \in Connection
  <2>1. SubSeq(c.log, larger(0, n - LogStart(c)) + 1, Len(c.log)) \in Seq(MessagePacket)
    BY <1>1, <1>2 DEF larger
  <2> QED
    BY <2>1 DEF ClearPacketLog, Connection
<1>8. Disconnected(c) \in Connection
  BY DEF Disconnected, Connection, Statuses
<1>9. /\ [c EXCEPT !.status = "HalfAccepted", !.auto = TRUE] \in Connection
      /\ [c EXCEPT !.status = "Accepted", !.auto = FALSE] \in Connection
      /\ [c EXCEPT !.status = "HalfAccepted"] \in Connection
      /\ [c EXCEPT !.status = "Accepted"] \in Connection
  BY DEF Connection, Statuses
<1>10. [c EXCEPT !.in = c.in + 1] \in Connection
  BY <1>1 DEF Connection
<1>11. [c EXCEPT !.postMortemSent = TRUE] \in Connection
  BY <1>1 DEF Connection
<1> QED
  BY <1>2, <1>3, <1>4, <1>5, <1>6, <1>7, <1>8, <1>9, <1>10, <1>11

(* A new connection and everything around it has its type. *)
LEMMA InitTypes == Init => Types
<1> SUFFICES ASSUME Init PROVE Types
  OBVIOUS
<1>1. conn \in [Sides -> Connection]
  BY DEF Init, NewConn, Connection, Statuses
<1>2. wire \in [Sides -> Seq(WirePacket)]
  BY Packets DEF Init
<1> QED
  BY <1>1, <1>2 DEF Init, Types

(* The three ways of a message, and the packet it goes in. *)
Way(s) ==
    IF /\ msgConn[s] = "this" /\ isClosed(conn[s])
       /\ setting.messages[s][Len(sent[s]) + 1].broadcast
    THEN "none" ELSE msgConn[s]
NewPacket(s) == Data(s, Len(sent[s]) + 1, Way(s), IF Way(s) = "this" THEN conn[s].out ELSE 0)

(* What a side sends. *)
LEMMA Sends ==
    ASSUME Types, NEW s \in Sides, SendMessage(s)
    PROVE  LET n == Len(sent[s]) + 1
               on == Way(s)
               p == NewPacket(s)
           IN  /\ on \in {"this", "other", "none"}
               /\ n \in 1 .. Len(setting.messages[s])
               /\ setting.messages[s][n].main \in BOOLEAN
               /\ on = "none" => msgConn[s] = "this"
               /\ on # "none" => on = msgConn[s] /\ p \in MessagePacket
               /\ p = Data(s, n, on, IF on = "this" THEN conn[s].out ELSE 0)
               /\ sent' = [sent EXCEPT ![s] = Append(sent[s], on)]
               /\ conn' = IF on = "this" THEN [conn EXCEPT ![s] = Send(conn[s], p)] ELSE conn
               /\ wire' = IF on = "this"
                          THEN [wire EXCEPT ![Other(s)] = IF isOpen(conn[s]) /\ conn[s].live
                                                          THEN Append(wire[Other(s)], p)
                                                          ELSE wire[Other(s)]]
                          ELSE wire
               /\ other' = IF on = "other"
                           THEN [other EXCEPT ![Other(s)] = Append(other[Other(s)], p)]
                           ELSE other
               /\ UNCHANGED <<setting, events, msgConn, handled, recovered>>
<1> DEFINE n == Len(sent[s]) + 1
           on == Way(s)
           p == NewPacket(s)
<1>1. /\ n <= Len(setting.messages[s])
      /\ sent' = [sent EXCEPT ![s] = Append(sent[s], on)]
      /\ conn' = IF on = "this" THEN [conn EXCEPT ![s] = Send(conn[s], p)] ELSE conn
      /\ wire' = IF on = "this" THEN [wire EXCEPT ![Other(s)] = wire[Other(s)] \o OnWire(conn[s], p)] ELSE wire
      /\ other' = IF on = "other" THEN [other EXCEPT ![Other(s)] = Append(other[Other(s)], p)] ELSE other
      /\ UNCHANGED <<setting, events, msgConn, handled, recovered>>
  BY DEF SendMessage, Way, NewPacket
<1>2. sent[s] \in Seq({"this", "other", "none"}) /\ msgConn[s] \in {"this", "other"}
      /\ conn[s] \in Connection /\ wire[Other(s)] \in Seq(WirePacket)
  BY TwoSides DEF Types
<1>3. setting.messages[s] \in Seq(Message)
  BY SettingsAssumption DEF Setting, Types
<1>4. n \in 1 .. Len(setting.messages[s])
  BY <1>1, <1>2, <1>3
<1>5. setting.messages[s][n] \in Message
  BY <1>3, <1>4
<1>6. setting.messages[s][n].main \in BOOLEAN
  BY <1>5 DEF Message
<1>7. on \in {"this", "other", "none"} /\ (on = "none" => msgConn[s] = "this") /\ (on # "none" => on = msgConn[s])
  BY <1>2 DEF Way
<1>8. conn[s].out \in Nat
  BY <1>2 DEF Connection
<1>9. n \in Nat
  BY <1>4
<1>12. p = Data(s, n, on, IF on = "this" THEN conn[s].out ELSE 0)
  BY DEF NewPacket
<1> HIDE DEF n, on, p
<1>10. on # "none" => p \in MessagePacket
  BY <1>6, <1>7, <1>8, <1>9, <1>12 DEF Data, MessagePacket
<1>11. wire[Other(s)] \o OnWire(conn[s], p) = IF isOpen(conn[s]) /\ conn[s].live
                                              THEN Append(wire[Other(s)], p) ELSE wire[Other(s)]
  BY <1>2, AtEnd DEF OnWire
<1> QED
  BY <1>1, <1>4, <1>6, <1>7, <1>10, <1>11, <1>12 DEF n, on, p

(* Every step keeps the types. *)
LEMMA NextTypes ==
    ASSUME Types, [Next]_vars
    PROVE  Types'
<1>0. \A s \in Sides : /\ Other(s) \in Sides /\ conn[s] \in Connection /\ wire[s] \in Seq(WirePacket)
                       /\ other[s] \in Seq(OtherPacket) /\ events[s] \in Seq(EventPacket)
                       /\ conn[s].in \in Nat /\ conn[s].status \in Statuses
                       /\ handled[s] \in Seq(MessagePacket)
  BY TwoSides DEF Types, Connection
<1>1. ASSUME NEW s \in Sides, SendMessage(s) PROVE Types'
  <2> DEFINE on == Way(s)
             p == NewPacket(s)
  <2>1. /\ on \in {"this", "other", "none"}
        /\ on # "none" => p \in MessagePacket
        /\ sent' = [sent EXCEPT ![s] = Append(sent[s], on)]
        /\ conn' = IF on = "this" THEN [conn EXCEPT ![s] = Send(conn[s], p)] ELSE conn
        /\ wire' = IF on = "this"
                   THEN [wire EXCEPT ![Other(s)] = IF isOpen(conn[s]) /\ conn[s].live
                                                   THEN Append(wire[Other(s)], p)
                                                   ELSE wire[Other(s)]]
                   ELSE wire
        /\ other' = IF on = "other"
                    THEN [other EXCEPT ![Other(s)] = Append(other[Other(s)], p)]
                    ELSE other
        /\ UNCHANGED <<setting, events, msgConn, handled, recovered>>
    BY <1>1, Sends
  <2> HIDE DEF on, p
  <2>2. sent' \in [Sides -> Seq({"this", "other", "none"})]
    BY <2>1, OneSequence DEF Types
  <2>3. wire' \in [Sides -> Seq(WirePacket)]
    BY <1>0, <2>1, OneSequence, Packets DEF Types
  <2>4. other' \in [Sides -> Seq(OtherPacket)]
    BY <1>0, <2>1, OneSequence, Packets DEF Types
  <2>5. conn' \in [Sides -> Connection]
    BY <1>0, <2>1, ConnectionTypes DEF Types
  <2> QED
    BY <2>1, <2>2, <2>3, <2>4, <2>5 DEF Types
<1>2. ASSUME NEW s \in Sides, ReceiveConn(s) PROVE Types'
  <2>1. OnWire(conn[s], Packet("ConnRe")) \in {<<>>, <<Packet("ConnRe")>>}
    BY DEF OnWire
  <2>2. wire' \in [Sides -> Seq(WirePacket)]
    <3>1. wire[s] # <<>>
      BY <1>2 DEF ReceiveConn, Receives
    <3> DEFINE w == [wire EXCEPT ![s] = Tail(wire[s])]
               sentOut == IF isOpen(conn[s]) /\ setting.trusts[s]
                          THEN OnWire(conn[s], Packet("ConnRe")) ELSE <<>>
    <3>2. w \in [Sides -> Seq(WirePacket)]
      BY <3>1, OneSequence DEF Types
    <3>3. wire' = [w EXCEPT ![Other(s)] = w[Other(s)] \o sentOut]
      BY <1>0, <1>2, TwoSides DEF ReceiveConn, Types
    <3>4. sentOut \in {<<>>, <<Packet("ConnRe")>>}
      BY <2>1
    <3> HIDE DEF w, sentOut
    <3> QED
      BY <1>0, <3>2, <3>3, <3>4, OneSequence, Packets
  <2>3. events' \in [Sides -> Seq(EventPacket)]
    BY <1>2, OneSequence, Packets DEF Types, ReceiveConn
  <2>4. conn' \in [Sides -> Connection]
    BY <1>0, <1>2, ConnectionTypes DEF Types, ReceiveConn
  <2> QED
    BY <1>2, <2>2, <2>3, <2>4 DEF Types, ReceiveConn
<1>3. ASSUME NEW s \in Sides, ReceiveConnRe(s) PROVE Types'
  <2>1. wire' \in [Sides -> Seq(WirePacket)]
    BY <1>3, OneSequence DEF Types, ReceiveConnRe, Receives
  <2>2. events' \in [Sides -> Seq(EventPacket)]
    BY <1>3, OneSequence, Packets DEF Types, ReceiveConnRe
  <2>3. conn' \in [Sides -> Connection]
    BY <1>0, <1>3, ConnectionTypes DEF Types, ReceiveConnRe
  <2> QED
    BY <1>3, <2>1, <2>2, <2>3 DEF Types, ReceiveConnRe
<1>4. ASSUME NEW s \in Sides, ReceivePing(s) PROVE Types'
  <2>0. wire[s] # <<>> /\ wire' = [wire EXCEPT ![s] = Tail(wire[s])]
    BY <1>4 DEF ReceivePing, Receives
  <2>1. Head(wire[s]) \in WirePacket
    BY <1>0, <2>0, AtFront
  <2>5. wire' \in [Sides -> Seq(WirePacket)]
    BY <2>0, OneSequence DEF Types
  <2>2. Head(wire[s]).nr \in Nat
    BY <2>1, Packets
  <2>3. ClearPacketLog(conn[s], Head(wire[s]).nr) \in Connection
    BY <1>0, <2>2, ConnectionTypes
  <2>4. conn' \in [Sides -> Connection]
    BY <1>0, <1>4, <2>3 DEF Types, ReceivePing
  <2> QED
    BY <1>4, <2>5, <2>4 DEF Types, ReceivePing
<1>5. ASSUME NEW s \in Sides, ReceiveData(s) PROVE Types'
  <2> DEFINE p == Head(wire[s])
  <2>1. /\ wire[s] # <<>> /\ p.kind = "Data"
        /\ conn' = [conn EXCEPT ![s] = [conn[s] EXCEPT !.in = conn[s].in + 1]]
        /\ wire' = [wire EXCEPT ![s] = Tail(@)]
        /\ handled' = [handled EXCEPT ![s] = @ \o HandledByThread(conn[s], p)]
        /\ events' = [events EXCEPT ![s] = @ \o PassedOn(conn[s], p)]
        /\ UNCHANGED <<setting, other, msgConn, sent, recovered>>
    BY <1>5 DEF ReceiveData, Receives
  <2>2. p \in WirePacket
    BY <1>0, <2>1, AtFront
  <2>7. wire' \in [Sides -> Seq(WirePacket)]
    BY <2>1, OneSequence DEF Types
  <2>3. p \in MessagePacket
    BY <2>1, <2>2, Packets
  <2> HIDE DEF p
  <2>4. handled' \in [Sides -> Seq(MessagePacket)]
    BY <2>1, <2>3, OneSequence DEF Types, HandledByThread
  <2>5. events' \in [Sides -> Seq(EventPacket)]
    BY <2>1, <2>3, OneSequence, Packets DEF Types, PassedOn
  <2>6. conn' \in [Sides -> Connection]
    BY <1>0, <2>1, ConnectionTypes DEF Types
  <2> QED
    BY <2>1, <2>4, <2>5, <2>6, <2>7 DEF Types
<1>6. ASSUME NEW s \in Sides, ReceiveOther(s) PROVE Types'
  <2> DEFINE p == Head(other[s])
  <2>1. /\ other[s] # <<>> /\ p.kind = "Data"
        /\ other' = [other EXCEPT ![s] = Tail(@)]
        /\ handled' = [handled EXCEPT ![s] = IF p.main THEN @ ELSE Append(@, p)]
        /\ events' = [events EXCEPT ![s] = IF p.main THEN Append(@, Event(p, "other")) ELSE @]
        /\ UNCHANGED <<setting, conn, wire, msgConn, sent, recovered>>
    BY <1>6 DEF ReceiveOther
  <2>2. p \in OtherPacket
    BY <1>0, <2>1, AtFront
  <2>6. other' \in [Sides -> Seq(OtherPacket)]
    BY <2>1, OneSequence DEF Types
  <2>3. p \in MessagePacket
    BY <2>1, <2>2, Packets
  <2> HIDE DEF p
  <2>4. handled' \in [Sides -> Seq(MessagePacket)]
    BY <2>1, <2>3, OneSequence DEF Types
  <2>5. events' \in [Sides -> Seq(EventPacket)]
    BY <2>1, <2>3, OneSequence, Packets DEF Types
  <2> QED
    BY <2>1, <2>4, <2>5, <2>6 DEF Types
<1>7. ASSUME NEW s \in Sides, ReceivePostMortem(s) PROVE Types'
  <2>1. other[s] # <<>> /\ Head(other[s]).kind = "PostMortem" /\ Head(other[s]) \in OtherPacket
    BY <1>0, <1>7 DEF ReceivePostMortem
  <2>2. Head(other[s]).packets \in Seq(MessagePacket) /\ Head(other[s]).counter \in Nat
    BY <2>1, Packets
  <2>3. PacketsFrom(Head(other[s]), conn[s].in) \in Seq(MessagePacket)
    <3> DEFINE ps == Head(other[s]).packets
               pm == Head(other[s])
               first == pm.counter - Len(ps)
               in == conn[s].in
    <3>1. ps \in Seq(MessagePacket) /\ Len(ps) \in Nat /\ pm.counter \in Nat /\ in \in Nat
      BY <1>0, <2>2
    <3>2. PacketsFrom(pm, in) = IF in \in first .. pm.counter - 1
                                THEN SubSeq(ps, in - first + 1, Len(ps)) ELSE <<>>
      BY DEF PacketsFrom
    <3> HIDE DEF pm, ps, in
    <3>3. in \in first .. pm.counter - 1 => SubSeq(ps, in - first + 1, Len(ps)) \in Seq(MessagePacket)
      BY <3>1, SubSeqProperties
    <3>4. PacketsFrom(pm, in) \in Seq(MessagePacket)
      BY <3>2, <3>3
    <3> QED
      BY <3>4 DEF pm, in
  <2>4. other' \in [Sides -> Seq(OtherPacket)]
    <3>1. Recovery(PacketsFrom(Head(other[s]), conn[s].in)) \in OtherPacket
      BY <2>3, Packets
    <3>2. \/ other' = [other EXCEPT ![s][1] = Recovery(PacketsFrom(Head(other[s]), conn[s].in))]
          \/ other' = [other EXCEPT ![s] = Tail(other[s])]
      BY <1>7 DEF ReceivePostMortem
    <3>3. /\ \A x \in OtherPacket : [other EXCEPT ![s][1] = x] \in [Sides -> Seq(OtherPacket)]
          /\ [other EXCEPT ![s] = Tail(other[s])] \in [Sides -> Seq(OtherPacket)]
      BY <2>1, OneSequence DEF Types
    <3> QED
      BY <3>1, <3>2, <3>3
  <2>5. recovered' \in [Sides -> {"no"} \cup Statuses]
    BY <1>0, <1>7 DEF Types, ReceivePostMortem
  <2> QED
    BY <1>7, <2>4, <2>5 DEF Types, ReceivePostMortem
<1>8. ASSUME NEW s \in Sides, RecoverPacket(s) PROVE Types'
  <2> DEFINE ps == Head(other[s]).packets
             p == Head(ps)
  <2>1. /\ other[s] # <<>> /\ Head(other[s]).kind = "Recovery" /\ ps # <<>>
        /\ other' = [other EXCEPT ![s][1] = Recovery(Tail(ps))]
        /\ handled' = [handled EXCEPT ![s] = @ \o HandledByThread(conn[s], p)]
        /\ events' = [events EXCEPT ![s] = @ \o PassedOn(conn[s], p)]
        /\ UNCHANGED <<setting, conn, wire, msgConn, sent, recovered>>
    BY <1>8 DEF RecoverPacket, Busy
  <2>2. ps \in Seq(MessagePacket)
    BY <1>0, <2>1, Packets
  <2>7. p \in MessagePacket /\ Tail(ps) \in Seq(MessagePacket)
    BY <2>1, <2>2, AtFront
  <2>3. p \in MessagePacket /\ Recovery(Tail(ps)) \in OtherPacket
    BY <2>7, Packets
  <2> HIDE DEF ps, p
  <2>4. handled' \in [Sides -> Seq(MessagePacket)]
    BY <2>1, <2>3, OneSequence DEF Types, HandledByThread
  <2>5. events' \in [Sides -> Seq(EventPacket)]
    BY <2>1, <2>3, OneSequence, Packets DEF Types, PassedOn
  <2>6. other' \in [Sides -> Seq(OtherPacket)]
    BY <2>1, <2>3, OneSequence DEF Types
  <2> QED
    BY <2>1, <2>4, <2>5, <2>6 DEF Types
<1>9. ASSUME NEW s \in Sides, RemoveConnection(s) PROVE Types'
  <2>1. other' \in [Sides -> Seq(OtherPacket)]
    BY <1>9, OneSequence DEF Types, RemoveConnection, Busy
  <2>2. events' \in [Sides -> Seq(EventPacket)]
    BY <1>9, OneSequence, Packets DEF Types, RemoveConnection, CloseEvents
  <2>3. conn' \in [Sides -> Connection]
    BY <1>0, <1>9, ConnectionTypes DEF Types, RemoveConnection
  <2>4. wire' \in [Sides -> Seq(WirePacket)]
    BY <1>9, OneSequence DEF Types, RemoveConnection
  <2> QED
    BY <1>9, <2>1, <2>2, <2>3, <2>4 DEF Types, RemoveConnection
<1>16. ASSUME NEW s \in Sides, OnDisconn(s) PROVE Types'
  <2>1. other' \in [Sides -> Seq(OtherPacket)]
    BY <1>16, OneSequence DEF Types, OnDisconn
  <2>2. events' \in [Sides -> Seq(EventPacket)]
    BY <1>16, OneSequence, Packets DEF Types, OnDisconn, CloseEvents
  <2>3. conn' \in [Sides -> Connection]
    BY <1>0, <1>16, ConnectionTypes DEF Types, OnDisconn
  <2>4. wire' \in [Sides -> Seq(WirePacket)]
    BY <1>16, OneSequence DEF Types, OnDisconn
  <2> QED
    BY <1>16, <2>1, <2>2, <2>3, <2>4 DEF Types, OnDisconn
<1>17. ASSUME NEW s \in Sides, CheckTimeout(s) PROVE Types'
  <2>1. other' \in [Sides -> Seq(OtherPacket)]
    BY <1>17, OneSequence DEF Types, CheckTimeout
  <2>2. events' \in [Sides -> Seq(EventPacket)]
    BY <1>17, OneSequence, Packets DEF Types, CheckTimeout, CloseEvents
  <2>3. conn' \in [Sides -> Connection]
    BY <1>0, <1>17, ConnectionTypes DEF Types, CheckTimeout
  <2>4. wire' \in [Sides -> Seq(WirePacket)]
    BY <1>17, OneSequence DEF Types, CheckTimeout
  <2> QED
    BY <1>17, <2>1, <2>2, <2>3, <2>4 DEF Types, CheckTimeout
<1>10. ASSUME NEW s \in Sides, SendPing(s) PROVE Types'
  BY <1>0, <1>10, OneSequence, Packets DEF Types, SendPing
<1>11. ASSUME NEW s \in Sides, HandleConn(s) PROVE Types'
  <2>1. events' \in [Sides -> Seq(EventPacket)]
    BY <1>11, OneSequence, Packets DEF Types, HandleConn, NextEvent, Rest, Done
  <2>2. wire' \in [Sides -> Seq(WirePacket)]
    BY <1>0, <1>11, OneSequence, Packets DEF Types, HandleConn, OnWire
  <2> QED
    BY <1>11, <2>1, <2>2 DEF Types, HandleConn
<1>12. ASSUME NEW s \in Sides, SetHalfAccepted(s) PROVE Types'
  <2>1. events' \in [Sides -> Seq(EventPacket)]
    BY <1>12, OneSequence, Packets DEF Types, SetHalfAccepted, NextEvent, Rest, Done
  <2>2. conn' \in [Sides -> Connection]
    BY <1>0, <1>12, ConnectionTypes DEF Types, SetHalfAccepted
  <2> QED
    BY <1>12, <2>1, <2>2 DEF Types, SetHalfAccepted
<1>18. ASSUME NEW s \in Sides, HandleConnRe(s) PROVE Types'
  <2>1. events' \in [Sides -> Seq(EventPacket)]
    BY <1>18, OneSequence, Packets DEF Types, HandleConnRe, NextEvent, Rest, Done
  <2>2. conn' \in [Sides -> Connection]
    BY <1>0, <1>18, ConnectionTypes DEF Types, HandleConnRe
  <2> QED
    BY <1>18, <2>1, <2>2 DEF Types, HandleConnRe
<1>19. ASSUME NEW s \in Sides, SetAccepted(s) PROVE Types'
  <2>1. events' \in [Sides -> Seq(EventPacket)]
    BY <1>19, OneSequence, Packets DEF Types, SetAccepted, NextEvent, Rest, Done
  <2>2. conn' \in [Sides -> Connection]
    BY <1>0, <1>19, ConnectionTypes DEF Types, SetAccepted
  <2> QED
    BY <1>19, <2>1, <2>2 DEF Types, SetAccepted
<1>13. ASSUME NEW s \in Sides, HandlePacket(s) PROVE Types'
  <2>1. events[s] # <<>> /\ Head(events[s]) \in EventPacket /\ Head(events[s]).pkt.kind = "Data"
    BY <1>0, <1>13 DEF HandlePacket, NextEvent
  <2>2. Head(events[s]).pkt \in MessagePacket
    BY <2>1, Packets
  <2>3. events' \in [Sides -> Seq(EventPacket)]
    BY <1>13, <2>1, OneSequence DEF Types, HandlePacket, Done
  <2>4. handled' \in [Sides -> Seq(MessagePacket)]
    BY <1>0, <1>13, <2>2, OneSequence DEF Types, HandlePacket
  <2> QED
    BY <1>13, <2>3, <2>4 DEF Types, HandlePacket
<1>14. ASSUME NEW s \in Sides, HandleDisconn(s) PROVE Types'
  <2>1. events' \in [Sides -> Seq(EventPacket)]
    BY <1>14, OneSequence DEF Types, HandleDisconn, NextEvent, Done
  <2>2. PostMortem(conn[s]) \in OtherPacket
    BY <1>0 DEF PostMortem, OtherPacket, Connection
  <2>3. other' \in [Sides -> Seq(OtherPacket)]
    <3>1. \/ other' = other
          \/ other' = [other EXCEPT ![Other(s)] = Append(other[Other(s)], PostMortem(conn[s]))]
      BY <1>14 DEF HandleDisconn
    <3>2. [other EXCEPT ![Other(s)] = Append(other[Other(s)], PostMortem(conn[s]))] \in [Sides -> Seq(OtherPacket)]
      BY <1>0, <2>2, OneSequence DEF Types
    <3> QED
      BY <3>1, <3>2 DEF Types
  <2>4. conn' \in [Sides -> Connection]
    <3>1. \/ conn' = conn
          \/ conn' = [conn EXCEPT ![s] = [conn[s] EXCEPT !.postMortemSent = TRUE]]
      BY <1>14 DEF HandleDisconn
    <3> QED
      BY <1>0, <3>1, ConnectionTypes DEF Types
  <2>5. msgConn' \in [Sides -> {"this", "other"}]
    BY <1>14 DEF Types, HandleDisconn
  <2> QED
    BY <1>14, <2>1, <2>3, <2>4, <2>5 DEF Types, HandleDisconn
<1>15. ASSUME UNCHANGED vars PROVE Types'
  BY <1>15 DEF Types, vars
<1> QED
  BY <1>1, <1>2, <1>3, <1>4, <1>5, <1>6, <1>7, <1>8, <1>9, <1>10, <1>11, <1>12, <1>13, <1>14, <1>15,
     <1>16, <1>17, <1>18, <1>19 DEF Next, NetworkThread, MainThread

-----------------------------------------------------------------------------
(* What the steps do *)

(* What counts packets, and what the rest is about. *)
Counts(c) == <<c.in, c.out, c.log>>
Being(c) == <<c.listed, c.live>>
Acceptance(c) == <<c.status, c.auto>>

(* The fields that the operations on a connection change. *)
LEMMA SendFields ==
    ASSUME NEW c \in Connection, NEW p, p.kind = "Data"
    PROVE  /\ Send(c, p).in = c.in /\ Send(c, p).out = c.out + 1 /\ Send(c, p).log = Append(c.log, p)
           /\ Being(Send(c, p)) = Being(c) /\ Acceptance(Send(c, p)) = Acceptance(c)
           /\ Send(c, p).postMortemSent = c.postMortemSent
BY DEF Send, Counted, Being, Acceptance, Connection

(* A connection that is closed, or that the network has lost, stays as it  *)
(* is apart from its status.                                               *)
LEMMA EndFields ==
    ASSUME NEW c \in Connection, NEW d \in {Close(c), Disconnected(c)}
    PROVE  /\ Counts(d) = Counts(c) /\ d.postMortemSent = c.postMortemSent /\ d.auto = c.auto
           /\ d.listed = c.listed
           /\ isClosed(d) /\ (isClosed(c) => d.status = c.status)
           /\ d.live \in BOOLEAN /\ (d.live => c.live /\ isClosed(c))
<1>1. CASE d = Close(c)
  BY <1>1 DEF Close, Counts, Connection, isClosed, Statuses
<1>2. CASE d = Disconnected(c)
  BY <1>2 DEF Disconnected, Counts, Connection, isClosed, isHalfAccepted, Statuses
<1> QED
  BY <1>1, <1>2

(* C4Network2IO::RemoveConnection takes a connection from the list and     *)
(* changes nothing else of it.                                             *)
LEMMA ForgetFields ==
    ASSUME NEW c \in Connection
    PROVE  LET d == [c EXCEPT !.listed = FALSE]
           IN  /\ Counts(d) = Counts(c) /\ Acceptance(d) = Acceptance(c)
               /\ d.postMortemSent = c.postMortemSent /\ d.live = c.live /\ d.listed = FALSE
BY DEF Counts, Acceptance, Connection

(* A connection that is accepted, or half accepted, changes nothing else.  *)
LEMMA AcceptFields ==
    ASSUME NEW c \in Connection, NEW status \in Statuses, NEW auto \in BOOLEAN,
           NEW d \in {[c EXCEPT !.status = status], [c EXCEPT !.status = status, !.auto = auto]}
    PROVE  /\ Counts(d) = Counts(c) /\ Being(d) = Being(c) /\ d.status = status
           /\ d.postMortemSent = c.postMortemSent
           /\ d = [c EXCEPT !.status = status] => d.auto = c.auto
           /\ d = [c EXCEPT !.status = status, !.auto = auto] => d.auto = auto
<1>1. CASE d = [c EXCEPT !.status = status]
  BY <1>1 DEF Counts, Being, Connection
<1>2. CASE d = [c EXCEPT !.status = status, !.auto = auto]
  BY <1>2 DEF Counts, Being, Connection
<1> QED
  BY <1>1, <1>2

(* A counted packet changes the number of the next one                     *)
(* (C4Network2IOConnection::OnPacketReceived).                             *)
LEMMA InFields ==
    ASSUME NEW c \in Connection
    PROVE  LET d == [c EXCEPT !.in = c.in + 1]
           IN  /\ d.in = c.in + 1 /\ d.out = c.out /\ d.log = c.log
               /\ Being(d) = Being(c) /\ Acceptance(d) = Acceptance(c)
               /\ d.postMortemSent = c.postMortemSent
BY DEF Being, Acceptance, Connection

(* CreatePostMortem notes that it was called. *)
LEMMA SentFields ==
    ASSUME NEW c \in Connection
    PROVE  LET d == [c EXCEPT !.postMortemSent = TRUE]
           IN  /\ Counts(d) = Counts(c) /\ Being(d) = Being(c) /\ Acceptance(d) = Acceptance(c)
               /\ d.postMortemSent = TRUE
BY DEF Being, Counts, Acceptance, Connection

(* A log that was sent completely loses some of its first packets: those   *)
(* before the number told, if there are any.                               *)
LEMMA ClearFields ==
    ASSUME NEW c \in Connection, NEW u \in Nat, u <= c.out, LogStart(c) >= 0
    PROVE  LET d == ClearPacketLog(c, u)
           IN  /\ \E m \in 0 .. Len(c.log) :
                    /\ Len(d.log) = Len(c.log) - m
                    /\ \A k \in 1 .. Len(c.log) - m : d.log[k] = c.log[k + m]
                    /\ LogStart(d) = LogStart(c) + m
               /\ LogStart(d) \in {LogStart(c), u}
               /\ d.in = c.in /\ d.out = c.out
               /\ Being(d) = Being(c) /\ Acceptance(d) = Acceptance(c)
               /\ d.postMortemSent = c.postMortemSent
<1> DEFINE d == ClearPacketLog(c, u)
           m == larger(0, u - LogStart(c))
<1>1. c.log \in Seq(MessagePacket) /\ c.out \in Nat /\ Len(c.log) \in Nat
  BY DEF Connection
<1>2. d.log = SubSeq(c.log, m + 1, Len(c.log)) /\ d.out = c.out /\ d.in = c.in
      /\ Being(d) = Being(c) /\ Acceptance(d) = Acceptance(c) /\ d.postMortemSent = c.postMortemSent
  BY DEF ClearPacketLog, Connection, Being, Acceptance
<1>3. m \in 0 .. Len(c.log) /\ (m = 0 \/ m = u - LogStart(c))
  BY <1>1 DEF larger, LogStart
<1> HIDE DEF d, m
<1>4. Len(d.log) = Len(c.log) - m /\ \A k \in 1 .. Len(c.log) - m : d.log[k] = c.log[k + m]
  BY <1>1, <1>2, <1>3
<1>5. LogStart(d) = LogStart(c) + m /\ LogStart(c) \in Int
  BY <1>1, <1>2, <1>3, <1>4 DEF LogStart
<1>6. LogStart(d) \in {LogStart(c), u}
  BY <1>3, <1>5
<1> QED
  BY <1>2, <1>3, <1>4, <1>5, <1>6 DEF d

(* What one side may do. *)
Action(s) ==
    \/ NetworkThread(s) \/ MainThread(s)
    \/ SendMessage(s) \/ SendPing(s) \/ OnDisconn(s) \/ CheckTimeout(s)

(* A side does not touch what the other one keeps. *)
LEMMA OwnSide ==
    ASSUME Types, NEW s \in Sides, Action(s)
    PROVE  LET o == Other(s)
           IN  /\ setting' = setting /\ conn'[o] = conn[o] /\ events'[o] = events[o]
               /\ handled'[o] = handled[o] /\ recovered'[o] = recovered[o]
               /\ msgConn'[o] = msgConn[o] /\ sent'[o] = sent[o]
<1> DEFINE o == Other(s)
<1>0. o \in Sides /\ o # s
  BY TwoSides
<1>1. setting' = setting
  BY DEF Action, NetworkThread, MainThread, SendMessage, SendPing, OnDisconn, CheckTimeout,
         ReceiveConn, ReceiveConnRe, ReceivePing, ReceiveData, ReceiveOther, ReceivePostMortem,
         RecoverPacket, RemoveConnection, HandleConn, SetHalfAccepted, HandleConnRe, SetAccepted,
         HandlePacket, HandleDisconn
<1> HIDE DEF o
<1>2. conn'[o] = conn[o]
  BY <1>0 DEF Types, Action, NetworkThread, MainThread, SendMessage, SendPing, OnDisconn, CheckTimeout,
         ReceiveConn, ReceiveConnRe, ReceivePing, ReceiveData, ReceiveOther, ReceivePostMortem,
         RecoverPacket, RemoveConnection, HandleConn, SetHalfAccepted, HandleConnRe, SetAccepted,
         HandlePacket, HandleDisconn
<1>3. events'[o] = events[o]
  BY <1>0 DEF Types, Action, NetworkThread, MainThread, SendMessage, SendPing, OnDisconn, CheckTimeout,
         ReceiveConn, ReceiveConnRe, ReceivePing, ReceiveData, ReceiveOther, ReceivePostMortem,
         RecoverPacket, RemoveConnection, HandleConn, SetHalfAccepted, HandleConnRe, SetAccepted,
         HandlePacket, HandleDisconn, Rest, Done
<1>4. handled'[o] = handled[o]
  BY <1>0 DEF Types, Action, NetworkThread, MainThread, SendMessage, SendPing, OnDisconn, CheckTimeout,
         ReceiveConn, ReceiveConnRe, ReceivePing, ReceiveData, ReceiveOther, ReceivePostMortem,
         RecoverPacket, RemoveConnection, HandleConn, SetHalfAccepted, HandleConnRe, SetAccepted,
         HandlePacket, HandleDisconn
<1>5. recovered'[o] = recovered[o] /\ msgConn'[o] = msgConn[o] /\ sent'[o] = sent[o]
  BY <1>0 DEF Types, Action, NetworkThread, MainThread, SendMessage, SendPing, OnDisconn, CheckTimeout,
         ReceiveConn, ReceiveConnRe, ReceivePing, ReceiveData, ReceiveOther, ReceivePostMortem,
         RecoverPacket, RemoveConnection, HandleConn, SetHalfAccepted, HandleConnRe, SetAccepted,
         HandlePacket, HandleDisconn
<1> QED
  BY <1>1, <1>2, <1>3, <1>4, <1>5 DEF o

(* What each step does, as seen by the two sides. *)
LEMMA SendMessageEffect ==
    ASSUME Types, NEW s \in Sides, SendMessage(s)
    PROVE  LET o == Other(s)
               c == conn[s]
               d == conn'[s]
               on == Way(s)
               p == NewPacket(s)
           IN  /\ on \in {"this", "other", "none"}
               /\ Len(sent[s]) + 1 \in 1 .. Len(setting.messages[s])
               /\ on # "none" => /\ on = msgConn[s] /\ p \in MessagePacket
                                 /\ p.kind = "Data" /\ p.nr = Len(sent[s]) + 1 /\ p.on = on
                                 /\ p.main = setting.messages[s][p.nr].main
                                 /\ p.number = IF on = "this" THEN c.out ELSE 0
               /\ on = "none" => msgConn[s] = "this"
               /\ sent'[s] = Append(sent[s], on)
               /\ on = "this" => d.out = c.out + 1 /\ d.log = Append(c.log, p)
               /\ on # "this" => d = c
               /\ d.in = c.in /\ Being(d) = Being(c) /\ Acceptance(d) = Acceptance(c)
               /\ d.postMortemSent = c.postMortemSent
               /\ wire'[s] = wire[s] /\ other'[s] = other[s]
               /\ wire'[o] = IF on = "this" /\ isOpen(c) /\ c.live THEN Append(wire[o], p) ELSE wire[o]
               /\ other'[o] = IF on = "other" THEN Append(other[o], p) ELSE other[o]
               /\ UNCHANGED <<events, msgConn, handled, recovered>>
<1> DEFINE o == Other(s)
<1>0. o \in Sides /\ o # s /\ conn[s] \in Connection
  BY TwoSides DEF Types
<1> DEFINE on == Way(s)
           p == NewPacket(s)
<1>1. LET n == Len(sent[s]) + 1 IN
        /\ on \in {"this", "other", "none"}
        /\ n \in 1 .. Len(setting.messages[s])
        /\ setting.messages[s][n].main \in BOOLEAN
        /\ on = "none" => msgConn[s] = "this"
        /\ on # "none" => on = msgConn[s] /\ p \in MessagePacket
        /\ p = Data(s, n, on, IF on = "this" THEN conn[s].out ELSE 0)
        /\ sent' = [sent EXCEPT ![s] = Append(sent[s], on)]
        /\ conn' = IF on = "this" THEN [conn EXCEPT ![s] = Send(conn[s], p)] ELSE conn
        /\ wire' = IF on = "this"
                   THEN [wire EXCEPT ![o] = IF isOpen(conn[s]) /\ conn[s].live
                                            THEN Append(wire[o], p) ELSE wire[o]]
                   ELSE wire
        /\ other' = IF on = "other" THEN [other EXCEPT ![o] = Append(other[o], p)] ELSE other
        /\ UNCHANGED <<setting, events, msgConn, handled, recovered>>
  BY Sends
<1> HIDE DEF on, p
<1>2. /\ p.kind = "Data" /\ p.nr = Len(sent[s]) + 1 /\ p.on = on
      /\ p.main = setting.messages[s][Len(sent[s]) + 1].main
      /\ p.number = IF on = "this" THEN conn[s].out ELSE 0
  BY <1>1 DEF Data
<1> HIDE DEF o
<1>3. conn'[s] = IF on = "this" THEN Send(conn[s], p) ELSE conn[s]
  BY <1>1 DEF Types
<1>4. /\ sent'[s] = Append(sent[s], on) /\ wire'[s] = wire[s] /\ other'[s] = other[s]
      /\ wire'[o] = IF on = "this" /\ isOpen(conn[s]) /\ conn[s].live THEN Append(wire[o], p) ELSE wire[o]
      /\ other'[o] = IF on = "other" THEN Append(other[o], p) ELSE other[o]
  BY <1>0, <1>1 DEF Types
<1>5. /\ Send(conn[s], p).in = conn[s].in /\ Send(conn[s], p).out = conn[s].out + 1
      /\ Send(conn[s], p).log = Append(conn[s].log, p)
      /\ Being(Send(conn[s], p)) = Being(conn[s]) /\ Acceptance(Send(conn[s], p)) = Acceptance(conn[s])
      /\ Send(conn[s], p).postMortemSent = conn[s].postMortemSent
  BY <1>0, <1>2, SendFields
<1>6. /\ Len(sent[s]) + 1 \in 1 .. Len(setting.messages[s])
      /\ on # "none" => /\ on = msgConn[s] /\ p \in MessagePacket
                        /\ p.kind = "Data" /\ p.nr = Len(sent[s]) + 1 /\ p.on = on
                        /\ p.main = setting.messages[s][p.nr].main
                        /\ p.number = IF on = "this" THEN conn[s].out ELSE 0
      /\ on = "none" => msgConn[s] = "this"
      /\ UNCHANGED <<events, msgConn, handled, recovered>>
  BY <1>1, <1>2
<1>7. /\ on = "this" => conn'[s].out = conn[s].out + 1 /\ conn'[s].log = Append(conn[s].log, p)
      /\ on # "this" => conn'[s] = conn[s]
      /\ conn'[s].in = conn[s].in /\ Being(conn'[s]) = Being(conn[s])
      /\ Acceptance(conn'[s]) = Acceptance(conn[s])
      /\ conn'[s].postMortemSent = conn[s].postMortemSent
  BY <1>3, <1>5
<1>8. on \in {"this", "other", "none"}
  BY <1>1
<1> QED
  BY <1>4, <1>6, <1>7, <1>8 DEF o, on, p

(* PID_Conn in the network thread: a side that trusts the other one        *)
(* accepts an open connection half and answers; the event is for the main  *)
(* thread in any case.                                                     *)
LEMMA ReceiveConnEffect ==
    ASSUME Types, NEW s \in Sides, ReceiveConn(s)
    PROVE  LET o == Other(s)
               c == conn[s]
               d == conn'[s]
           IN  /\ ~Busy(s) /\ c.live /\ c.listed /\ wire[s] # <<>> /\ wire[s][1].kind = "Conn"
               /\ Counts(d) = Counts(c) /\ Being(d) = Being(c) /\ d.postMortemSent = c.postMortemSent
               /\ IF isOpen(c) /\ setting.trusts[s]
                  THEN d.status = "HalfAccepted" /\ d.auto = TRUE
                  ELSE d = c
               /\ wire'[s] = Tail(wire[s])
               /\ wire'[o] = IF isOpen(c) /\ setting.trusts[s]
                             THEN Append(wire[o], Packet("ConnRe")) ELSE wire[o]
               /\ events'[s] = Append(events[s], Event(Packet("Conn"), "this"))
               /\ UNCHANGED <<other, msgConn, sent, handled, recovered>>
<1> DEFINE o == Other(s)
<1>0. o \in Sides /\ o # s /\ conn[s] \in Connection /\ wire[s] \in Seq(WirePacket) /\ wire[o] \in Seq(WirePacket)
  BY TwoSides DEF Types
<1>1. ~Busy(s) /\ conn[s].live /\ conn[s].listed /\ wire[s] # <<>> /\ Head(wire[s]).kind = "Conn"
  BY DEF ReceiveConn, Receives
<1>2. wire[s][1].kind = "Conn"
  BY <1>0, <1>1, AtFront
<1>3. wire[o] \o (IF isOpen(conn[s]) /\ setting.trusts[s] THEN OnWire(conn[s], Packet("ConnRe")) ELSE <<>>)
        = IF isOpen(conn[s]) /\ setting.trusts[s] THEN Append(wire[o], Packet("ConnRe")) ELSE wire[o]
  <2>1. isOpen(conn[s]) => OnWire(conn[s], Packet("ConnRe")) = <<Packet("ConnRe")>>
    BY <1>1 DEF OnWire
  <2>2. wire[o] \o <<Packet("ConnRe")>> = Append(wire[o], Packet("ConnRe")) /\ wire[o] \o <<>> = wire[o]
    BY <1>0, AtEnd
  <2> QED
    BY <2>1, <2>2
<1>4. wire' = [wire EXCEPT ![s] = Tail(wire[s]),
                          ![o] = wire[o] \o (IF isOpen(conn[s]) /\ setting.trusts[s]
                                             THEN OnWire(conn[s], Packet("ConnRe")) ELSE <<>>)]
  <2> HIDE DEF o
  <2> QED
    BY <1>0 DEF ReceiveConn, o, Types
<1>5. conn'[s] = IF isOpen(conn[s]) /\ setting.trusts[s]
                 THEN [conn[s] EXCEPT !.status = "HalfAccepted", !.auto = TRUE] ELSE conn[s]
  BY DEF ReceiveConn, Types
<1>6. LET d == [conn[s] EXCEPT !.status = "HalfAccepted", !.auto = TRUE]
      IN  /\ Counts(d) = Counts(conn[s]) /\ Being(d) = Being(conn[s])
          /\ d.postMortemSent = conn[s].postMortemSent /\ d.status = "HalfAccepted" /\ d.auto = TRUE
  BY <1>0 DEF Connection, Counts, Being
<1>7. /\ events'[s] = Append(events[s], Event(Packet("Conn"), "this"))
      /\ UNCHANGED <<other, msgConn, sent, handled, recovered>>
  BY DEF ReceiveConn, Types
<1> HIDE DEF o
<1>8. wire'[s] = Tail(wire[s])
      /\ wire'[o] = IF isOpen(conn[s]) /\ setting.trusts[s]
                             THEN Append(wire[o], Packet("ConnRe")) ELSE wire[o]
  BY <1>0, <1>3, <1>4 DEF Types
<1> QED
  BY <1>1, <1>2, <1>5, <1>6, <1>7, <1>8 DEF o

(* PID_ConnRe in the network thread: accepts what the thread itself had    *)
(* accepted half.                                                          *)
LEMMA ReceiveConnReEffect ==
    ASSUME Types, NEW s \in Sides, ReceiveConnRe(s)
    PROVE  LET o == Other(s)
               c == conn[s]
               d == conn'[s]
           IN  /\ ~Busy(s) /\ c.live /\ c.listed /\ wire[s] # <<>> /\ wire[s][1].kind = "ConnRe"
               /\ Counts(d) = Counts(c) /\ Being(d) = Being(c) /\ d.postMortemSent = c.postMortemSent
               /\ d.auto = c.auto
               /\ d.status = IF isHalfAccepted(c) /\ c.auto THEN "Accepted" ELSE c.status
               /\ wire'[s] = Tail(wire[s]) /\ wire'[o] = wire[o]
               /\ events'[s] = Append(events[s], Event(Packet("ConnRe"), "this"))
               /\ UNCHANGED <<other, msgConn, sent, handled, recovered>>
<1>0. /\ Other(s) # s /\ Other(s) \in Sides /\ conn[s] \in Connection /\ wire[s] \in Seq(WirePacket)
  BY TwoSides DEF Types
<1>1. ~Busy(s) /\ conn[s].live /\ conn[s].listed /\ wire[s] # <<>> /\ Head(wire[s]).kind = "ConnRe"
  BY DEF ReceiveConnRe, Receives
<1>2. wire[s][1].kind = "ConnRe"
  BY <1>0, <1>1, AtFront
<1>3. conn'[s] = IF isHalfAccepted(conn[s]) /\ conn[s].auto
                 THEN [conn[s] EXCEPT !.status = "Accepted"] ELSE conn[s]
  BY DEF ReceiveConnRe, Types
<1>4. LET d == [conn[s] EXCEPT !.status = "Accepted"]
      IN  /\ Counts(d) = Counts(conn[s]) /\ Being(d) = Being(conn[s])
          /\ d.postMortemSent = conn[s].postMortemSent /\ d.status = "Accepted" /\ d.auto = conn[s].auto
  BY <1>0 DEF Connection, Counts, Being
<1>5. /\ wire'[s] = Tail(wire[s]) /\ wire'[Other(s)] = wire[Other(s)]
      /\ events'[s] = Append(events[s], Event(Packet("ConnRe"), "this"))
      /\ UNCHANGED <<other, msgConn, sent, handled, recovered>>
  BY <1>0 DEF ReceiveConnRe, Types
<1> QED
  BY <1>1, <1>2, <1>3, <1>4, <1>5

(* PID_Ping: the log loses what the other side has. *)
LEMMA ReceivePingEffect ==
    ASSUME Types, NEW s \in Sides, ReceivePing(s)
    PROVE  LET o == Other(s)
               c == conn[s]
               d == conn'[s]
               u == wire[s][1].nr
           IN  /\ ~Busy(s) /\ c.live /\ c.listed /\ wire[s] # <<>> /\ wire[s][1].kind = "Ping" /\ u \in Nat
               /\ d = IF isOpen(c) THEN ClearPacketLog(c, u) ELSE c
               /\ wire'[s] = Tail(wire[s]) /\ wire'[o] = wire[o]
               /\ UNCHANGED <<other, events, msgConn, sent, handled, recovered>>
<1>0. /\ Other(s) # s /\ Other(s) \in Sides /\ conn[s] \in Connection /\ wire[s] \in Seq(WirePacket)
  BY TwoSides DEF Types
<1>1. ~Busy(s) /\ conn[s].live /\ conn[s].listed /\ wire[s] # <<>> /\ Head(wire[s]).kind = "Ping"
  BY DEF ReceivePing, Receives
<1>2. wire[s][1] = Head(wire[s]) /\ wire[s][1] \in WirePacket
  BY <1>0, <1>1, AtFront
<1>3. conn'[s] = IF isOpen(conn[s]) THEN ClearPacketLog(conn[s], Head(wire[s]).nr) ELSE conn[s]
  BY DEF ReceivePing, Types
<1>4. /\ wire'[s] = Tail(wire[s]) /\ wire'[Other(s)] = wire[Other(s)]
      /\ UNCHANGED <<other, events, msgConn, sent, handled, recovered>>
  BY <1>0 DEF ReceivePing, Types
<1> QED
  BY <1>1, <1>2, <1>3, <1>4, Packets

(* A message over the connection is counted, then handled by an accepted   *)
(* connection or passed on by one that is at least half accepted.          *)
LEMMA ReceiveDataEffect ==
    ASSUME Types, NEW s \in Sides, ReceiveData(s)
    PROVE  LET o == Other(s)
               c == conn[s]
               d == conn'[s]
               p == wire[s][1]
           IN  /\ ~Busy(s) /\ c.live /\ c.listed /\ wire[s] # <<>> /\ p.kind = "Data" /\ p \in MessagePacket
               /\ d.in = c.in + 1 /\ d.out = c.out /\ d.log = c.log
               /\ Being(d) = Being(c) /\ Acceptance(d) = Acceptance(c) /\ d.postMortemSent = c.postMortemSent
               /\ wire'[s] = Tail(wire[s]) /\ wire'[o] = wire[o]
               /\ handled'[s] = IF c.status = "Accepted" /\ ~p.main THEN Append(handled[s], p) ELSE handled[s]
               /\ events'[s] = IF isHalfAccepted(c) /\ p.main
                               THEN Append(events[s], Event(p, "this")) ELSE events[s]
               /\ UNCHANGED <<other, msgConn, sent, recovered>>
<1>0. /\ Other(s) # s /\ Other(s) \in Sides /\ conn[s] \in Connection /\ wire[s] \in Seq(WirePacket)
      /\ handled[s] \in Seq(MessagePacket) /\ events[s] \in Seq(EventPacket)
  BY TwoSides DEF Types
<1>1. ~Busy(s) /\ conn[s].live /\ conn[s].listed /\ wire[s] # <<>> /\ Head(wire[s]).kind = "Data"
  BY DEF ReceiveData, Receives
<1>2. wire[s][1] = Head(wire[s]) /\ wire[s][1] \in WirePacket
  BY <1>0, <1>1, AtFront
<1>3. conn'[s] = [conn[s] EXCEPT !.in = conn[s].in + 1]
  BY DEF ReceiveData, Types
<1>4. /\ wire'[s] = Tail(wire[s]) /\ wire'[Other(s)] = wire[Other(s)]
      /\ handled'[s] = handled[s] \o HandledByThread(conn[s], wire[s][1])
      /\ events'[s] = events[s] \o PassedOn(conn[s], wire[s][1])
      /\ UNCHANGED <<other, msgConn, sent, recovered>>
  BY <1>0, <1>2 DEF ReceiveData, Types
<1>5. LET p == wire[s][1]
      IN  /\ handled[s] \o HandledByThread(conn[s], p)
                = IF conn[s].status = "Accepted" /\ ~p.main THEN Append(handled[s], p) ELSE handled[s]
          /\ events[s] \o PassedOn(conn[s], p)
                = IF isHalfAccepted(conn[s]) /\ p.main THEN Append(events[s], Event(p, "this")) ELSE events[s]
  BY <1>0, AtEnd DEF HandledByThread, PassedOn
<1>6. wire[s][1].kind = "Data" /\ wire[s][1] \in MessagePacket
  BY <1>1, <1>2, Packets
<1> QED
  BY <1>0, <1>1, <1>3, <1>4, <1>5, <1>6, InFields

(* A message over the other connection is handled or passed on.            *)
LEMMA ReceiveOtherEffect ==
    ASSUME Types, NEW s \in Sides, ReceiveOther(s)
    PROVE  LET o == Other(s)
               p == other[s][1]
           IN  /\ ~Busy(s) /\ other[s] # <<>> /\ p.kind = "Data" /\ p \in MessagePacket
               /\ other'[s] = Tail(other[s]) /\ other'[o] = other[o]
               /\ handled'[s] = IF p.main THEN handled[s] ELSE Append(handled[s], p)
               /\ events'[s] = IF p.main THEN Append(events[s], Event(p, "other")) ELSE events[s]
               /\ UNCHANGED <<conn, wire, msgConn, sent, recovered>>
<1>0. /\ Other(s) # s /\ Other(s) \in Sides /\ other[s] \in Seq(OtherPacket)
  BY TwoSides DEF Types
<1>1. other[s] # <<>> /\ Head(other[s]).kind = "Data"
  BY DEF ReceiveOther
<1>2. other[s][1] = Head(other[s]) /\ other[s][1] \in OtherPacket
  BY <1>0, <1>1, AtFront
<1>3. other[s][1] \in MessagePacket
  BY <1>1, <1>2, Packets
<1>4. /\ other'[s] = Tail(other[s]) /\ other'[Other(s)] = other[Other(s)]
      /\ UNCHANGED <<conn, wire, msgConn, sent, recovered>>
  BY <1>0 DEF ReceiveOther, Types
<1>5. LET p == other[s][1]
      IN  /\ handled'[s] = IF p.main THEN handled[s] ELSE Append(handled[s], p)
          /\ events'[s] = IF p.main THEN Append(events[s], Event(p, "other")) ELSE events[s]
  BY <1>2 DEF ReceiveOther, Types
<1>6. ~Busy(s)
  BY <1>1 DEF Busy
<1> QED
  BY <1>1, <1>2, <1>3, <1>4, <1>5, <1>6

(* A post mortem: of a connection that is still listed the packets from    *)
(* the next number on are to be handled.                                   *)
LEMMA ReceivePostMortemEffect ==
    ASSUME Types, NEW s \in Sides, ReceivePostMortem(s)
    PROVE  LET o == Other(s)
               c == conn[s]
               pm == other[s][1]
           IN  /\ ~Busy(s) /\ other[s] # <<>> /\ pm.kind = "PostMortem"
               /\ other'[s] = IF c.listed THEN [other[s] EXCEPT ![1] = Recovery(PacketsFrom(pm, c.in))]
                              ELSE Tail(other[s])
               /\ other'[o] = other[o]
               /\ recovered'[s] = IF c.listed THEN c.status ELSE recovered[s]
               /\ UNCHANGED <<conn, wire, events, msgConn, sent, handled>>
<1>0. /\ Other(s) # s /\ Other(s) \in Sides /\ other[s] \in Seq(OtherPacket)
  BY TwoSides DEF Types
<1>1. other[s] # <<>> /\ Head(other[s]).kind = "PostMortem"
  BY DEF ReceivePostMortem
<1>2. other[s][1] = Head(other[s])
  BY <1>0, <1>1, AtFront
<1>3. /\ other'[s] = IF conn[s].listed
                     THEN [other[s] EXCEPT ![1] = Recovery(PacketsFrom(Head(other[s]), conn[s].in))]
                     ELSE Tail(other[s])
      /\ other'[Other(s)] = other[Other(s)]
  BY <1>0 DEF ReceivePostMortem, Types
<1>4. /\ recovered'[s] = IF conn[s].listed THEN conn[s].status ELSE recovered[s]
      /\ UNCHANGED <<conn, wire, events, msgConn, sent, handled>>
  BY <1>0 DEF ReceivePostMortem, Types
<1>6. ~Busy(s)
  BY <1>1 DEF Busy
<1> QED
  BY <1>1, <1>2, <1>3, <1>4, <1>6

(* One packet of a post mortem is handled or passed on as if it had come   *)
(* over the connection.                                                    *)
LEMMA RecoverPacketEffect ==
    ASSUME Types, NEW s \in Sides, RecoverPacket(s)
    PROVE  LET o == Other(s)
               c == conn[s]
               ps == Head(other[s]).packets
               p == ps[1]
           IN  /\ Busy(s) /\ other[s] # <<>> /\ ps \in Seq(MessagePacket) /\ ps # <<>> /\ p \in MessagePacket
               /\ other'[s] = [other[s] EXCEPT ![1] = Recovery(Tail(ps))]
               /\ other'[o] = other[o]
               /\ handled'[s] = IF c.status = "Accepted" /\ ~p.main THEN Append(handled[s], p) ELSE handled[s]
               /\ events'[s] = IF isHalfAccepted(c) /\ p.main
                               THEN Append(events[s], Event(p, "this")) ELSE events[s]
               /\ UNCHANGED <<conn, wire, msgConn, sent, recovered>>
<1> DEFINE ps == Head(other[s]).packets
<1>0. /\ Other(s) # s /\ Other(s) \in Sides /\ other[s] \in Seq(OtherPacket)
      /\ handled[s] \in Seq(MessagePacket) /\ events[s] \in Seq(EventPacket)
  BY TwoSides DEF Types
<1>1. Busy(s) /\ other[s] # <<>> /\ ps # <<>>
  BY DEF RecoverPacket, Busy
<1>2. Head(other[s]) \in OtherPacket /\ Head(other[s]).kind = "Recovery"
  BY <1>0, <1>1, AtFront DEF Busy
<1>3. ps \in Seq(MessagePacket)
  BY <1>2, Packets
<1>4. Head(ps) = ps[1] /\ ps[1] \in MessagePacket
  BY <1>1, <1>3, AtFront
<1>5. /\ other'[s] = [other[s] EXCEPT ![1] = Recovery(Tail(ps))] /\ other'[Other(s)] = other[Other(s)]
      /\ handled'[s] = handled[s] \o HandledByThread(conn[s], ps[1])
      /\ events'[s] = events[s] \o PassedOn(conn[s], ps[1])
      /\ UNCHANGED <<conn, wire, msgConn, sent, recovered>>
  BY <1>0, <1>4 DEF RecoverPacket, Types
<1> HIDE DEF ps
<1>6. LET p == ps[1]
      IN  /\ handled[s] \o HandledByThread(conn[s], p)
                = IF conn[s].status = "Accepted" /\ ~p.main THEN Append(handled[s], p) ELSE handled[s]
          /\ events[s] \o PassedOn(conn[s], p)
                = IF isHalfAccepted(conn[s]) /\ p.main THEN Append(events[s], Event(p, "this")) ELSE events[s]
  <2> DEFINE p == ps[1]
  <2>1. /\ handled[s] \o <<p>> = Append(handled[s], p) /\ handled[s] \o <<>> = handled[s]
        /\ events[s] \o <<Event(p, "this")>> = Append(events[s], Event(p, "this"))
        /\ events[s] \o <<>> = events[s]
    BY <1>0, AtEnd
  <2> HIDE DEF p
  <2>2. /\ HandledByThread(conn[s], p) = IF conn[s].status = "Accepted" /\ ~p.main THEN <<p>> ELSE <<>>
        /\ PassedOn(conn[s], p) = IF isHalfAccepted(conn[s]) /\ p.main THEN <<Event(p, "this")>> ELSE <<>>
    BY DEF HandledByThread, PassedOn
  <2> QED
    BY <2>1, <2>2 DEF p
<1> USE DEF ps
<1> QED
  BY <1>1, <1>3, <1>4, <1>5, <1>6

(* The connection is closed, fails or is forgotten. *)
LEMMA EndEffect ==
    ASSUME Types, Lives, NEW s \in Sides, RemoveConnection(s) \/ OnDisconn(s) \/ CheckTimeout(s)
    PROVE  LET o == Other(s)
               c == conn[s]
               d == conn'[s]
           IN  /\ Busy(s) <=> RemoveConnection(s)
               /\ Counts(d) = Counts(c) /\ d.postMortemSent = c.postMortemSent
               /\ d.live = FALSE /\ isClosed(d) /\ (isClosed(c) => d.status = c.status)
               /\ d.listed \in {FALSE, c.listed}
               /\ wire'[s] = <<>> /\ wire'[o] = wire[o]
               /\ other'[s] = IF RemoveConnection(s) THEN Tail(other[s]) ELSE other[s]
               /\ other'[o] = other[o]
               /\ RemoveConnection(s) => Head(other[s]).packets = <<>> /\ ~d.listed
               /\ events'[s] = IF c.live THEN Append(events[s], Disconn) ELSE events[s]
               /\ UNCHANGED <<msgConn, sent, handled, recovered>>
<1> DEFINE o == Other(s)
           c == conn[s]
           d == conn'[s]
<1>0. /\ o # s /\ o \in Sides /\ c \in Connection /\ events[s] \in Seq(EventPacket)
      /\ c.live \in BOOLEAN /\ (c.live => isOpen(c) /\ c.listed)
  BY TwoSides DEF Types, Lives, Living, Connection
<1>1. events[s] \o CloseEvents(c) = IF c.live THEN Append(events[s], Disconn) ELSE events[s]
  <2>1. events[s] \o <<Disconn>> = Append(events[s], Disconn) /\ events[s] \o <<>> = events[s]
    BY <1>0, AtEnd
  <2> QED
    BY <1>0, <2>1 DEF CloseEvents
<1>2. CASE RemoveConnection(s)
  <2>1. d = [Close(c) EXCEPT !.listed = FALSE] /\ Busy(s)
    BY <1>2 DEF RemoveConnection, Types
  <2>2. /\ Close(c) \in Connection /\ Counts(Close(c)) = Counts(c)
        /\ Close(c).postMortemSent = c.postMortemSent
        /\ Close(c).live \in BOOLEAN /\ (Close(c).live => c.live /\ isClosed(c))
        /\ isClosed(Close(c)) /\ (isClosed(c) => Close(c).status = c.status)
    BY <1>0, ConnectionTypes, EndFields
  <2>3. /\ Counts(d) = Counts(c) /\ d.postMortemSent = c.postMortemSent /\ d.listed = FALSE
        /\ d.live = FALSE /\ isClosed(d) /\ (isClosed(c) => d.status = c.status)
    BY <1>0, <2>1, <2>2, ForgetFields DEF isOpen, isClosed, Acceptance
  <2>4. /\ wire'[s] = <<>> /\ wire'[o] = wire[o] /\ other'[s] = Tail(other[s]) /\ other'[o] = other[o]
        /\ events'[s] = events[s] \o CloseEvents(c)
        /\ Head(other[s]).packets = <<>>
        /\ UNCHANGED <<msgConn, sent, handled, recovered>>
    BY <1>0, <1>2 DEF RemoveConnection, Types
  <2> QED
    BY <1>1, <1>2, <2>1, <2>3, <2>4
<1>3. CASE OnDisconn(s)
  <2>1. d = Disconnected(c) /\ ~Busy(s) /\ c.live
    BY <1>3 DEF OnDisconn, Types
  <2>2. /\ Counts(d) = Counts(c) /\ d.postMortemSent = c.postMortemSent /\ d.listed = c.listed
        /\ d.live = FALSE /\ isClosed(d) /\ (isClosed(c) => d.status = c.status)
    BY <1>0, <2>1, EndFields DEF isOpen
  <2>3. /\ wire'[s] = <<>> /\ wire'[o] = wire[o] /\ other' = other
        /\ events'[s] = Append(events[s], Disconn)
        /\ UNCHANGED <<msgConn, sent, handled, recovered>>
    BY <1>0, <1>3 DEF OnDisconn, Types
  <2>4. ~RemoveConnection(s)
    BY <2>1 DEF RemoveConnection
  <2> QED
    BY <2>1, <2>2, <2>3, <2>4
<1>4. CASE CheckTimeout(s)
  <2>1. d = (IF isOpen(c) THEN Close(c) ELSE [c EXCEPT !.listed = FALSE]) /\ ~Busy(s)
    BY <1>4 DEF CheckTimeout, Types
  <2>2. /\ Counts(d) = Counts(c) /\ d.postMortemSent = c.postMortemSent /\ d.listed \in {FALSE, c.listed}
        /\ d.live = FALSE /\ isClosed(d) /\ (isClosed(c) => d.status = c.status)
    <3>1. CASE isOpen(c)
      BY <1>0, <2>1, <3>1, EndFields DEF isOpen
    <3>2. CASE isClosed(c)
      BY <1>0, <2>1, <3>2, ForgetFields DEF isOpen, isClosed, Acceptance
    <3> QED
      BY <3>1, <3>2 DEF isOpen
  <2>3. /\ wire'[s] = <<>> /\ wire'[o] = wire[o] /\ other' = other
        /\ events'[s] = events[s] \o CloseEvents(c)
        /\ UNCHANGED <<msgConn, sent, handled, recovered>>
    BY <1>0, <1>4 DEF CheckTimeout, Types
  <2>4. ~RemoveConnection(s)
    BY <2>1 DEF RemoveConnection
  <2> QED
    BY <1>1, <2>1, <2>2, <2>3, <2>4
<1> QED
  BY <1>2, <1>3, <1>4

(* The ping tells the number of the packets received. *)
LEMMA SendPingEffect ==
    ASSUME Types, NEW s \in Sides, SendPing(s)
    PROVE  LET o == Other(s)
               c == conn[s]
               p == Ping(c.in)
           IN  /\ c.live /\ isOpen(c)
               /\ p \in WirePacket /\ p.kind = "Ping" /\ p.nr = c.in
               /\ wire'[s] = wire[s] /\ wire'[o] = Append(wire[o], p)
               /\ UNCHANGED <<conn, other, events, msgConn, sent, handled, recovered>>
<1>0. /\ Other(s) # s /\ Other(s) \in Sides /\ conn[s].in \in Nat
  BY TwoSides DEF Types, Connection
<1>1. Ping(conn[s].in) \in WirePacket /\ Ping(conn[s].in).kind = "Ping" /\ Ping(conn[s].in).nr = conn[s].in
  BY <1>0, Packets DEF Ping
<1>2. conn[s].live /\ isOpen(conn[s])
  BY DEF SendPing, OnWire
<1> QED
  BY <1>0, <1>1, <1>2 DEF SendPing, Types

(* HandleConn in the main thread answers a connection that the network     *)
(* thread has not accepted, and goes on to accept it half.                 *)
LEMMA HandleConnEffect ==
    ASSUME Types, NEW s \in Sides, HandleConn(s)
    PROVE  LET o == Other(s)
               c == conn[s]
               answers == c.status = "Connected"
           IN  /\ events[s] # <<>> /\ events[s][1].pkt.kind = "Conn"
               /\ wire'[s] = wire[s]
               /\ wire'[o] = IF answers /\ c.live THEN Append(wire[o], Packet("ConnRe")) ELSE wire[o]
               /\ events'[s] = IF answers
                               THEN [events[s] EXCEPT ![1] = Event(Packet("SetHalfAccepted"), "this")]
                               ELSE Tail(events[s])
               /\ UNCHANGED <<conn, other, msgConn, sent, handled, recovered>>
<1> DEFINE o == Other(s)
<1>0. /\ o # s /\ o \in Sides /\ wire[o] \in Seq(WirePacket) /\ events[s] \in Seq(EventPacket)
  BY TwoSides DEF Types
<1>1. events[s] # <<>> /\ events[s][1].pkt.kind = "Conn"
  BY <1>0, AtFront DEF HandleConn, NextEvent
<1>2. /\ wire'[s] = wire[s]
      /\ wire'[o] = wire[o] \o (IF conn[s].status = "Connected" THEN OnWire(conn[s], Packet("ConnRe")) ELSE <<>>)
  BY <1>0 DEF HandleConn, Types
<1>3. wire[o] \o (IF conn[s].status = "Connected" THEN OnWire(conn[s], Packet("ConnRe")) ELSE <<>>)
        = IF conn[s].status = "Connected" /\ conn[s].live THEN Append(wire[o], Packet("ConnRe")) ELSE wire[o]
  <2>1. conn[s].status = "Connected" /\ conn[s].live => OnWire(conn[s], Packet("ConnRe")) = <<Packet("ConnRe")>>
    BY DEF OnWire, isOpen, isClosed
  <2>3. ~conn[s].live => OnWire(conn[s], Packet("ConnRe")) = <<>>
    BY DEF OnWire
  <2>2. wire[o] \o <<Packet("ConnRe")>> = Append(wire[o], Packet("ConnRe")) /\ wire[o] \o <<>> = wire[o]
    BY <1>0, AtEnd
  <2> QED
    BY <2>1, <2>2, <2>3
<1>4. events'[s] = IF conn[s].status = "Connected"
                   THEN [events[s] EXCEPT ![1] = Event(Packet("SetHalfAccepted"), "this")]
                   ELSE Tail(events[s])
  BY <1>0 DEF HandleConn, Rest, Done, Types
<1>5. UNCHANGED <<conn, other, msgConn, sent, handled, recovered>>
  BY DEF HandleConn
<1> QED
  BY <1>1, <1>2, <1>3, <1>4, <1>5

(* The rest of HandleConn: accepts the connection half unless it is closed *)
(* by now.                                                                 *)
LEMMA SetHalfAcceptedEffect ==
    ASSUME Types, NEW s \in Sides, SetHalfAccepted(s)
    PROVE  LET c == conn[s]
               d == conn'[s]
           IN  /\ events[s] # <<>> /\ events[s][1].pkt.kind = "SetHalfAccepted"
               /\ Counts(d) = Counts(c) /\ Being(d) = Being(c) /\ d.postMortemSent = c.postMortemSent
               /\ d.status = IF isClosed(c) THEN c.status ELSE "HalfAccepted"
               /\ events'[s] = Tail(events[s])
               /\ UNCHANGED <<wire, other, msgConn, sent, handled, recovered>>
<1>0. conn[s] \in Connection /\ events[s] \in Seq(EventPacket)
  BY DEF Types
<1>1. events[s] # <<>> /\ events[s][1].pkt.kind = "SetHalfAccepted"
  BY <1>0, AtFront DEF SetHalfAccepted, NextEvent
<1>2. conn'[s] = IF isClosed(conn[s]) THEN conn[s] ELSE [conn[s] EXCEPT !.status = "HalfAccepted"]
  BY DEF SetHalfAccepted, Types
<1>3. LET d == [conn[s] EXCEPT !.status = "HalfAccepted"]
      IN  /\ Counts(d) = Counts(conn[s]) /\ Being(d) = Being(conn[s]) /\ d.status = "HalfAccepted"
          /\ d.postMortemSent = conn[s].postMortemSent
  BY <1>0 DEF Connection, Counts, Being
<1>4. events'[s] = Tail(events[s]) /\ UNCHANGED <<wire, other, msgConn, sent, handled, recovered>>
  BY DEF SetHalfAccepted, Done, Types
<1> QED
  BY <1>1, <1>2, <1>3, <1>4

(* HandleConnRe in the main thread goes on to accept an open connection    *)
(* that it has not accepted before.                                        *)
LEMMA HandleConnReEffect ==
    ASSUME Types, NEW s \in Sides, HandleConnRe(s)
    PROVE  LET c == conn[s]
           IN  /\ events[s] # <<>> /\ events[s][1].pkt.kind = "ConnRe"
               /\ events'[s] = IF isOpen(c) /\ ~(c.status = "Accepted" /\ ~c.auto)
                               THEN [events[s] EXCEPT ![1] = Event(Packet("SetAccepted"), "this")]
                               ELSE Tail(events[s])
               /\ UNCHANGED <<conn, wire, other, msgConn, sent, handled, recovered>>
<1>0. events[s] \in Seq(EventPacket)
  BY DEF Types
<1>1. events[s] # <<>> /\ events[s][1].pkt.kind = "ConnRe"
  BY <1>0, AtFront DEF HandleConnRe, NextEvent
<1> QED
  BY <1>1 DEF HandleConnRe, Rest, Done, Types

(* The rest of HandleConnRe: accepts the connection and makes it the one   *)
(* for messages, whatever has become of it.                                *)
LEMMA SetAcceptedEffect ==
    ASSUME Types, NEW s \in Sides, SetAccepted(s)
    PROVE  LET c == conn[s]
               d == conn'[s]
           IN  /\ events[s] # <<>> /\ events[s][1].pkt.kind = "SetAccepted"
               /\ Counts(d) = Counts(c) /\ Being(d) = Being(c) /\ d.postMortemSent = c.postMortemSent
               /\ d.status = "Accepted"
               /\ events'[s] = Tail(events[s]) /\ msgConn'[s] = "this"
               /\ UNCHANGED <<wire, other, sent, handled, recovered>>
<1>0. conn[s] \in Connection /\ events[s] \in Seq(EventPacket)
  BY DEF Types
<1>1. events[s] # <<>> /\ events[s][1].pkt.kind = "SetAccepted"
  BY <1>0, AtFront DEF SetAccepted, NextEvent
<1>2. conn'[s] = [conn[s] EXCEPT !.status = "Accepted", !.auto = FALSE]
  BY DEF SetAccepted, Types
<1>3. LET d == [conn[s] EXCEPT !.status = "Accepted", !.auto = FALSE]
      IN  /\ Counts(d) = Counts(conn[s]) /\ Being(d) = Being(conn[s]) /\ d.status = "Accepted"
          /\ d.postMortemSent = conn[s].postMortemSent
  BY <1>0 DEF Connection, Counts, Being
<1>4. events'[s] = Tail(events[s]) /\ msgConn'[s] = "this" /\ UNCHANGED <<wire, other, sent, handled, recovered>>
  BY DEF SetAccepted, Done, Types
<1> QED
  BY <1>1, <1>2, <1>3, <1>4

(* The main thread handles a message or drops it. *)
LEMMA HandlePacketEffect ==
    ASSUME Types, NEW s \in Sides, HandlePacket(s)
    PROVE  LET p == events[s][1].pkt
           IN  /\ events[s] # <<>> /\ p.kind = "Data" /\ p \in MessagePacket
               /\ handled'[s] \in {handled[s], Append(handled[s], p)}
               /\ events'[s] = Tail(events[s])
               /\ UNCHANGED <<conn, wire, other, msgConn, sent, recovered>>
<1>0. events[s] \in Seq(EventPacket)
  BY DEF Types
<1>1. events[s] # <<>> /\ Head(events[s]).pkt.kind = "Data"
  BY DEF HandlePacket, NextEvent
<1>2. Head(events[s]) = events[s][1] /\ events[s][1] \in EventPacket
  BY <1>0, <1>1, AtFront
<1>3. events[s][1].pkt \in MessagePacket
  BY <1>1, <1>2, Packets
<1> QED
  BY <1>1, <1>2, <1>3 DEF HandlePacket, Done, Types

(* OnDisconnect in the main thread: the messages go over the other         *)
(* connection from now on, and a post mortem tells what may be lost.       *)
LEMMA HandleDisconnEffect ==
    ASSUME Types, NEW s \in Sides, HandleDisconn(s)
    PROVE  LET o == Other(s)
               c == conn[s]
               d == conn'[s]
               sends == c.status # "ConnectFail" /\ CreatePostMortem(c)
           IN  /\ events[s] # <<>> /\ events[s][1].pkt.kind = "Disconn"
               /\ Counts(d) = Counts(c) /\ Being(d) = Being(c) /\ Acceptance(d) = Acceptance(c)
               /\ d.postMortemSent = IF sends THEN TRUE ELSE c.postMortemSent
               /\ other'[s] = other[s]
               /\ other'[o] = IF sends THEN Append(other[o], PostMortem(c)) ELSE other[o]
               /\ msgConn'[s] = IF c.status = "ConnectFail" THEN msgConn[s] ELSE "other"
               /\ events'[s] = Tail(events[s])
               /\ UNCHANGED <<wire, sent, handled, recovered>>
<1> DEFINE o == Other(s)
           c == conn[s]
           sends == c.status # "ConnectFail" /\ CreatePostMortem(c)
<1>0. /\ o # s /\ o \in Sides /\ c \in Connection /\ events[s] \in Seq(EventPacket)
  BY TwoSides DEF Types
<1>1. events[s] # <<>> /\ events[s][1].pkt.kind = "Disconn"
  BY <1>0, AtFront DEF HandleDisconn, NextEvent
<1>2. conn'[s] = IF sends THEN [c EXCEPT !.postMortemSent = TRUE] ELSE c
  BY DEF HandleDisconn, Types
<1>3. /\ other'[s] = other[s]
      /\ other'[o] = IF sends THEN Append(other[o], PostMortem(c)) ELSE other[o]
  BY <1>0 DEF HandleDisconn, Types
<1>4. /\ msgConn'[s] = IF c.status = "ConnectFail" THEN msgConn[s] ELSE "other"
      /\ events'[s] = Tail(events[s])
      /\ UNCHANGED <<wire, sent, handled, recovered>>
  BY DEF HandleDisconn, Done, Types
<1>5. Counts(conn'[s]) = Counts(c) /\ Being(conn'[s]) = Being(c) /\ Acceptance(conn'[s]) = Acceptance(c)
      /\ conn'[s].postMortemSent = IF sends THEN TRUE ELSE c.postMortemSent
  BY <1>0, <1>2, SentFields
<1> QED
  BY <1>1, <1>3, <1>4, <1>5

-----------------------------------------------------------------------------
(* The loss of the connection *)

(* What may happen to the events of a side, and to its connection. *)
LEMMA LivingSteps ==
    ASSUME NEW c \in Connection, NEW d \in Connection, NEW es \in Seq(EventPacket), Living(c, es),
           d.live => c.live /\ isOpen(d) /\ d.listed
    PROVE  /\ Living(d, es)
           /\ \A e \in EventPacket :
                e.pkt.kind \notin {"ConnRe", "SetAccepted", "Disconn"} \/ (c.live /\ e.pkt.kind # "Disconn")
                    => Living(d, Append(es, e))
           /\ c.live /\ ~d.live => Living(d, Append(es, Disconn))
           /\ es # <<>> => Living(d, Tail(es))
           /\ es # <<>> => \A e : e.pkt.kind # "Disconn" => Living(d, [es EXCEPT ![1] = e])
<1>1. Living(d, es)
  BY DEF Living
<1>2. ASSUME NEW e \in EventPacket,
             e.pkt.kind \notin {"ConnRe", "SetAccepted", "Disconn"} \/ (c.live /\ e.pkt.kind # "Disconn")
      PROVE  Living(d, Append(es, e))
  <2> DEFINE new == Append(es, e)
  <2>1. \A i \in DOMAIN new : (i \in DOMAIN es /\ new[i] = es[i]) \/ (i = Len(es) + 1 /\ new[i] = e)
    BY AtEnd
  <2>2. DOMAIN es = 1 .. Len(es) /\ DOMAIN new = 1 .. Len(es) + 1 /\ Len(es) \in Nat
    BY AtEnd
  <2> HIDE DEF new
  <2>3. ASSUME NEW i \in DOMAIN new, new[i].pkt.kind = "Disconn"
        PROVE  i \in DOMAIN es /\ es[i].pkt.kind = "Disconn" /\ ~c.live
               /\ \A j \in DOMAIN new : i < j => new[j].pkt.kind \notin {"ConnRe", "SetAccepted", "Disconn"}
    BY <1>2, <2>1, <2>2, <2>3 DEF Living
  <2>4. Living(d, new)
    BY <2>3 DEF Living
  <2> QED
    BY <2>4 DEF new
<1>3. ASSUME c.live, ~d.live PROVE Living(d, Append(es, Disconn))
  <2> DEFINE new == Append(es, Disconn)
  <2>1. \A i \in DOMAIN new : (i \in DOMAIN es /\ new[i] = es[i]) \/ i = Len(es) + 1
    BY AtEnd
  <2>2. DOMAIN es = 1 .. Len(es) /\ DOMAIN new = 1 .. Len(es) + 1 /\ Len(es) \in Nat
    BY AtEnd
  <2> HIDE DEF new
  <2>4. Living(d, new)
    BY <1>3, <2>1, <2>2 DEF Living
  <2> QED
    BY <2>4 DEF new
<1>4. ASSUME es # <<>> PROVE Living(d, Tail(es))
  <2> DEFINE new == Tail(es)
  <2>1. DOMAIN es = 1 .. Len(es) /\ DOMAIN new = 1 .. Len(es) - 1 /\ Len(es) \in Nat
        /\ \A i \in DOMAIN new : new[i] = es[i + 1]
    BY <1>4, AtFront
  <2> HIDE DEF new
  <2>4. Living(d, new)
    BY <2>1 DEF Living
  <2> QED
    BY <2>4 DEF new
<1>5. ASSUME es # <<>>, NEW e, e.pkt.kind # "Disconn" PROVE Living(d, [es EXCEPT ![1] = e])
  <2> DEFINE new == [es EXCEPT ![1] = e]
  <2>1. DOMAIN es = 1 .. Len(es) /\ DOMAIN new = DOMAIN es /\ Len(es) \in Nat /\ 1 \in DOMAIN es
        /\ new[1] = e /\ \A i \in DOMAIN new : i # 1 => new[i] = es[i]
    BY <1>5, AtFront
  <2> HIDE DEF new
  <2>4. Living(d, new)
    BY <1>5, <2>1 DEF Living
  <2> QED
    BY <2>4 DEF new
<1> QED
  BY <1>1, <1>2, <1>3, <1>4, <1>5

(* Clearing the log changes nothing else. *)
LEMMA PingFields ==
    ASSUME NEW c \in Connection, NEW u, NEW d \in {ClearPacketLog(c, u), c}
    PROVE  /\ d.in = c.in /\ d.out = c.out /\ Being(d) = Being(c) /\ Acceptance(d) = Acceptance(c)
           /\ d.postMortemSent = c.postMortemSent /\ d.status = c.status
BY DEF ClearPacketLog, Connection, Being, Acceptance

(* The network tells of a lost connection once, and after everything else  *)
(* it has to tell about the acceptance.                                    *)
LEMMA NextLives ==
    ASSUME Types, Types', Lives, NEW s \in Sides, Action(s)
    PROVE  Lives'
<1> DEFINE o == Other(s)
           c == conn[s]
           d == conn'[s]
           es == events[s]
           new == events'[s]
<1>0. /\ c \in Connection /\ d \in Connection /\ es \in Seq(EventPacket)
      /\ Living(c, es) /\ (c.live => isOpen(c) /\ c.listed)
  BY DEF Types, Lives, Living
<1>a. Living(d, new) => Lives'
  <2>1. o \in Sides /\ Sides = {s, o} /\ conn'[o] = conn[o] /\ events'[o] = events[o]
    BY TwoSides, OwnSide
  <2>2. Living(conn'[o], events'[o])
    BY <2>1 DEF Lives
  <2> QED
    BY <2>1, <2>2 DEF Lives
<1>b. \A e \in {Event(Packet("Conn"), "this"), Event(Packet("ConnRe"), "this"),
               Event(Packet("SetHalfAccepted"), "this"), Event(Packet("SetAccepted"), "this")} :
        e \in EventPacket /\ e.pkt.kind # "Disconn"
  BY Packets DEF Event, Packet
<1>c. \A p \in MessagePacket, by \in {"this", "other"} :
        Event(p, by) \in EventPacket /\ Event(p, by).pkt.kind = "Data"
  BY Packets DEF Event
(* The connection stays as it is, or is accepted. *)
<1>d. Being(d) = Being(c) /\ isOpen(d) => (d.live => c.live /\ isOpen(d) /\ d.listed)
  BY <1>0 DEF Being
<1>e. Being(d) = Being(c) /\ d.status = c.status => (d.live => c.live /\ isOpen(d) /\ d.listed)
  BY <1>0 DEF Being, isOpen, isClosed
<1>f. ASSUME d.live => c.live /\ isOpen(d) /\ d.listed
      PROVE  /\ Living(d, es)
             /\ \A p \in MessagePacket, by \in {"this", "other"} : Living(d, Append(es, Event(p, by)))
             /\ es # <<>> =>
                /\ Living(d, Tail(es))
                /\ Living(d, [es EXCEPT ![1] = Event(Packet("SetHalfAccepted"), "this")])
                /\ Living(d, [es EXCEPT ![1] = Event(Packet("SetAccepted"), "this")])
  <2> HIDE DEF c, d, es
  <2>1. \A p \in MessagePacket, by \in {"this", "other"} : Living(d, Append(es, Event(p, by)))
    BY <1>0, <1>c, <1>f, LivingSteps
  <2>2. Living(d, es) /\ (es # <<>> => Living(d, Tail(es)))
    BY <1>0, <1>f, LivingSteps
  <2>3. es # <<>> => \A e : e.pkt.kind # "Disconn" => Living(d, [es EXCEPT ![1] = e])
    BY <1>0, <1>f, LivingSteps
  <2> QED
    BY <1>b, <2>1, <2>2, <2>3
<1> HIDE DEF c, d, es, new
<1>1. CASE SendMessage(s)
  <2>1. new = es /\ Being(d) = Being(c) /\ d.status = c.status
    BY <1>1, SendMessageEffect DEF Acceptance, c, d, es, new
  <2> QED
    BY <1>0, <1>a, <1>e, <2>1, LivingSteps
<1>2. CASE SendPing(s)
  <2>1. new = es /\ d = c
    BY <1>2, SendPingEffect DEF c, d, es, new
  <2> QED
    BY <1>0, <1>a, <1>e, <2>1, LivingSteps
<1>3. CASE ReceiveConn(s)
  <2>1. /\ new = Append(es, Event(Packet("Conn"), "this")) /\ Being(d) = Being(c) /\ c.live
        /\ isOpen(d) \/ d.status = c.status
    BY <1>3, ReceiveConnEffect DEF c, d, es, new, isOpen, isClosed
  <2> QED
    BY <1>0, <1>a, <1>b, <1>d, <1>e, <2>1, LivingSteps
<1>4. CASE ReceiveConnRe(s)
  <2>1. /\ new = Append(es, Event(Packet("ConnRe"), "this")) /\ Being(d) = Being(c) /\ c.live
        /\ isOpen(d) \/ d.status = c.status
    BY <1>4, ReceiveConnReEffect DEF c, d, es, new, isOpen, isClosed
  <2> QED
    BY <1>0, <1>a, <1>b, <1>d, <1>e, <2>1, LivingSteps
<1>5. CASE ReceivePing(s)
  <2>1. new = es /\ Being(d) = Being(c) /\ d.status = c.status
    BY <1>0, <1>5, ReceivePingEffect, PingFields DEF c, d, es, new
  <2> QED
    BY <1>0, <1>a, <1>e, <2>1, LivingSteps
<1>6. CASE ReceiveData(s)
  <2>1. /\ Being(d) = Being(c) /\ d.status = c.status /\ c.live
        /\ new = es \/ \E p \in MessagePacket : new = Append(es, Event(p, "this"))
    BY <1>6, ReceiveDataEffect DEF Acceptance, c, d, es, new
  <2> QED
    BY <1>0, <1>a, <1>c, <1>e, <2>1, LivingSteps
<1>7. CASE ReceiveOther(s)
  <2>1. d = c /\ (new = es \/ \E p \in MessagePacket : new = Append(es, Event(p, "other")))
    BY <1>7, ReceiveOtherEffect DEF c, d, es, new
  <2> QED
    BY <1>0, <1>a, <1>d, <1>e, <1>f, <2>1
<1>8. CASE ReceivePostMortem(s)
  <2>1. new = es /\ d = c
    BY <1>8, ReceivePostMortemEffect DEF c, d, es, new
  <2> QED
    BY <1>0, <1>a, <1>e, <2>1, LivingSteps
<1>9. CASE RecoverPacket(s)
  <2>1. d = c /\ (new = es \/ \E p \in MessagePacket : new = Append(es, Event(p, "this")))
    BY <1>9, RecoverPacketEffect DEF c, d, es, new
  <2> QED
    BY <1>0, <1>a, <1>d, <1>e, <1>f, <2>1
<1>10. CASE RemoveConnection(s) \/ OnDisconn(s) \/ CheckTimeout(s)
  <2>1. /\ d.live = FALSE /\ new = IF c.live THEN Append(es, Disconn) ELSE es
    BY <1>10, EndEffect DEF c, d, es, new
  <2> QED
    BY <1>0, <1>a, <2>1, LivingSteps
<1>11. CASE HandleConn(s)
  <2>1. /\ d = c /\ es # <<>>
        /\ new \in {Tail(es), [es EXCEPT ![1] = Event(Packet("SetHalfAccepted"), "this")]}
    BY <1>11, HandleConnEffect DEF c, d, es, new
  <2> QED
    BY <1>0, <1>a, <1>d, <1>e, <1>f, <2>1
<1>12. CASE SetHalfAccepted(s)
  <2>1. Being(d) = Being(c) /\ es # <<>> /\ new = Tail(es) /\ (isOpen(d) \/ d.status = c.status)
    BY <1>12, SetHalfAcceptedEffect DEF c, d, es, new, isOpen, isClosed
  <2> QED
    BY <1>0, <1>a, <1>d, <1>e, <1>f, <2>1
<1>13. CASE HandleConnRe(s)
  <2>1. /\ d = c /\ es # <<>>
        /\ new \in {Tail(es), [es EXCEPT ![1] = Event(Packet("SetAccepted"), "this")]}
    BY <1>13, HandleConnReEffect DEF c, d, es, new
  <2> QED
    BY <1>0, <1>a, <1>d, <1>e, <1>f, <2>1
<1>14. CASE SetAccepted(s)
  <2>1. /\ Being(d) = Being(c) /\ es # <<>> /\ new = Tail(es) /\ isOpen(d)
    BY <1>14, SetAcceptedEffect DEF c, d, es, new, isOpen, isClosed
  <2> QED
    BY <1>0, <1>a, <1>d, <2>1, LivingSteps
<1>15. CASE HandlePacket(s)
  <2>1. /\ d = c /\ es # <<>> /\ new = Tail(es)
    BY <1>15, HandlePacketEffect DEF c, d, es, new
  <2> QED
    BY <1>0, <1>a, <1>e, <2>1, LivingSteps
<1>16. CASE HandleDisconn(s)
  <2>1. /\ Being(d) = Being(c) /\ d.status = c.status /\ es # <<>> /\ new = Tail(es)
    BY <1>16, HandleDisconnEffect DEF c, d, es, new, Acceptance
  <2> QED
    BY <1>0, <1>a, <1>e, <2>1, LivingSteps
<1> QED
  BY <1>1, <1>2, <1>3, <1>4, <1>5, <1>6, <1>7, <1>8, <1>9, <1>10, <1>11, <1>12, <1>13, <1>14, <1>15,
     <1>16 DEF Action, NetworkThread, MainThread

-----------------------------------------------------------------------------
(* The log, and what is on its way *)

(* Steps but these three neither send, nor receive, nor forget packets. *)
LEMMA CountsKept ==
    ASSUME Types, Lives, NEW s \in Sides, Action(s),
           ~SendMessage(s), ~ReceivePing(s), ~ReceiveData(s)
    PROVE  Counts(conn'[s]) = Counts(conn[s]) /\ sent' = sent
<1>1. CASE RemoveConnection(s) \/ OnDisconn(s) \/ CheckTimeout(s)
  BY <1>1, EndEffect
<1>2. CASE SendPing(s) \/ ReceiveOther(s) \/ ReceivePostMortem(s) \/ RecoverPacket(s)
  BY <1>2, SendPingEffect, ReceiveOtherEffect, ReceivePostMortemEffect, RecoverPacketEffect
<1>3. CASE ReceiveConn(s) \/ ReceiveConnRe(s)
  BY <1>3, ReceiveConnEffect, ReceiveConnReEffect
<1>4. CASE HandleConn(s) \/ HandleConnRe(s) \/ HandlePacket(s)
  BY <1>4, HandleConnEffect, HandleConnReEffect, HandlePacketEffect
<1>5. CASE SetHalfAccepted(s) \/ SetAccepted(s) \/ HandleDisconn(s)
  BY <1>5, SetHalfAcceptedEffect, SetAcceptedEffect, HandleDisconnEffect
<1> QED
  BY <1>1, <1>2, <1>3, <1>4, <1>5 DEF Action, NetworkThread, MainThread

(* Logs that grow at the end and shrink at the front. *)
LEMMA LogAppend ==
    ASSUME NEW log \in Seq(MessagePacket), NEW p \in MessagePacket, NEW first \in Nat
    PROVE  /\ Numbered(log, first) /\ p.number = first + Len(log) /\ p.on = "this" =>
                Numbered(Append(log, p), first)
           /\ Rising(log) /\ (\A k \in DOMAIN log : log[k].nr < p.nr) => Rising(Append(log, p))
<1> DEFINE new == Append(log, p)
<1>1. /\ DOMAIN log = 1 .. Len(log) /\ DOMAIN new = 1 .. Len(log) + 1 /\ Len(log) \in Nat
      /\ new[Len(log) + 1] = p /\ \A k \in 1 .. Len(log) : new[k] = log[k]
  BY AtEnd
<1> HIDE DEF new
<1>2. ASSUME Numbered(log, first), p.number = first + Len(log), p.on = "this"
      PROVE  Numbered(new, first)
  <2> SUFFICES ASSUME NEW k \in 1 .. Len(log) + 1
               PROVE  new[k].number = first + k - 1 /\ new[k].on = "this"
    BY <1>1 DEF Numbered
  <2>1. CASE k \in 1 .. Len(log)
    <3>1. new[k] = log[k] /\ log[k].number = first + k - 1 /\ log[k].on = "this"
      BY <1>1, <1>2, <2>1 DEF Numbered
    <3> QED
      BY <3>1
  <2>2. CASE k = Len(log) + 1
    BY <1>1, <1>2, <2>2
  <2> QED
    BY <1>1, <2>1, <2>2
<1>3. ASSUME Rising(log), \A k \in DOMAIN log : log[k].nr < p.nr
      PROVE  Rising(new)
  BY <1>1, <1>3 DEF Rising
<1> QED
  BY <1>2, <1>3 DEF new

(* A log that loses its first packets keeps the numbers and the order of   *)
(* the others.                                                             *)
LEMMA LogShrinks ==
    ASSUME NEW log \in Seq(MessagePacket), NEW new \in Seq(MessagePacket),
           NEW first \in Nat, NEW m \in 0 .. Len(log),
           Len(new) = Len(log) - m, \A k \in 1 .. Len(log) - m : new[k] = log[k + m]
    PROVE  /\ Numbered(log, first) => Numbered(new, first + m)
           /\ Rising(log) => Rising(new)
<1>1. DOMAIN log = 1 .. Len(log) /\ DOMAIN new = 1 .. Len(log) - m /\ Len(log) \in Nat
  OBVIOUS
<1>2. ASSUME Numbered(log, first)
      PROVE  Numbered(new, first + m)
  <2> SUFFICES ASSUME NEW k \in 1 .. Len(log) - m
               PROVE  new[k].number = first + m + k - 1 /\ new[k].on = "this"
    BY <1>1 DEF Numbered
  <2>1. k + m \in 1 .. Len(log) /\ new[k] = log[k + m]
    BY <1>1
  <2>2. log[k + m].number = first + (k + m) - 1 /\ log[k + m].on = "this"
    BY <1>1, <1>2, <2>1 DEF Numbered
  <2> QED
    BY <2>1, <2>2
<1>3. ASSUME Rising(log)
      PROVE  Rising(new)
  <2> SUFFICES ASSUME NEW k \in 1 .. Len(log) - m, NEW l \in 1 .. Len(log) - m, k < l
               PROVE  new[k].nr < new[l].nr
    BY <1>1 DEF Rising
  <2>1. k + m \in 1 .. Len(log) /\ l + m \in 1 .. Len(log) /\ k + m < l + m
        /\ new[k] = log[k + m] /\ new[l] = log[l + m]
    BY <1>1
  <2> QED
    BY <1>1, <1>3, <2>1 DEF Rising
<1> QED
  BY <1>2, <1>3

(* The log when a packet is sent, packets are known to have arrived, and   *)
(* one is received.                                                        *)
LEMMA LoggedSend ==
    ASSUME NEW c \in Connection, NEW d \in Connection, NEW c1 \in Connection, NEW p \in MessagePacket,
           Logged(c, d), c1.out = c.out + 1, c1.log = Append(c.log, p), c1.in = c.in,
           p.number = c.out, p.on = "this", \A k \in DOMAIN c.log : c.log[k].nr < p.nr
    PROVE  Logged(c1, d) /\ LogStart(c1) = LogStart(c) /\ p = c1.log[c.out - LogStart(c) + 1]
<1>1. /\ c.log \in Seq(MessagePacket) /\ Len(c.log) \in Nat /\ c.out \in Nat /\ d.in \in Nat
  BY DEF Connection
<1>2. Len(c1.log) = Len(c.log) + 1 /\ p = c1.log[Len(c.log) + 1]
  BY <1>1, AtEnd
<1>3. LogStart(c1) = LogStart(c) /\ LogStart(c) = c.out - Len(c.log)
  BY <1>1, <1>2 DEF LogStart
<1>4. LogStart(c) \in Nat /\ LogStart(c) <= d.in /\ d.in <= c.out
  BY <1>1 DEF Logged
<1>5. Numbered(c1.log, LogStart(c)) /\ Rising(c1.log)
  BY <1>1, <1>3, <1>4, LogAppend DEF Logged
<1> QED
  BY <1>1, <1>2, <1>3, <1>4, <1>5 DEF Logged

(* ClearPacketLog does not take what the other side has not told it has.   *)
LEMMA LoggedClear ==
    ASSUME NEW c \in Connection, NEW d \in Connection, NEW u \in Nat, Logged(c, d), u <= d.in
    PROVE  Logged(ClearPacketLog(c, u), d)
<1> DEFINE e == ClearPacketLog(c, u)
<1>1. /\ c.log \in Seq(MessagePacket) /\ Len(c.log) \in Nat /\ c.out \in Nat /\ d.in \in Nat
      /\ LogStart(c) \in Nat /\ LogStart(c) <= d.in /\ d.in <= c.out
  BY DEF Connection, Logged
<1>2. e \in Connection
  BY ConnectionTypes
<1>3. u <= c.out
  BY <1>1
<1>c. LogStart(c) >= 0
  BY <1>1
<1>d. \E m \in 0 .. Len(c.log) :
        /\ Len(ClearPacketLog(c, u).log) = Len(c.log) - m
        /\ \A k \in 1 .. Len(c.log) - m : ClearPacketLog(c, u).log[k] = c.log[k + m]
        /\ LogStart(ClearPacketLog(c, u)) = LogStart(c) + m
  BY <1>3, <1>c, ClearFields
<1>4. PICK m \in 0 .. Len(c.log) :
        /\ Len(e.log) = Len(c.log) - m
        /\ \A k \in 1 .. Len(c.log) - m : e.log[k] = c.log[k + m]
        /\ LogStart(e) = LogStart(c) + m
  BY <1>d
<1>5. LogStart(e) \in {LogStart(c), u} /\ e.out = c.out
  BY <1>3, <1>c, ClearFields
<1> HIDE DEF e
<1>6. e.log \in Seq(MessagePacket)
  BY <1>2 DEF Connection
<1>7. Numbered(e.log, LogStart(e)) /\ Rising(e.log)
  BY <1>1, <1>4, <1>6, LogShrinks DEF Logged
<1> QED
  BY <1>1, <1>5, <1>7 DEF Logged, e

(* A step that leaves the log alone leaves it right; the other side may    *)
(* count one packet that was sent.                                         *)
LEMMA LoggedSame ==
    ASSUME NEW c, NEW d, NEW c1, NEW d1, Logged(c, d),
           Counts(c1) = Counts(c), d1.in = d.in \/ (d1.in = d.in + 1 /\ d.in < c.out),
           d.in \in Nat, c.out \in Nat
    PROVE  Logged(c1, d1)
BY DEF Logged, Counts, LogStart

(* The first packet on its way is the next one. *)
LEMMA NextOne ==
    ASSUME NEW c \in Connection, NEW d \in Connection, NEW w \in Seq(WirePacket), w # <<>>,
           OnItsWay(w, c, d), c.live, w[1].kind = "Data"
    PROVE  w[1].number = c.in /\ c.in < d.out
<1>1. 1 \in DOMAIN w /\ DOMAIN w = 1 .. Len(w) /\ Len(w) \in Nat /\ c.in \in Nat /\ d.out \in Nat
  BY AtFront DEF Connection
<1>2. w[1].number \in c.in .. d.out - 1
  BY <1>1 DEF OnItsWay
<1>3. ASSUME c.in < w[1].number PROVE FALSE
  <2>1. PICK j \in DOMAIN w : w[j].kind = "Data" /\ w[j].number = c.in
    BY <1>1, <1>2, <1>3 DEF OnItsWay, Comes
  <2>2. j # 1 /\ 1 < j
    BY <1>1, <1>3, <2>1
  <2>3. w[1].number < w[j].number
    BY <1>1, <2>1, <2>2 DEF OnItsWay
  <2> QED
    BY <1>1, <1>2, <1>3, <2>1, <2>3
<1> QED
  BY <1>1, <1>2, <1>3

(* Every step keeps the logs right. *)
LEMMA NextLogs ==
    ASSUME Types, Types', Lives, Genuine, Logs, Wires, NEW s \in Sides, Action(s)
    PROVE  Logs'
<1> DEFINE o == Other(s)
           c == conn[s]
           d == conn'[s]
           e == conn[o]
<1>0. /\ o # s /\ o \in Sides /\ Other(o) = s /\ Sides = {s, o}
      /\ c \in Connection /\ d \in Connection /\ e \in Connection
      /\ wire[s] \in Seq(WirePacket) /\ OnItsWay(wire[s], c, e) /\ Logged(c, e) /\ Logged(e, c)
      /\ c.out <= Len(sent[s]) /\ e.out <= Len(sent[o])
      /\ conn'[o] = e /\ sent'[o] = sent[o]
      /\ c.in \in Nat /\ c.out \in Nat /\ e.in \in Nat /\ e.out \in Nat /\ Len(sent[s]) \in Nat
  <2>1. /\ o # s /\ o \in Sides /\ Other(o) = s /\ Sides = {s, o} /\ conn'[o] = e /\ sent'[o] = sent[o]
    BY TwoSides, OwnSide
  <2>2. /\ c \in Connection /\ d \in Connection /\ e \in Connection /\ wire[s] \in Seq(WirePacket)
        /\ Len(sent[s]) \in Nat
    BY <2>1 DEF Types
  <2> HIDE DEF o, d
  <2>3. /\ OnItsWay(wire[s], c, e) /\ Logged(c, e) /\ Logged(e, c)
        /\ c.out <= Len(sent[s]) /\ e.out <= Len(sent[o])
    BY <2>1 DEF Wires, Logs, o
  <2> QED
    BY <2>1, <2>2, <2>3 DEF Connection, o
<1>a. Logged(d, e) /\ Logged(e, d) /\ d.out <= Len(sent'[s]) => Logs'
  BY <1>0 DEF Logs
<1> HIDE DEF c, d, e
<1>1. CASE SendMessage(s)
  <2> DEFINE on == Way(s)
             p == NewPacket(s)
  <2>1. /\ on \in {"this", "other", "none"}
        /\ on = "this" => /\ p \in MessagePacket /\ p.nr = Len(sent[s]) + 1 /\ p.on = "this"
                          /\ p.number = c.out /\ d.out = c.out + 1 /\ d.log = Append(c.log, p)
        /\ sent'[s] = Append(sent[s], on)
        /\ on # "this" => d = c
        /\ d.in = c.in
    BY <1>1, SendMessageEffect DEF c, d
  <2> HIDE DEF on, p
  <2>2. Len(sent'[s]) = Len(sent[s]) + 1
    BY <2>1, AtEnd DEF Types
  <2>3. \A k \in DOMAIN c.log : c.log[k].nr <= Len(sent[s])
    <3>1. \A p1 \in SentBy(s) : p1.nr <= Len(sent[s])
      BY <1>0 DEF SentBy
    <3>2. c.log \in Seq(SentBy(s))
      BY DEF c, Genuine
    <3> QED
      BY <3>1, <3>2
  <2>4. c.log \in Seq(MessagePacket) /\ \A k \in DOMAIN c.log : c.log[k].nr \in Nat
    BY <1>0, Packets DEF Connection
  <2>5. CASE on = "this"
    <3>1. p.nr = Len(sent[s]) + 1 /\ Len(sent[s]) \in Nat
      BY <1>0, <2>1, <2>5
    <3>4. \A k \in DOMAIN c.log : c.log[k].nr < p.nr
      BY <2>3, <2>4, <3>1
    <3>2. Logged(d, e)
      BY <1>0, <2>1, <2>5, <3>4, LoggedSend
    <3>3. Logged(e, d)
      BY <1>0, <2>1, LoggedSame
    <3> QED
      BY <1>0, <1>a, <2>1, <2>2, <2>5, <3>2, <3>3
  <2> QED
    BY <1>0, <1>a, <2>1, <2>2, <2>5
<1>2. CASE ReceivePing(s)
  <2> DEFINE u == wire[s][1].nr
  <2>1. /\ wire[s] # <<>> /\ wire[s][1].kind = "Ping" /\ u \in Nat
        /\ d \in {ClearPacketLog(c, u), c} /\ sent' = sent
    BY <1>2, ReceivePingEffect DEF c, d
  <2>2. u <= e.in
    BY <1>0, <2>1, AtFront DEF OnItsWay
  <2> HIDE DEF u
  <2>3. Logged(d, e)
    BY <1>0, <2>1, <2>2, LoggedClear
  <2>4. d.in = c.in /\ d.out = c.out
    BY <1>0, <2>1, PingFields
  <2> QED
    BY <1>0, <1>a, <2>1, <2>3, <2>4, LoggedSame
<1>3. CASE ReceiveData(s)
  <2>1. /\ d.in = c.in + 1 /\ d.out = c.out /\ d.log = c.log /\ sent' = sent
        /\ wire[s] # <<>> /\ wire[s][1].kind = "Data" /\ c.live
    BY <1>3, ReceiveDataEffect DEF c, d
  <2>2. c.in < e.out
    BY <1>0, <2>1, NextOne
  <2>3. Logged(e, d)
    BY <1>0, <2>1, <2>2, LoggedSame
  <2>4. Logged(d, e)
    BY <1>0, <2>1 DEF Logged, LogStart
  <2> QED
    BY <1>0, <1>a, <2>1, <2>3, <2>4
<1>4. CASE ~SendMessage(s) /\ ~ReceivePing(s) /\ ~ReceiveData(s)
  <2>1. Counts(d) = Counts(c) /\ sent' = sent
    BY <1>4, CountsKept DEF c, d
  <2>2. d.in = c.in /\ d.out = c.out
    BY <2>1 DEF Counts
  <2> QED
    BY <1>0, <1>a, <2>1, <2>2, LoggedSame
<1> QED
  BY <1>1, <1>2, <1>3, <1>4

(* What the wire holds when the connections change, and when a packet is   *)
(* sent or arrives.                                                        *)
LEMMA WireSame ==
    ASSUME NEW w, NEW c, NEW d, NEW c1, NEW d1, OnItsWay(w, c, d),
           c1.in = c.in, c1.live => c.live, d1.out = d.out, d1.log = d.log, d1.live => d.live,
           \A i \in DOMAIN w : w[i].kind = "Ping" => w[i].nr <= d1.in
    PROVE  OnItsWay(w, c1, d1)
BY DEF OnItsWay, LogStart

(* Nothing is on its way to a side that has lost the connection.           *)
LEMMA WireEmpty ==
    ASSUME NEW c, NEW d, ~c.live
    PROVE  OnItsWay(<<>>, c, d)
BY DEF OnItsWay

(* A packet that is not counted is received: the others come as before.    *)
LEMMA WireTail ==
    ASSUME NEW w \in Seq(WirePacket), NEW c, NEW d, OnItsWay(w, c, d), w # <<>>, w[1].kind # "Data"
    PROVE  OnItsWay(Tail(w), c, d)
<1> DEFINE t == Tail(w)
<1>1. DOMAIN w = 1 .. Len(w) /\ DOMAIN t = 1 .. Len(w) - 1 /\ Len(w) \in Nat
      /\ \A i \in 1 .. Len(w) - 1 : t[i] = w[i + 1]
  BY AtFront
<1> HIDE DEF t
<1>2. \A i \in DOMAIN t : i + 1 \in DOMAIN w /\ t[i] = w[i + 1]
  BY <1>1
<1>3. ASSUME NEW n, Comes(w, n) PROVE Comes(t, n)
  <2>1. PICK j \in DOMAIN w : w[j].kind = "Data" /\ w[j].number = n
    BY <1>3 DEF Comes
  <2>2. j - 1 \in DOMAIN t /\ t[j - 1] = w[j]
    BY <1>1, <2>1
  <2> QED
    BY <2>1, <2>2 DEF Comes
<1>4. \A i \in DOMAIN t : t[i].kind = "Data" =>
        t[i].number \in c.in .. d.out - 1 /\ t[i] = d.log[t[i].number - LogStart(d) + 1]
  BY <1>2 DEF OnItsWay
<1>5. \A i, j \in DOMAIN t : t[i].kind = "Data" /\ t[j].kind = "Data" /\ i < j => t[i].number < t[j].number
  <2> SUFFICES ASSUME NEW i \in DOMAIN t, NEW j \in DOMAIN t, t[i].kind = "Data", t[j].kind = "Data", i < j
               PROVE  t[i].number < t[j].number
    OBVIOUS
  <2>1. i + 1 < j + 1
    BY <1>1
  <2> QED
    BY <1>2, <2>1 DEF OnItsWay
<1>6. \A i \in DOMAIN t : t[i].kind = "Ping" => t[i].nr <= d.in
  BY <1>2 DEF OnItsWay
<1>7. c.live => \A n \in c.in .. d.out - 1 :
            /\ d.live => Comes(t, n)
            /\ \A i \in DOMAIN t : t[i].kind = "Data" /\ n < t[i].number => Comes(t, n)
  BY <1>2, <1>3 DEF OnItsWay
<1>8. OnItsWay(t, c, d)
  BY <1>4, <1>5, <1>6, <1>7 DEF OnItsWay
<1> QED
  BY <1>8 DEF t

(* A packet that is not counted is sent. *)
LEMMA WireAppend ==
    ASSUME NEW w \in Seq(WirePacket), NEW c, NEW d, OnItsWay(w, c, d),
           NEW p \in WirePacket, p.kind # "Data", p.kind = "Ping" => p.nr <= d.in
    PROVE  OnItsWay(Append(w, p), c, d)
<1> DEFINE t == Append(w, p)
<1>1. DOMAIN w = 1 .. Len(w) /\ DOMAIN t = 1 .. Len(w) + 1 /\ Len(w) \in Nat
      /\ t[Len(w) + 1] = p /\ \A i \in 1 .. Len(w) : t[i] = w[i]
  BY AtEnd
<1> HIDE DEF t
<1>2. \A i \in DOMAIN t : (i \in DOMAIN w /\ t[i] = w[i]) \/ t[i] = p
  BY <1>1
<1>3. ASSUME NEW n, Comes(w, n) PROVE Comes(t, n)
  BY <1>1, <1>3 DEF Comes
<1>4. \A i \in DOMAIN t : t[i].kind = "Data" =>
        t[i].number \in c.in .. d.out - 1 /\ t[i] = d.log[t[i].number - LogStart(d) + 1]
  BY <1>2 DEF OnItsWay
<1>5. \A i, j \in DOMAIN t : t[i].kind = "Data" /\ t[j].kind = "Data" /\ i < j => t[i].number < t[j].number
  BY <1>2 DEF OnItsWay
<1>6. \A i \in DOMAIN t : t[i].kind = "Ping" => t[i].nr <= d.in
  BY <1>2 DEF OnItsWay
<1>7. c.live => \A n \in c.in .. d.out - 1 :
            /\ d.live => Comes(t, n)
            /\ \A i \in DOMAIN t : t[i].kind = "Data" /\ n < t[i].number => Comes(t, n)
  BY <1>2, <1>3 DEF OnItsWay
<1>8. OnItsWay(t, c, d)
  BY <1>4, <1>5, <1>6, <1>7 DEF OnItsWay
<1> QED
  BY <1>8 DEF t

(* A counted packet is received: it was the next one. *)
LEMMA WireReceive ==
    ASSUME NEW w \in Seq(WirePacket), NEW c \in Connection, NEW d \in Connection, NEW c1 \in Connection,
           OnItsWay(w, c, d), w # <<>>, w[1].kind = "Data", c.live, c1.in = c.in + 1
    PROVE  OnItsWay(Tail(w), c1, d)
<1> DEFINE t == Tail(w)
<1>0. w[1].number = c.in /\ c.in < d.out /\ c.in \in Nat /\ d.out \in Nat
  BY NextOne DEF Connection
<1>1. DOMAIN w = 1 .. Len(w) /\ DOMAIN t = 1 .. Len(w) - 1 /\ Len(w) \in Nat /\ 1 \in DOMAIN w
      /\ \A i \in 1 .. Len(w) - 1 : t[i] = w[i + 1]
  BY AtFront
<1> HIDE DEF t
<1>2. \A i \in DOMAIN t : i + 1 \in DOMAIN w /\ t[i] = w[i + 1] /\ 1 < i + 1
  BY <1>1
<1>3. ASSUME NEW n \in c.in + 1 .. d.out - 1, Comes(w, n) PROVE Comes(t, n)
  <2>1. PICK j \in DOMAIN w : w[j].kind = "Data" /\ w[j].number = n
    BY <1>3 DEF Comes
  <2>3. j # 1
    BY <1>0, <2>1
  <2>2. j - 1 \in DOMAIN t /\ t[j - 1] = w[j]
    BY <1>1, <2>1, <2>3
  <2> QED
    BY <2>1, <2>2 DEF Comes
<1>4. \A i \in DOMAIN t : t[i].kind = "Data" =>
        t[i].number \in c1.in .. d.out - 1 /\ t[i] = d.log[t[i].number - LogStart(d) + 1]
  <2> SUFFICES ASSUME NEW i \in DOMAIN t, t[i].kind = "Data"
               PROVE  t[i].number \in c1.in .. d.out - 1 /\ t[i] = d.log[t[i].number - LogStart(d) + 1]
    OBVIOUS
  <2>1. /\ t[i].number \in c.in .. d.out - 1 /\ t[i] = d.log[t[i].number - LogStart(d) + 1]
        /\ w[1].number < t[i].number
    BY <1>1, <1>2 DEF OnItsWay
  <2> QED
    BY <1>0, <2>1
<1>5. \A i, j \in DOMAIN t : t[i].kind = "Data" /\ t[j].kind = "Data" /\ i < j => t[i].number < t[j].number
  <2> SUFFICES ASSUME NEW i \in DOMAIN t, NEW j \in DOMAIN t, t[i].kind = "Data", t[j].kind = "Data", i < j
               PROVE  t[i].number < t[j].number
    OBVIOUS
  <2>1. i + 1 < j + 1
    BY <1>1
  <2> QED
    BY <1>2, <2>1 DEF OnItsWay
<1>6. \A i \in DOMAIN t : t[i].kind = "Ping" => t[i].nr <= d.in
  BY <1>2 DEF OnItsWay
<1>7. \A n \in c1.in .. d.out - 1 :
            /\ d.live => Comes(t, n)
            /\ \A i \in DOMAIN t : t[i].kind = "Data" /\ n < t[i].number => Comes(t, n)
  <2> SUFFICES ASSUME NEW n \in c.in + 1 .. d.out - 1
               PROVE  /\ d.live => Comes(t, n)
                      /\ \A i \in DOMAIN t : t[i].kind = "Data" /\ n < t[i].number => Comes(t, n)
    OBVIOUS
  <2>1. n \in c.in .. d.out - 1
    BY <1>0
  <2>2. d.live => Comes(w, n)
    BY <2>1 DEF OnItsWay
  <2>3. \A i \in DOMAIN t : t[i].kind = "Data" /\ n < t[i].number => Comes(w, n)
    BY <1>2, <2>1 DEF OnItsWay
  <2> QED
    BY <1>3, <2>2, <2>3
<1>8. OnItsWay(t, c1, d)
  BY <1>4, <1>5, <1>6, <1>7 DEF OnItsWay
<1> QED
  BY <1>8 DEF t

(* A counted packet is sent and logged, whether or not the connection is   *)
(* still there.                                                            *)
LEMMA WireSend ==
    ASSUME NEW w \in Seq(WirePacket), NEW c \in Connection, NEW d \in Connection, NEW d1 \in Connection,
           NEW p \in MessagePacket, NEW t \in {w, Append(w, p)},
           OnItsWay(w, c, d), Logged(d, c), d1.out = d.out + 1, d1.log = Append(d.log, p), d1.in = d.in,
           d1.live = d.live, p.number = d.out, t = IF d.live THEN Append(w, p) ELSE w
    PROVE  OnItsWay(t, c, d1)
<1>0. /\ d.log \in Seq(MessagePacket) /\ Len(d.log) \in Nat /\ d.out \in Nat /\ c.in \in Nat
      /\ LogStart(d) \in 0 .. c.in /\ c.in <= d.out /\ p.kind = "Data" /\ LogStart(d) = d.out - Len(d.log)
      /\ \A i \in DOMAIN w : w[i].kind = "Data" => w[i].number \in Nat
  BY Packets DEF Connection, Logged, LogStart
<1>1. /\ Len(d1.log) = Len(d.log) + 1 /\ d1.log[Len(d.log) + 1] = p
      /\ \A k \in 1 .. Len(d.log) : d1.log[k] = d.log[k]
  BY <1>0, AtEnd
<1>2. LogStart(d1) = LogStart(d) /\ LogStart(d) \in Nat
  BY <1>0, <1>1 DEF LogStart
<1>3. /\ DOMAIN w = 1 .. Len(w) /\ Len(w) \in Nat
      /\ DOMAIN Append(w, p) = 1 .. Len(w) + 1 /\ Append(w, p)[Len(w) + 1] = p
      /\ \A i \in 1 .. Len(w) : Append(w, p)[i] = w[i]
  BY AtEnd
<1>4. /\ \A i \in DOMAIN t : (i \in DOMAIN w /\ t[i] = w[i]) \/ (i = Len(w) + 1 /\ t[i] = p)
      /\ \A i \in DOMAIN w : i \in DOMAIN t /\ t[i] = w[i]
      /\ d.live => Len(w) + 1 \in DOMAIN t /\ t[Len(w) + 1] = p
      /\ DOMAIN t \subseteq 1 .. Len(w) + 1
  <2>1. CASE d.live
    <3>1. t = Append(w, p)
      BY <2>1
    <3> QED
      BY <1>3, <3>1
  <2>2. CASE ~d.live
    BY <1>3, <2>2
  <2> QED
    BY <2>1, <2>2
<1>5. \A n : Comes(w, n) => Comes(t, n)
  BY <1>4 DEF Comes
<1>6. d.live => Comes(t, d.out)
  BY <1>0, <1>4 DEF Comes
<1>7. ASSUME NEW i \in DOMAIN w, w[i].kind = "Data"
      PROVE  w[i].number \in c.in .. d.out - 1 /\ w[i] = d1.log[w[i].number - LogStart(d1) + 1]
  <2>1. w[i].number \in c.in .. d.out - 1 /\ w[i] = d.log[w[i].number - LogStart(d) + 1]
    BY <1>7 DEF OnItsWay
  <2>3. \A x, first, in, out, len \in Int :
            x \in in .. out - 1 /\ first \in 0 .. in /\ first = out - len => x - first + 1 \in 1 .. len
    OBVIOUS
  <2>4. w[i].number \in Int /\ LogStart(d) \in Int /\ c.in \in Int /\ d.out \in Int /\ Len(d.log) \in Int
    BY <1>0, <1>2, <1>7
  <2>2. w[i].number - LogStart(d) + 1 \in 1 .. Len(d.log)
    BY <1>0, <2>1, <2>3, <2>4
  <2> QED
    BY <1>1, <1>2, <2>1, <2>2
<1>8. p.number \in c.in .. d1.out - 1 /\ p = d1.log[p.number - LogStart(d1) + 1]
  BY <1>0, <1>1, <1>2
<1>9. \A i \in DOMAIN t : t[i].kind = "Data" =>
        t[i].number \in c.in .. d1.out - 1 /\ t[i] = d1.log[t[i].number - LogStart(d1) + 1]
  <2> SUFFICES ASSUME NEW i \in DOMAIN t, t[i].kind = "Data"
               PROVE  t[i].number \in c.in .. d1.out - 1 /\ t[i] = d1.log[t[i].number - LogStart(d1) + 1]
    OBVIOUS
  <2>1. CASE i \in DOMAIN w /\ t[i] = w[i]
    <3>1. w[i].number \in c.in .. d.out - 1 /\ w[i] = d1.log[w[i].number - LogStart(d1) + 1]
      BY <1>7, <2>1
    <3>2. w[i].number \in c.in .. d1.out - 1
      BY <1>0, <3>1
    <3> QED
      BY <2>1, <3>1, <3>2
  <2>2. CASE t[i] = p
    BY <1>8, <2>2
  <2> QED
    BY <1>4, <2>1, <2>2
<1>10. \A i, j \in DOMAIN t : t[i].kind = "Data" /\ t[j].kind = "Data" /\ i < j => t[i].number < t[j].number
  <2> SUFFICES ASSUME NEW i \in DOMAIN t, NEW j \in DOMAIN t, t[i].kind = "Data", t[j].kind = "Data", i < j
               PROVE  t[i].number < t[j].number
    OBVIOUS
  <2>0. i # Len(w) + 1
    BY <1>3, <1>4
  <2>1. i \in DOMAIN w /\ t[i] = w[i] /\ w[i].number \in c.in .. d.out - 1
    BY <1>4, <1>7, <2>0
  <2>2. CASE j \in DOMAIN w /\ t[j] = w[j]
    BY <2>1, <2>2 DEF OnItsWay
  <2>3. CASE t[j] = p
    BY <1>0, <2>1, <2>3
  <2> QED
    BY <1>4, <2>2, <2>3
<1>11. \A i \in DOMAIN t : t[i].kind = "Ping" => t[i].nr <= d1.in
  BY <1>0, <1>4 DEF OnItsWay
<1>12. ASSUME c.live, NEW n \in c.in .. d1.out - 1
       PROVE  /\ d1.live => Comes(t, n)
              /\ \A i \in DOMAIN t : t[i].kind = "Data" /\ n < t[i].number => Comes(t, n)
  <2>1. CASE n = d.out
    BY <1>0, <1>6, <1>9, <2>1
  <2>2. CASE n \in c.in .. d.out - 1
    <3>1. d.live => Comes(w, n)
      BY <1>12, <2>2 DEF OnItsWay
    <3>2. CASE d.live
      BY <1>5, <3>1, <3>2
    <3>3. CASE ~d.live
      <4>1. t = w
        BY <3>3
      <4>2. \A i \in DOMAIN w : w[i].kind = "Data" /\ n < w[i].number => Comes(w, n)
        BY <1>12, <2>2 DEF OnItsWay
      <4> QED
        BY <3>3, <4>1, <4>2
    <3> QED
      BY <3>2, <3>3
  <2> QED
    BY <1>0, <1>12, <2>1, <2>2
<1> QED
  BY <1>9, <1>10, <1>11, <1>12 DEF OnItsWay

(* The log is cleared of what the other side has received, of which        *)
(* nothing is on its way.                                                  *)
LEMMA WireClear ==
    ASSUME NEW w \in Seq(WirePacket), NEW c \in Connection, NEW d \in Connection, NEW u \in Nat,
           OnItsWay(w, c, d), Logged(d, c), u <= c.in
    PROVE  OnItsWay(w, c, ClearPacketLog(d, u))
<1> DEFINE e == ClearPacketLog(d, u)
<1>1. /\ d.log \in Seq(MessagePacket) /\ Len(d.log) \in Nat /\ d.out \in Nat /\ c.in \in Nat
      /\ LogStart(d) \in Nat /\ LogStart(d) <= c.in /\ c.in <= d.out /\ LogStart(d) = d.out - Len(d.log)
  BY DEF Connection, Logged, LogStart
<1>2. u <= d.out /\ LogStart(d) >= 0
  BY <1>1
<1>3. \E m \in 0 .. Len(d.log) :
        /\ Len(ClearPacketLog(d, u).log) = Len(d.log) - m
        /\ \A k \in 1 .. Len(d.log) - m : ClearPacketLog(d, u).log[k] = d.log[k + m]
        /\ LogStart(ClearPacketLog(d, u)) = LogStart(d) + m
  BY <1>2, ClearFields
<1>4. PICK m \in 0 .. Len(d.log) :
        /\ \A k \in 1 .. Len(d.log) - m : e.log[k] = d.log[k + m]
        /\ LogStart(e) = LogStart(d) + m
  BY <1>3
<1>5. /\ LogStart(e) \in {LogStart(d), u} /\ e.out = d.out /\ e.in = d.in /\ e.live = d.live
  BY <1>2, ClearFields DEF Being
<1> HIDE DEF e
<1>6. ASSUME NEW i \in DOMAIN w, w[i].kind = "Data"
      PROVE  w[i].number \in c.in .. e.out - 1 /\ w[i] = e.log[w[i].number - LogStart(e) + 1]
  <2> DEFINE x == w[i].number
             k == x - LogStart(e) + 1
  <2>1. x \in c.in .. d.out - 1 /\ w[i] = d.log[x - LogStart(d) + 1]
    BY <1>6 DEF OnItsWay
  <2>2. x \in Nat /\ w[i] \in WirePacket
    BY <1>1, <2>1
  <2> HIDE DEF x
  <2>3. LogStart(e) <= c.in /\ LogStart(e) \in Nat
    BY <1>1, <1>5
  <2>7. /\ x \in Int /\ LogStart(d) \in Int /\ c.in \in Int /\ d.out \in Int /\ Len(d.log) \in Int
        /\ m \in Int /\ LogStart(e) \in Int /\ LogStart(d) = d.out - Len(d.log) /\ LogStart(e) = LogStart(d) + m
    BY <1>1, <1>4, <2>2, <2>3
  <2>8. c.in <= x /\ x <= d.out - 1
    BY <2>1, <2>7
  <2>9. k \in Int /\ k + m = x - LogStart(d) + 1
    BY <2>7
  <2>11. k = x - (d.out - Len(d.log) + m) + 1
    BY <2>7
  <2>10. 1 <= k /\ k <= Len(d.log) - m
    <3>1. LogStart(e) <= x
      BY <2>3, <2>7, <2>8
    <3>2. 1 <= k
      BY <2>7, <3>1
    <3>3. k <= Len(d.log) - m
      <4> DEFINE out == d.out
                 len == Len(d.log)
      <4>1. /\ k = x - (out - len + m) + 1 /\ x <= out - 1
            /\ x \in Int /\ out \in Int /\ len \in Int /\ m \in Int
        BY <2>7, <2>8, <2>11
      <4> HIDE DEF out, len, k
      <4>2. k <= len - m
        BY <4>1
      <4> QED
        BY <4>2 DEF len
    <3> QED
      BY <3>2, <3>3
  <2>4. k \in 1 .. Len(d.log) - m /\ k + m = x - LogStart(d) + 1
    BY <2>7, <2>9, <2>10
  <2>5. e.log[k] = d.log[k + m]
    BY <1>4, <2>4
  <2> QED
    BY <1>5, <2>1, <2>4, <2>5 DEF x
<1> QED
  BY <1>5, <1>6 DEF OnItsWay, e

(* Every step keeps what is on its way in the order of the log.            *)
LEMMA NextWires ==
    ASSUME Types, Types', Lives, Logs, Wires, NEW s \in Sides, Action(s)
    PROVE  Wires'
<1> DEFINE o == Other(s)
           c == conn[s]
           d == conn'[s]
           e == conn[o]
           in == wire[s]
           back == wire[o]
<1>0. /\ o # s /\ o \in Sides /\ Other(o) = s /\ Sides = {s, o} /\ conn'[o] = e
  BY TwoSides, OwnSide
<1>t. /\ c \in Connection /\ d \in Connection /\ e \in Connection
      /\ in \in Seq(WirePacket) /\ back \in Seq(WirePacket)
  BY <1>0 DEF Types
<1>w. OnItsWay(in, c, e) /\ OnItsWay(back, e, c) /\ Logged(c, e) /\ Logged(e, c)
  BY <1>0 DEF Wires, Logs
<1>a. OnItsWay(wire'[s], d, e) /\ OnItsWay(wire'[o], e, d) => Wires'
  BY <1>0 DEF Wires
<1>l. c.live => isOpen(c)
  BY DEF Lives, Living
<1> HIDE DEF c, d, e, in, back
<1>n. c.in \in Nat /\ c.out \in Nat /\ e.in \in Nat /\ e.out \in Nat
  BY <1>t DEF Connection
<1>p. /\ \A i \in DOMAIN back : back[i].nr \in Nat /\ (back[i].kind = "Ping" => back[i].nr <= c.in)
      /\ \A i \in DOMAIN in : in[i].kind = "Ping" => in[i].nr <= e.in
  BY <1>t, <1>w, Packets DEF OnItsWay
(* Steps that count nothing: what was on its way stays good. *)
<1>k. ASSUME Counts(d) = Counts(c), d.live => c.live
      PROVE  OnItsWay(back, e, d) /\ \A w : OnItsWay(w, c, e) => OnItsWay(w, d, e)
  <2>1. d.in = c.in /\ d.out = c.out /\ d.log = c.log
    BY <1>k DEF Counts
  <2>2. OnItsWay(back, e, d)
    BY <1>k, <1>p, <1>w, <2>1, WireSame
  <2>3. ASSUME NEW w, OnItsWay(w, c, e) PROVE OnItsWay(w, d, e)
    <3>1. \A i \in DOMAIN w : w[i].kind = "Ping" => w[i].nr <= e.in
      BY <2>3 DEF OnItsWay
    <3> QED
      BY <1>k, <2>1, <2>3, <3>1, WireSame
  <2> QED
    BY <2>2, <2>3
<1>c. OnItsWay(back, e, d) => OnItsWay(Append(back, Packet("ConnRe")), e, d)
  <2>1. Packet("ConnRe") \in WirePacket /\ Packet("ConnRe").kind = "ConnRe"
    BY Packets DEF Packet
  <2> QED
    BY <1>t, <2>1, WireAppend
<1>1. CASE SendMessage(s)
  <2> DEFINE on == Way(s)
             p == NewPacket(s)
  <2>1. /\ on \in {"this", "other", "none"}
        /\ on = "this" => /\ p \in MessagePacket /\ p.number = c.out
                          /\ d.out = c.out + 1 /\ d.log = Append(c.log, p)
        /\ on # "this" => d = c
        /\ d.in = c.in /\ Being(d) = Being(c)
        /\ wire'[s] = in
        /\ wire'[o] = IF on = "this" /\ isOpen(c) /\ c.live THEN Append(back, p) ELSE back
    BY <1>1, SendMessageEffect DEF c, d, in, back
  <2> HIDE DEF on, p
  <2>2. d.live = c.live
    BY <2>1 DEF Being
  <2>3. OnItsWay(in, d, e)
    BY <1>p, <1>w, <2>1, <2>2, WireSame
  <2>4. CASE on = "this"
    <3>1. wire'[o] = IF c.live THEN Append(back, p) ELSE back
      BY <1>l, <2>1, <2>4
    <3>2. OnItsWay(wire'[o], e, d)
      BY <1>t, <1>w, <2>1, <2>2, <2>4, <3>1, WireSend
    <3> QED
      BY <1>a, <2>1, <2>3, <3>2
  <2> QED
    BY <1>a, <1>w, <2>1, <2>3, <2>4
<1>2. CASE SendPing(s)
  <2>1. /\ d = c /\ wire'[s] = in /\ wire'[o] = Append(back, Ping(c.in))
        /\ Ping(c.in) \in WirePacket /\ Ping(c.in).kind = "Ping" /\ Ping(c.in).nr = c.in
    BY <1>2, SendPingEffect DEF c, d, in, back
  <2>2. OnItsWay(Append(back, Ping(c.in)), e, c)
    BY <1>n, <1>t, <1>w, <2>1, WireAppend
  <2> QED
    BY <1>a, <1>w, <2>1, <2>2
<1>3. CASE ReceiveConn(s) \/ ReceiveConnRe(s)
  <2>1. /\ Counts(d) = Counts(c) /\ Being(d) = Being(c) /\ wire'[s] = Tail(in)
        /\ in # <<>> /\ in[1].kind # "Data"
        /\ wire'[o] \in {back, Append(back, Packet("ConnRe"))}
    BY <1>3, ReceiveConnEffect, ReceiveConnReEffect DEF c, d, in, back
  <2>2. OnItsWay(Tail(in), c, e)
    BY <1>t, <1>w, <2>1, WireTail
  <2>3. d.live = c.live
    BY <2>1 DEF Being
  <2> QED
    BY <1>a, <1>c, <1>k, <2>1, <2>2, <2>3
<1>4. CASE ReceivePing(s)
  <2> DEFINE u == in[1].nr
  <2>8. /\ in # <<>> /\ in[1].kind = "Ping" /\ u \in Nat
        /\ wire'[s] = Tail(in) /\ wire'[o] = back
    BY <1>4, ReceivePingEffect DEF in, back
  <2>9. d \in {ClearPacketLog(c, u), c}
    BY <1>4, ReceivePingEffect DEF in, c, d
  <2>1. /\ in # <<>> /\ in[1].kind = "Ping" /\ u \in Nat
        /\ d \in {ClearPacketLog(c, u), c} /\ wire'[s] = Tail(in) /\ wire'[o] = back
    BY <2>8, <2>9
  <2>2. u <= e.in
    BY <1>p, <1>t, <2>1, AtFront
  <2> HIDE DEF u
  <2>3. OnItsWay(back, e, d)
    BY <1>t, <1>w, <2>1, <2>2, WireClear
  <2>4. d.in = c.in /\ d.live = c.live
    BY <1>t, <2>1, PingFields DEF Being
  <2>5. OnItsWay(Tail(in), c, e)
    BY <1>t, <1>w, <2>1, WireTail
  <2>6. \A i \in DOMAIN Tail(in) : Tail(in)[i].kind = "Ping" => Tail(in)[i].nr <= e.in
    BY <2>5 DEF OnItsWay
  <2>7. OnItsWay(Tail(in), d, e)
    BY <2>4, <2>5, <2>6, WireSame
  <2> QED
    BY <1>a, <2>1, <2>3, <2>7
<1>5. CASE ReceiveData(s)
  <2>1. /\ d.in = c.in + 1 /\ d.out = c.out /\ d.log = c.log /\ Being(d) = Being(c)
        /\ in # <<>> /\ in[1].kind = "Data" /\ c.live
        /\ wire'[s] = Tail(in) /\ wire'[o] = back
    BY <1>5, ReceiveDataEffect DEF c, d, in, back
  <2>2. OnItsWay(Tail(in), d, e)
    BY <1>t, <1>w, <2>1, WireReceive
  <2>3. \A i \in DOMAIN back : back[i].kind = "Ping" => back[i].nr <= d.in
    BY <1>n, <1>p, <2>1
  <2>4. OnItsWay(back, e, d)
    BY <1>w, <2>1, <2>3, WireSame DEF Being
  <2> QED
    BY <1>a, <2>1, <2>2, <2>4
<1>6. CASE RemoveConnection(s) \/ OnDisconn(s) \/ CheckTimeout(s)
  <2>1. Counts(d) = Counts(c) /\ ~d.live /\ wire'[s] = <<>> /\ wire'[o] = back
    BY <1>6, EndEffect DEF c, d, in, back
  <2> QED
    BY <1>a, <1>k, <2>1, WireEmpty
<1>7. CASE HandleConn(s)
  <2>1. d = c /\ wire'[s] = in /\ wire'[o] \in {back, Append(back, Packet("ConnRe"))}
    BY <1>7, HandleConnEffect DEF c, d, in, back
  <2> QED
    BY <1>a, <1>c, <1>k, <1>w, <2>1
<1>8. CASE ReceiveOther(s) \/ ReceivePostMortem(s) \/ RecoverPacket(s) \/ HandleConnRe(s) \/ HandlePacket(s)
  <2>1. d = c /\ wire'[s] = in /\ wire'[o] = back
    BY <1>8, ReceiveOtherEffect, ReceivePostMortemEffect, RecoverPacketEffect, HandleConnReEffect,
       HandlePacketEffect DEF c, d, in, back
  <2> QED
    BY <1>a, <1>w, <2>1
<1>9. CASE SetHalfAccepted(s) \/ SetAccepted(s) \/ HandleDisconn(s)
  <2>1. Counts(d) = Counts(c) /\ Being(d) = Being(c) /\ wire'[s] = in /\ wire'[o] = back
    BY <1>9, SetHalfAcceptedEffect, SetAcceptedEffect, HandleDisconnEffect DEF c, d, in, back
  <2>2. d.live = c.live
    BY <2>1 DEF Being
  <2> QED
    BY <1>a, <1>k, <1>w, <2>1, <2>2
<1> QED
  BY <1>1, <1>2, <1>3, <1>4, <1>5, <1>6, <1>7, <1>8, <1>9 DEF Action, NetworkThread, MainThread

-----------------------------------------------------------------------------
(* Every message is one that was sent *)

(* Sequences over a set, of which one changes. *)
LEMMA Elements ==
    ASSUME NEW S, NEW w \in Seq(S)
    PROVE  /\ \A x \in S : Append(w, x) \in Seq(S)
           /\ w # <<>> => /\ w[1] \in S /\ Head(w) \in S /\ Tail(w) \in Seq(S)
                          /\ \A x \in S : [w EXCEPT ![1] = x] \in Seq(S)
           /\ \A i \in DOMAIN w : w[i] \in S
           /\ \A T : S \subseteq T => w \in Seq(T)
<1>1. w # <<>> => w[1] \in S /\ Head(w) \in S /\ Tail(w) \in Seq(S)
  OBVIOUS
<1>2. w # <<>> => \A x \in S : [w EXCEPT ![1] = x] \in Seq(S)
  BY ExceptSeq
<1>3. ASSUME NEW T, S \subseteq T PROVE w \in Seq(T)
  BY <1>3
<1> QED
  BY <1>1, <1>2, <1>3

(* PacketsFrom keeps the packets of a post mortem from some number on.     *)
LEMMA PacketsFromTypes ==
    ASSUME NEW S, NEW pm, pm.packets \in Seq(S), pm.counter \in Nat, NEW n \in Nat
    PROVE  PacketsFrom(pm, n) \in Seq(S)
<1> DEFINE ps == pm.packets
           first == pm.counter - Len(ps)
<1>1. ps \in Seq(S) /\ Len(ps) \in Nat /\ pm.counter \in Nat
  OBVIOUS
<1>2. PacketsFrom(pm, n) = IF n \in first .. pm.counter - 1
                           THEN SubSeq(ps, n - first + 1, Len(ps)) ELSE <<>>
  BY DEF PacketsFrom
<1> HIDE DEF ps
<1>3. n \in first .. pm.counter - 1 => SubSeq(ps, n - first + 1, Len(ps)) \in Seq(S)
  BY <1>1, SubSeqProperties
<1> QED
  BY <1>2, <1>3

(* What holds messages holds those of a larger set, too. *)
LEMMA Holders ==
    ASSUME NEW S, S \subseteq MessagePacket
    PROVE  /\ \A p \in S : p \in OnTheWire(S) /\ p \in OnTheOther(S)
           /\ \A ps \in Seq(S) : Recovery(ps) \in OnTheOther(S)
           /\ \A p \in S, by \in {"this", "other"} : p.main => Event(p, by) \in InTheQueue(S)
           /\ \A n \in Nat : Ping(n) \in OnTheWire(S)
           /\ Packet("Conn") \in OnTheWire(S) /\ Packet("ConnRe") \in OnTheWire(S)
           /\ \A e \in {Event(Packet("Conn"), "this"), Event(Packet("ConnRe"), "this"),
                       Event(Packet("SetHalfAccepted"), "this"), Event(Packet("SetAccepted"), "this"),
                       Disconn} : e \in InTheQueue(S)
           /\ \A p \in OnTheWire(S) : p.kind = "Data" => p \in S
           /\ \A p \in OnTheOther(S) :
                /\ p.kind = "Data" => p \in S
                /\ p.kind = "PostMortem" => p.packets \in Seq(S) /\ p.counter \in Nat
                /\ p.kind = "Recovery" => p.packets \in Seq(S)
           /\ \A e \in InTheQueue(S) : e.pkt.kind = "Data" => e.pkt \in S /\ e.pkt.main
<1>1. \A p \in S : p.kind = "Data"
  BY Packets
<1>2. \A p \in S : p \in OnTheWire(S) /\ p \in OnTheOther(S)
  BY DEF OnTheWire, OnTheOther
<1>3. \A ps \in Seq(S) : Recovery(ps) \in OnTheOther(S)
  BY DEF Recovery, OnTheOther
<1>4. \A p \in S, by \in {"this", "other"} : p.main => Event(p, by) \in InTheQueue(S)
  BY DEF Event, InTheQueue
<1>5. /\ \A n \in Nat : Ping(n) \in OnTheWire(S)
      /\ Packet("Conn") \in OnTheWire(S) /\ Packet("ConnRe") \in OnTheWire(S)
  BY DEF OnTheWire, Ping, Packet
<1>6. \A e \in {Event(Packet("Conn"), "this"), Event(Packet("ConnRe"), "this"),
               Event(Packet("SetHalfAccepted"), "this"), Event(Packet("SetAccepted"), "this"),
               Disconn} : e \in InTheQueue(S)
  BY DEF InTheQueue, Event, Packet, Disconn, Step
<1>7. \A p \in OnTheWire(S) : p.kind = "Data" => p \in S
  BY DEF OnTheWire
<1>8. \A p \in OnTheOther(S) :
        /\ p.kind = "Data" => p \in S
        /\ p.kind = "PostMortem" => p.packets \in Seq(S) /\ p.counter \in Nat
        /\ p.kind = "Recovery" => p.packets \in Seq(S)
  BY <1>1 DEF OnTheOther
<1>9. \A e \in InTheQueue(S) : e.pkt.kind = "Data" => e.pkt \in S /\ e.pkt.main
  BY DEF InTheQueue, Step
<1> QED
  BY <1>2, <1>3, <1>4, <1>5, <1>6, <1>7, <1>8, <1>9

(* What holds messages out of a set holds them out of a larger one.        *)
LEMMA HoldersGrow ==
    ASSUME NEW S, NEW T, S \subseteq T
    PROVE  /\ Seq(S) \subseteq Seq(T)
           /\ Seq(OnTheWire(S)) \subseteq Seq(OnTheWire(T))
           /\ Seq(OnTheOther(S)) \subseteq Seq(OnTheOther(T))
           /\ Seq(InTheQueue(S)) \subseteq Seq(InTheQueue(T))
<1>1. \A A, B : A \subseteq B => Seq(A) \subseteq Seq(B)
  BY Elements
<1>2. OnTheWire(S) \subseteq OnTheWire(T)
  BY DEF OnTheWire
<1>3. OnTheOther(S) \subseteq OnTheOther(T)
  <2>1. Seq(S) \subseteq Seq(T)
    BY <1>1
  <2> QED
    BY <2>1 DEF OnTheOther
<1>4. InTheQueue(S) \subseteq InTheQueue(T)
  BY DEF InTheQueue
<1> QED
  BY <1>1, <1>2, <1>3, <1>4

(* The log that is cleared holds nothing new. *)
LEMMA ClearedLog ==
    ASSUME NEW S, NEW c \in Connection, c.log \in Seq(S), NEW u \in Nat
    PROVE  ClearPacketLog(c, u).log \in Seq(S)
<1> DEFINE m == larger(0, u - LogStart(c)) + 1
<1>1. ClearPacketLog(c, u).log = SubSeq(c.log, m, Len(c.log))
  BY DEF ClearPacketLog, Connection
<1>2. m \in Nat \ {0} /\ Len(c.log) \in Nat
  BY DEF larger, LogStart, Connection
<1> HIDE DEF m
<1> QED
  BY <1>1, <1>2, SubSeqProperties

(* No step makes up a message: every message anywhere was sent by the      *)
(* other side.                                                             *)
LEMMA NextGenuine ==
    ASSUME Types, Types', Lives, Logs, Genuine, NEW s \in Sides, Action(s)
    PROVE  Genuine'
<1> DEFINE o == Other(s)
           S == SentBy(s)
           T == SentBy(o)
<1>0. /\ o # s /\ o \in Sides /\ Other(o) = s /\ Sides = {s, o}
      /\ setting' = setting /\ conn'[o] = conn[o] /\ events'[o] = events[o]
      /\ handled'[o] = handled[o] /\ sent'[o] = sent[o]
  BY TwoSides, OwnSide
<1>g. /\ Len(sent[s]) <= Len(setting.messages[s]) /\ Len(sent[o]) <= Len(setting.messages[o])
      /\ conn[s].log \in Seq(S) /\ conn[o].log \in Seq(T)
      /\ wire[s] \in Seq(OnTheWire(T)) /\ wire[o] \in Seq(OnTheWire(S))
      /\ other[s] \in Seq(OnTheOther(T)) /\ other[o] \in Seq(OnTheOther(S))
      /\ events[s] \in Seq(InTheQueue(T)) /\ events[o] \in Seq(InTheQueue(S))
      /\ handled[s] \in Seq(T) /\ handled[o] \in Seq(S)
  BY <1>0 DEF Genuine
<1>s. S \subseteq MessagePacket /\ T \subseteq MessagePacket
  BY DEF SentBy
<1>c. conn[s] \in Connection /\ conn[s].in \in Nat /\ conn[s].out \in Nat
  BY DEF Types, Connection
(* All steps but one send no message. *)
<1>a. ASSUME sent' = sent,
             conn'[s].log \in Seq(S), wire'[s] \in Seq(OnTheWire(T)), wire'[o] \in Seq(OnTheWire(S)),
             other'[s] \in Seq(OnTheOther(T)), other'[o] \in Seq(OnTheOther(S)),
             events'[s] \in Seq(InTheQueue(T)), handled'[s] \in Seq(T)
      PROVE  Genuine'
  <2>1. SentBy(s)' = S /\ SentBy(o)' = T
    BY <1>0, <1>a DEF SentBy
  <2> HIDE DEF S, T, o
  <2>2. /\ (Len(sent[s]) <= Len(setting.messages[s]))' /\ (Len(sent[o]) <= Len(setting.messages[o]))'
        /\ (conn[s].log \in Seq(SentBy(s)))' /\ (conn[o].log \in Seq(SentBy(o)))'
        /\ (wire[s] \in Seq(OnTheWire(SentBy(o))))' /\ (wire[o] \in Seq(OnTheWire(SentBy(s))))'
        /\ (other[s] \in Seq(OnTheOther(SentBy(o))))' /\ (other[o] \in Seq(OnTheOther(SentBy(s))))'
        /\ (events[s] \in Seq(InTheQueue(SentBy(o))))' /\ (events[o] \in Seq(InTheQueue(SentBy(s))))'
        /\ (handled[s] \in Seq(SentBy(o)))' /\ (handled[o] \in Seq(SentBy(s)))'
    BY <1>0, <1>a, <1>g, <2>1
  <2> QED
    BY <1>0, <2>2 DEF Genuine, o
<1>1. CASE SendMessage(s)
  <2> DEFINE on == Way(s)
             p == NewPacket(s)
  <2>1. /\ on \in {"this", "other", "none"}
        /\ Len(sent[s]) + 1 \in 1 .. Len(setting.messages[s])
        /\ on # "none" => /\ p \in MessagePacket /\ p.nr = Len(sent[s]) + 1 /\ p.on = on
                          /\ p.main = setting.messages[s][p.nr].main
                          /\ p.number = IF on = "this" THEN conn[s].out ELSE 0
        /\ sent'[s] = Append(sent[s], on)
        /\ on = "this" => conn'[s].log = Append(conn[s].log, p)
        /\ on # "this" => conn'[s] = conn[s]
        /\ wire'[s] = wire[s] /\ other'[s] = other[s]
        /\ wire'[o] = IF on = "this" /\ isOpen(conn[s]) /\ conn[s].live
                      THEN Append(wire[o], p) ELSE wire[o]
        /\ other'[o] = IF on = "other" THEN Append(other[o], p) ELSE other[o]
        /\ UNCHANGED <<events, msgConn, handled, recovered>>
    BY <1>1, SendMessageEffect
  <2> HIDE DEF on, p
  <2> DEFINE M == SentBy(s)'
  <2>2. sent[s] \in Seq({"this", "other", "none"}) /\ Len(sent'[s]) = Len(sent[s]) + 1
        /\ sent'[s][Len(sent[s]) + 1] = on /\ \A i \in 1 .. Len(sent[s]) : sent'[s][i] = sent[s][i]
        /\ Len(sent[s]) \in Nat
    BY <2>1, AtEnd DEF Types
  <2>3. S \subseteq M
    BY <1>0, <2>2 DEF SentBy
  <2>4. on # "none" => p \in M
    <3>1. conn[s].out <= Len(sent[s]) /\ 0 <= Len(sent[s])
      BY <2>2 DEF Logs
    <3>2. Len(sent[s]) <= Len(setting.messages[s]) /\ Len(setting.messages[s]) \in Int
      BY <1>0, <2>1, SettingsAssumption DEF Types, Setting
    <3>3. on # "none" => p.number <= Len(setting.messages[s])
      BY <1>c, <2>1, <2>2, <3>1, <3>2
    <3> QED
      BY <1>0, <2>1, <2>2, <3>3 DEF SentBy
  <2>5. SentBy(o)' = T
    BY <1>0 DEF SentBy
  <2>6. M \subseteq MessagePacket
    BY DEF SentBy
  <2>7. Len(sent'[s]) <= Len(setting.messages[s])
    BY <2>1, <2>2
  <2> HIDE DEF S, T, M
  <2>8. /\ conn[s].log \in Seq(M) /\ wire[o] \in Seq(OnTheWire(M)) /\ other[o] \in Seq(OnTheOther(M))
        /\ events[o] \in Seq(InTheQueue(M)) /\ handled[o] \in Seq(M)
    BY <1>g, <2>3, HoldersGrow
  <2>9. on # "none" => p \in OnTheWire(M) /\ p \in OnTheOther(M)
    BY <2>4, <2>6, Holders
  <2>14. /\ \A x \in M : Append(conn[s].log, x) \in Seq(M)
         /\ \A x \in OnTheWire(M) : Append(wire[o], x) \in Seq(OnTheWire(M))
         /\ \A x \in OnTheOther(M) : Append(other[o], x) \in Seq(OnTheOther(M))
    BY <2>8, Elements
  <2>10. conn'[s].log \in Seq(M)
    BY <2>1, <2>4, <2>8, <2>14
  <2>11. wire'[o] \in Seq(OnTheWire(M))
    BY <2>1, <2>8, <2>9, <2>14
  <2>12. other'[o] \in Seq(OnTheOther(M))
    BY <2>1, <2>8, <2>9, <2>14
  <2> HIDE DEF o
  <2>13. /\ (Len(sent[s]) <= Len(setting.messages[s]))' /\ (Len(sent[o]) <= Len(setting.messages[o]))'
         /\ (conn[s].log \in Seq(SentBy(s)))' /\ (conn[o].log \in Seq(SentBy(o)))'
         /\ (wire[s] \in Seq(OnTheWire(SentBy(o))))' /\ (wire[o] \in Seq(OnTheWire(SentBy(s))))'
         /\ (other[s] \in Seq(OnTheOther(SentBy(o))))' /\ (other[o] \in Seq(OnTheOther(SentBy(s))))'
         /\ (events[s] \in Seq(InTheQueue(SentBy(o))))' /\ (events[o] \in Seq(InTheQueue(SentBy(s))))'
         /\ (handled[s] \in Seq(SentBy(o)))' /\ (handled[o] \in Seq(SentBy(s)))'
    BY <1>0, <1>g, <2>1, <2>5, <2>7, <2>8, <2>10, <2>11, <2>12 DEF M
  <2> QED
    BY <1>0, <2>13 DEF Genuine, o
<1> HIDE DEF S, T
<1>h. \A p \in T : Append(handled[s], p) \in Seq(T)
  BY <1>g, Elements
<1>e. /\ \A e \in InTheQueue(T) : Append(events[s], e) \in Seq(InTheQueue(T))
      /\ events[s] # <<>> => /\ events[s][1] \in InTheQueue(T) /\ Tail(events[s]) \in Seq(InTheQueue(T))
                             /\ \A e \in InTheQueue(T) : [events[s] EXCEPT ![1] = e] \in Seq(InTheQueue(T))
  BY <1>g, Elements
<1>w. /\ \A p \in OnTheWire(S) : Append(wire[o], p) \in Seq(OnTheWire(S))
      /\ wire[s] # <<>> => wire[s][1] \in OnTheWire(T) /\ Tail(wire[s]) \in Seq(OnTheWire(T))
  BY <1>g, Elements
<1>o. /\ \A p \in OnTheOther(S) : Append(other[o], p) \in Seq(OnTheOther(S))
      /\ other[s] # <<>> => /\ other[s][1] \in OnTheOther(T) /\ Head(other[s]) \in OnTheOther(T)
                            /\ Tail(other[s]) \in Seq(OnTheOther(T))
                            /\ \A p \in OnTheOther(T) : [other[s] EXCEPT ![1] = p] \in Seq(OnTheOther(T))
  BY <1>g, Elements
<1>p. /\ \A n \in Nat : Ping(n) \in OnTheWire(S)
      /\ Packet("ConnRe") \in OnTheWire(S)
      /\ Event(Packet("Conn"), "this") \in InTheQueue(T)
      /\ Event(Packet("ConnRe"), "this") \in InTheQueue(T)
      /\ Event(Packet("SetHalfAccepted"), "this") \in InTheQueue(T)
      /\ Event(Packet("SetAccepted"), "this") \in InTheQueue(T)
      /\ Disconn \in InTheQueue(T)
  BY <1>s, Holders
<1>q. \A p \in T, by \in {"this", "other"} : p.main => Event(p, by) \in InTheQueue(T)
  BY <1>s, Holders
<1>2. CASE SendPing(s)
  BY <1>2, <1>a, <1>c, <1>g, <1>p, <1>w, SendPingEffect
<1>3. CASE ReceiveConn(s) \/ ReceiveConnRe(s)
  <2>1. /\ Counts(conn'[s]) = Counts(conn[s]) /\ wire[s] # <<>> /\ wire'[s] = Tail(wire[s])
        /\ wire'[o] \in {wire[o], Append(wire[o], Packet("ConnRe"))}
        /\ events'[s] \in {Append(events[s], Event(Packet("Conn"), "this")),
                           Append(events[s], Event(Packet("ConnRe"), "this"))}
        /\ UNCHANGED <<other, sent, handled>>
    BY <1>3, ReceiveConnEffect, ReceiveConnReEffect
  <2>2. conn'[s].log = conn[s].log
    BY <2>1 DEF Counts
  <2>3. wire'[s] \in Seq(OnTheWire(T))
    BY <1>e, <1>g, <1>o, <1>w, <2>1
  <2>4. wire'[o] \in Seq(OnTheWire(S))
    BY <1>e, <1>g, <1>p, <1>w, <2>1
  <2>5. events'[s] \in Seq(InTheQueue(T))
    BY <1>e, <1>g, <1>p, <1>w, <2>1
  <2> QED
    BY <1>a, <1>g, <2>1, <2>2, <2>3, <2>4, <2>5
<1>4. CASE ReceivePing(s)
  <2>1. /\ wire[s] # <<>> /\ wire'[s] = Tail(wire[s]) /\ wire'[o] = wire[o]
        /\ UNCHANGED <<other, sent, handled, events>>
        /\ wire[s][1].nr \in Nat
    BY <1>4, ReceivePingEffect
  <2>2. conn'[s] \in {ClearPacketLog(conn[s], wire[s][1].nr), conn[s]}
    BY <1>4, ReceivePingEffect
  <2>3. wire'[s] \in Seq(OnTheWire(T))
    BY <1>e, <1>g, <1>o, <1>w, <2>1
  <2>4. ClearPacketLog(conn[s], wire[s][1].nr).log \in Seq(S)
    BY <1>c, <1>g, <2>1, ClearedLog
  <2> QED
    BY <1>a, <1>g, <2>1, <2>2, <2>3, <2>4
<1>5. CASE ReceiveData(s)
  <2> DEFINE p == wire[s][1]
  <2>1. /\ conn'[s].log = conn[s].log
        /\ wire[s] # <<>> /\ p.kind = "Data"
        /\ wire'[s] = Tail(wire[s]) /\ wire'[o] = wire[o]
        /\ handled'[s] \in {handled[s], Append(handled[s], p)}
        /\ events'[s] = events[s] \/ (p.main /\ events'[s] = Append(events[s], Event(p, "this")))
        /\ UNCHANGED <<other, sent>>
    BY <1>5, ReceiveDataEffect
  <2>2. wire'[s] \in Seq(OnTheWire(T)) /\ p \in OnTheWire(T)
    BY <1>e, <1>g, <1>o, <1>w, <2>1
  <2>3. p \in T
    BY <1>s, <2>1, <2>2, Holders
  <2> HIDE DEF p
  <2>4. handled'[s] \in Seq(T)
    BY <1>g, <1>h, <2>1, <2>3
  <2>5. events'[s] \in Seq(InTheQueue(T))
    BY <1>e, <1>g, <1>q, <2>1, <2>3
  <2> QED
    BY <1>a, <1>g, <2>1, <2>2, <2>4, <2>5
<1>6. CASE ReceiveOther(s)
  <2> DEFINE p == other[s][1]
  <2>1. /\ other[s] # <<>> /\ p.kind = "Data"
        /\ other'[s] = Tail(other[s]) /\ other'[o] = other[o]
        /\ handled'[s] \in {handled[s], Append(handled[s], p)}
        /\ events'[s] = events[s] \/ (p.main /\ events'[s] = Append(events[s], Event(p, "other")))
        /\ UNCHANGED <<conn, wire, sent>>
    BY <1>6, ReceiveOtherEffect
  <2>2. other'[s] \in Seq(OnTheOther(T)) /\ p \in OnTheOther(T)
    BY <1>e, <1>g, <1>o, <1>w, <2>1
  <2>3. p \in T
    BY <1>s, <2>1, <2>2, Holders
  <2> HIDE DEF p
  <2>4. handled'[s] \in Seq(T)
    BY <1>g, <1>h, <2>1, <2>3
  <2>5. events'[s] \in Seq(InTheQueue(T))
    BY <1>e, <1>g, <1>q, <2>1, <2>3
  <2> QED
    BY <1>a, <1>g, <2>1, <2>2, <2>4, <2>5
<1>7. CASE ReceivePostMortem(s)
  <2> DEFINE pm == other[s][1]
             ps == PacketsFrom(pm, conn[s].in)
  <2>1. /\ other[s] # <<>> /\ pm.kind = "PostMortem"
        /\ other'[s] \in {Tail(other[s]), [other[s] EXCEPT ![1] = Recovery(ps)]}
        /\ other'[o] = other[o]
        /\ UNCHANGED <<conn, wire, events, sent, handled>>
    BY <1>7, ReceivePostMortemEffect
  <2>2. Tail(other[s]) \in Seq(OnTheOther(T)) /\ pm \in OnTheOther(T)
    BY <1>e, <1>g, <1>o, <1>w, <2>1
  <2>3. pm.packets \in Seq(T) /\ pm.counter \in Nat
    BY <1>s, <2>1, <2>2, Holders
  <2> HIDE DEF pm
  <2>4. ps \in Seq(T)
    BY <1>c, <2>3, PacketsFromTypes
  <2> HIDE DEF ps
  <2>6. Recovery(ps) \in OnTheOther(T)
    BY <1>s, <2>4, Holders
  <2>5. [other[s] EXCEPT ![1] = Recovery(ps)] \in Seq(OnTheOther(T))
    BY <1>g, <1>o, <2>1, <2>6
  <2> QED
    BY <1>a, <1>g, <2>1, <2>2, <2>5
<1>8. CASE RecoverPacket(s)
  <2> DEFINE ps == Head(other[s]).packets
             p == ps[1]
  <2>1. /\ Busy(s) /\ other[s] # <<>> /\ ps # <<>>
        /\ other'[s] = [other[s] EXCEPT ![1] = Recovery(Tail(ps))]
        /\ other'[o] = other[o]
        /\ handled'[s] \in {handled[s], Append(handled[s], p)}
        /\ events'[s] = events[s] \/ (p.main /\ events'[s] = Append(events[s], Event(p, "this")))
        /\ UNCHANGED <<conn, wire, sent>>
    BY <1>8, RecoverPacketEffect
  <2>2. Head(other[s]) \in OnTheOther(T) /\ Head(other[s]).kind = "Recovery"
    BY <1>g, <1>o, <2>1 DEF Busy
  <2>3. ps \in Seq(T)
    BY <1>s, <2>2, Holders
  <2>4. p \in T /\ Tail(ps) \in Seq(T)
    BY <2>1, <2>3, Elements
  <2> HIDE DEF ps, p
  <2>5. handled'[s] \in Seq(T)
    BY <1>g, <1>h, <2>1, <2>4
  <2>6. events'[s] \in Seq(InTheQueue(T))
    BY <1>e, <1>g, <1>q, <2>1, <2>4
  <2>7. Recovery(Tail(ps)) \in OnTheOther(T)
    BY <1>s, <2>4, Holders
  <2>8. other'[s] \in Seq(OnTheOther(T))
    BY <1>g, <1>o, <2>1, <2>7
  <2> QED
    BY <1>a, <1>g, <2>1, <2>5, <2>6, <2>8
<1>9. CASE RemoveConnection(s) \/ OnDisconn(s) \/ CheckTimeout(s)
  <2>1. /\ Counts(conn'[s]) = Counts(conn[s]) /\ wire'[s] = <<>> /\ wire'[o] = wire[o]
        /\ other'[s] = other[s] \/ (Busy(s) /\ other'[s] = Tail(other[s]))
        /\ other'[o] = other[o]
        /\ events'[s] \in {events[s], Append(events[s], Disconn)}
        /\ UNCHANGED <<sent, handled>>
    BY <1>9, EndEffect
  <2>2. other'[s] \in Seq(OnTheOther(T))
    BY <1>g, <1>o, <2>1 DEF Busy
  <2>3. events'[s] \in Seq(InTheQueue(T))
    BY <1>e, <1>g, <1>p, <1>w, <2>1
  <2>4. conn'[s].log = conn[s].log
    BY <2>1 DEF Counts
  <2> QED
    BY <1>a, <1>g, <2>1, <2>2, <2>3, <2>4
<1>10. CASE HandleConn(s)
  <2>1. /\ events[s] # <<>> /\ wire'[s] = wire[s]
        /\ wire'[o] \in {wire[o], Append(wire[o], Packet("ConnRe"))}
        /\ events'[s] \in {Tail(events[s]), [events[s] EXCEPT ![1] = Event(Packet("SetHalfAccepted"), "this")]}
        /\ UNCHANGED <<conn, other, sent, handled>>
    BY <1>10, HandleConnEffect
  <2>2. wire'[o] \in Seq(OnTheWire(S))
    BY <1>e, <1>g, <1>p, <1>w, <2>1
  <2>3. events'[s] \in Seq(InTheQueue(T))
    BY <1>e, <1>g, <1>p, <1>w, <2>1
  <2> QED
    BY <1>a, <1>g, <2>1, <2>2, <2>3
<1>11. CASE HandleConnRe(s)
  <2>1. /\ events[s] # <<>> /\ UNCHANGED <<conn, wire, other, sent, handled>>
        /\ events'[s] \in {Tail(events[s]), [events[s] EXCEPT ![1] = Event(Packet("SetAccepted"), "this")]}
    BY <1>11, HandleConnReEffect
  <2>3. events'[s] \in Seq(InTheQueue(T))
    BY <1>e, <1>g, <1>p, <1>w, <2>1
  <2> QED
    BY <1>a, <1>g, <2>1, <2>3
<1>12. CASE SetHalfAccepted(s) \/ SetAccepted(s)
  <2>1. /\ Counts(conn'[s]) = Counts(conn[s]) /\ events[s] # <<>> /\ events'[s] = Tail(events[s])
        /\ UNCHANGED <<wire, other, sent, handled>>
    BY <1>12, SetHalfAcceptedEffect, SetAcceptedEffect
  <2>2. conn'[s].log = conn[s].log
    BY <2>1 DEF Counts
  <2> QED
    BY <1>a, <1>e, <1>g, <2>1, <2>2
<1>13. CASE HandlePacket(s)
  <2> DEFINE p == events[s][1].pkt
  <2>1. /\ events[s] # <<>> /\ p.kind = "Data" /\ events'[s] = Tail(events[s])
        /\ handled'[s] \in {handled[s], Append(handled[s], p)}
        /\ UNCHANGED <<conn, wire, other, sent>>
    BY <1>13, HandlePacketEffect
  <2>2. events[s][1] \in InTheQueue(T) /\ events'[s] \in Seq(InTheQueue(T))
    BY <1>e, <1>g, <1>o, <1>w, <2>1
  <2>3. p \in T
    BY <1>s, <2>1, <2>2, Holders
  <2> HIDE DEF p
  <2>4. handled'[s] \in Seq(T)
    BY <1>g, <1>h, <2>1, <2>3
  <2> QED
    BY <1>a, <1>g, <2>1, <2>2, <2>4
<1>14. CASE HandleDisconn(s)
  <2>1. /\ Counts(conn'[s]) = Counts(conn[s]) /\ events[s] # <<>> /\ events'[s] = Tail(events[s])
        /\ other'[s] = other[s] /\ other'[o] \in {other[o], Append(other[o], PostMortem(conn[s]))}
        /\ UNCHANGED <<wire, sent, handled>>
    BY <1>14, HandleDisconnEffect
  <2>2. conn'[s].log = conn[s].log
    BY <2>1 DEF Counts
  <2>3. PostMortem(conn[s]) \in OnTheOther(S)
    BY <1>c, <1>g DEF PostMortem, OnTheOther
  <2>4. other'[o] \in Seq(OnTheOther(S))
    BY <1>g, <1>o, <2>1, <2>3
  <2> QED
    BY <1>a, <1>e, <1>g, <2>1, <2>2, <2>4
<1> QED
  BY <1>1, <1>2, <1>3, <1>4, <1>5, <1>6, <1>7, <1>8, <1>9, <1>10, <1>11, <1>12, <1>13, <1>14
  DEF Action, NetworkThread, MainThread

-----------------------------------------------------------------------------
(* The invariant of what is sent, and the types. *)
Carried == Types /\ Lives /\ Genuine /\ Logs /\ Wires

(* At first nothing but PID_Conn is on its way. *)
LEMMA InitCarried == Init => Carried
<1> SUFFICES ASSUME Init PROVE Carried
  OBVIOUS
<1>1. Types
  BY InitTypes
<1>2. /\ \A s \in Sides : conn[s] = NewConn /\ wire[s] = <<Packet("Conn")>> /\ other[s] = <<>>
                          /\ events[s] = <<>> /\ sent[s] = <<>> /\ handled[s] = <<>>
      /\ \A s \in Sides : Other(s) \in Sides
      /\ setting \in Settings
  BY TwoSides DEF Init
<1>3. /\ NewConn.status = "Connected" /\ NewConn.live = TRUE /\ NewConn.listed = TRUE
      /\ NewConn.in = 0 /\ NewConn.out = 0 /\ NewConn.log = <<>> /\ Len(<<>>) = 0 /\ DOMAIN <<>> = {}
  BY DEF NewConn
<1>4. <<Packet("Conn")>>[1].kind = "Conn" /\ DOMAIN <<Packet("Conn")>> = {1}
  BY DEF Packet
<1>5. Lives
  BY <1>2, <1>3 DEF Lives, Living, isOpen, isClosed
<1>6. Logs
  <2>1. Logged(NewConn, NewConn)
    <3>1. Numbered(NewConn.log, 0) /\ Rising(NewConn.log)
      BY <1>3 DEF Numbered, Rising
    <3>2. LogStart(NewConn) = 0
      <4>1. LogStart(NewConn) = NewConn.out - Len(NewConn.log)
        BY DEF LogStart
      <4>2. NewConn.out = 0 /\ Len(NewConn.log) = 0
        BY <1>3
      <4>3. NewConn.out - Len(NewConn.log) = 0 - 0
        BY <4>2
      <4> QED
        BY <4>1, <4>3
    <3> QED
      BY <1>3, <3>1, <3>2 DEF Logged
  <2> QED
    BY <1>2, <1>3, <2>1 DEF Logs
<1>7. Wires
  <2>1. OnItsWay(<<Packet("Conn")>>, NewConn, NewConn)
    BY <1>3, <1>4 DEF OnItsWay
  <2> QED
    BY <1>2, <2>1 DEF Wires
<1>8. Genuine
  <2>1. \A S : S \subseteq MessagePacket =>
            /\ <<>> \in Seq(S) /\ <<>> \in Seq(OnTheOther(S)) /\ <<>> \in Seq(InTheQueue(S))
            /\ <<Packet("Conn")>> \in Seq(OnTheWire(S))
    BY Holders
  <2>2. \A s \in Sides : SentBy(s) \subseteq MessagePacket
    BY DEF SentBy
  <2>3. \A s \in Sides : Len(sent[s]) <= Len(setting.messages[s])
    BY <1>2, <1>3, SettingsAssumption DEF Setting
  <2>4. ASSUME NEW s \in Sides
        PROVE  /\ Len(sent[s]) <= Len(setting.messages[s])
               /\ conn[s].log \in Seq(SentBy(s))
               /\ wire[s] \in Seq(OnTheWire(SentBy(Other(s))))
               /\ other[s] \in Seq(OnTheOther(SentBy(Other(s))))
               /\ events[s] \in Seq(InTheQueue(SentBy(Other(s))))
               /\ handled[s] \in Seq(SentBy(Other(s)))
    <3> DEFINE S == SentBy(s)
               T == SentBy(Other(s))
    <3>1. S \subseteq MessagePacket /\ T \subseteq MessagePacket
      BY <1>2, <2>2
    <3> HIDE DEF S, T
    <3>2. /\ conn[s].log \in Seq(S) /\ wire[s] \in Seq(OnTheWire(T)) /\ other[s] \in Seq(OnTheOther(T))
          /\ events[s] \in Seq(InTheQueue(T)) /\ handled[s] \in Seq(T)
      BY <1>2, <1>3, <2>1, <3>1
    <3> QED
      BY <2>3, <3>2 DEF S, T
  <2> QED
    BY <2>4 DEF Genuine
<1> QED
  BY <1>1, <1>5, <1>6, <1>7, <1>8 DEF Carried

(* Every step keeps what the connection carries in order. *)
LEMMA NextCarried == Carried /\ [Next]_vars => Carried'
<1> SUFFICES ASSUME Carried, [Next]_vars PROVE Carried'
  OBVIOUS
<1>1. Types'
  BY NextTypes DEF Carried
<1>2. ASSUME NEW s \in Sides, Action(s) PROVE Carried'
  BY <1>1, <1>2, NextLives, NextGenuine, NextLogs, NextWires DEF Carried
<1>3. CASE UNCHANGED vars
  BY <1>1, <1>3 DEF Carried, vars, Lives, Genuine, Logs, Wires, SentBy
<1> QED
  BY <1>2, <1>3 DEF Next, Action

(* The type invariant of the model follows. *)
LEMMA CarriedTypes == Carried => TypeOK
<1> SUFFICES ASSUME Carried, NEW s \in Sides
             PROVE  LET c == conn[s] IN
                      /\ c.status \in {"Connected", "HalfAccepted", "Accepted", "Closed", "ConnectFail"}
                      /\ {c.auto, c.listed, c.live, c.postMortemSent} \subseteq BOOLEAN
                      /\ Len(c.log) <= c.out /\ LogStart(c) <= conn[Other(s)].in /\ conn[Other(s)].in <= c.out
                      /\ Range(c.log) \subseteq SentPacket(s)
                      /\ \A k \in 1..Len(wire[s]) :
                            wire[s][k] \in SidePacket \cup SentPacket(Other(s))
                                           \cup {Ping(n) : n \in 0..Len(setting.messages[s])}
                      /\ msgConn[s] \in {"this", "other"}
                      /\ sent[s] \in Seq({"this", "other", "none"}) /\ Len(sent[s]) <= Len(setting.messages[s])
                      /\ Range(handled[s]) \subseteq SentPacket(Other(s))
  BY DEF TypeOK, Carried, Types
<1> DEFINE c == conn[s]
           o == Other(s)
           d == conn[o]
<1>0. o \in Sides /\ Other(o) = s /\ c \in Connection /\ d \in Connection
  BY TwoSides DEF Carried, Types
<1>1. /\ c.status \in {"Connected", "HalfAccepted", "Accepted", "Closed", "ConnectFail"}
      /\ {c.auto, c.listed, c.live, c.postMortemSent} \subseteq BOOLEAN
      /\ c.out \in Nat /\ d.in \in Nat /\ Len(c.log) \in Nat
  BY <1>0 DEF Connection, Statuses
<1>2. Logged(c, d) /\ c.out <= Len(sent[s]) /\ OnItsWay(wire[s], c, d)
  BY <1>0 DEF Carried, Logs, Wires
<1>3. Len(c.log) <= c.out /\ LogStart(c) <= d.in /\ d.in <= c.out
  BY <1>1, <1>2 DEF Logged, LogStart
<1>4. /\ Len(sent[s]) <= Len(setting.messages[s]) /\ c.log \in Seq(SentBy(s))
      /\ wire[s] \in Seq(OnTheWire(SentBy(o))) /\ handled[s] \in Seq(SentBy(o))
  BY DEF Carried, Genuine
<1>5. sent[s] \in Seq({"this", "other", "none"}) /\ msgConn[s] \in {"this", "other"} /\ Len(sent[s]) \in Nat
  BY DEF Carried, Types
<1>6. \A t \in Sides : SentBy(t) \subseteq SentPacket(t)
  <2> SUFFICES ASSUME NEW t \in Sides, NEW p \in SentBy(t) PROVE p \in SentPacket(t)
    OBVIOUS
  <2>1. /\ p \in MessagePacket /\ p.nr \in 1 .. Len(sent[t]) /\ p.on = sent[t][p.nr]
        /\ p.main = setting.messages[t][p.nr].main /\ p.number <= Len(setting.messages[t])
    BY DEF SentBy
  <2>2. Len(sent[t]) <= Len(setting.messages[t]) /\ Len(setting.messages[t]) \in Nat /\ Len(sent[t]) \in Nat
    BY SettingsAssumption DEF Carried, Genuine, Types, Setting
  <2>3. p.nr \in 1 .. Len(setting.messages[t]) /\ p.number \in 0 .. Len(setting.messages[t])
        /\ p.on \in {"this", "other"}
    BY <2>1, <2>2, Packets
  <2>4. p = Data(t, p.nr, p.on, p.number)
    BY <2>1 DEF Data, MessagePacket
  <2> QED
    BY <2>3, <2>4 DEF SentPacket
<1>7. \A t \in Sides : \A w \in Seq(SentBy(t)) : Range(w) \subseteq SentPacket(t)
  BY <1>6 DEF Range
<1>8. ASSUME NEW k \in 1 .. Len(wire[s])
      PROVE  wire[s][k] \in SidePacket \cup SentPacket(o) \cup {Ping(n) : n \in 0..Len(setting.messages[s])}
  <2>1. k \in DOMAIN wire[s] /\ wire[s][k] \in OnTheWire(SentBy(o))
    BY <1>4, <1>8
  <2>2. CASE wire[s][k] \in SentBy(o)
    BY <1>0, <1>6, <2>2
  <2>3. CASE wire[s][k] \in [kind : {"Conn", "ConnRe"}, nr : {0}]
    BY <2>3 DEF SidePacket, Packet
  <2>4. CASE wire[s][k] \in [kind : {"Ping"}, nr : Nat]
    <3>1. wire[s][k] = Ping(wire[s][k].nr)
      BY <2>4 DEF Ping
    <3>2. wire[s][k].nr <= d.in /\ wire[s][k].nr \in Nat
      BY <1>2, <2>1, <2>4 DEF OnItsWay
    <3>3. Len(setting.messages[s]) \in Nat
      BY SettingsAssumption DEF Carried, Types, Setting
    <3>4. wire[s][k].nr \in 0 .. Len(setting.messages[s])
      BY <1>1, <1>2, <1>3, <1>4, <1>5, <3>2, <3>3
    <3> QED
      BY <3>1, <3>4
  <2> QED
    BY <2>1, <2>2, <2>3, <2>4 DEF OnTheWire
<1> QED
  BY <1>0, <1>1, <1>3, <1>4, <1>5, <1>7, <1>8

(* In every state the log goes back at least to the first packet that the  *)
(* other side has not counted, no side has counted more than was sent, and *)
(* every message in a log, on its way, waiting or handled is one that the  *)
(* other side sent (C4Network2IOConnection::Send, ClearPacketLog and       *)
(* OnPacketReceived).                                                      *)
THEOREM ConnectionTypeCorrect == Spec => []TypeOK
<1>1. Init => Carried
  BY InitCarried
<1>2. Carried /\ [Next]_vars => Carried'
  BY NextCarried
<1>3. Carried => TypeOK
  BY CarriedTypes
<1> QED
  BY <1>1, <1>2, <1>3, PTL DEF Spec
=============================================================================
