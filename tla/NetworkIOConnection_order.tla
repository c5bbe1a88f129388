---------------------- MODULE NetworkIOConnection_order ----------------------
(***************************************************************************)
(* Theorems about the message connection: the messages of one kind are     *)
(* handled in the order they were sent, also those that a post mortem      *)
(* brings.                                                                 *)
(***************************************************************************)
EXTENDS NetworkIOConnection_recovery

-----------------------------------------------------------------------------
(* What InOrder says of a packet that is handled and a later one.          *)
Before(p, q) == p.nr < q.nr \/ (q.nr < p.nr /\ q.on = "other" /\ p.on = "this")

(* What was handled, and what waits for the main thread, is in order.      *)
Ordered(h, es) ==
    /\ \A i, j \in DOMAIN h : i < j /\ h[i].main = h[j].main => Before(h[i], h[j])
    /\ \A i, j \in DOMAIN es :
            i < j /\ es[i].pkt.kind = "Data" /\ es[j].pkt.kind = "Data" => Before(es[i].pkt, es[j].pkt)
    /\ \A i \in DOMAIN h : \A j \in DOMAIN es :
            h[i].main /\ es[j].pkt.kind = "Data" => Before(h[i], es[j].pkt)

(* The packets that a side has received, and those that were sent over the *)
(* connection and it may still receive: what is left of a post mortem, or  *)
(* what the other side d has logged from the next number on.               *)
Arrived(h, es) == Range(h) \cup {es[i].pkt : i \in {j \in DOMAIN es : es[j].pkt.kind = "Data"}}
Coming(c, d, q) ==
    IF q # <<>> /\ Head(q).kind = "Recovery"
    THEN Range(Head(q).packets)
    ELSE {p \in Range(d.log) : c.listed /\ p.number >= c.in}

(* Those that come over the connection are younger than all that was       *)
(* received, those of the other one younger than what it has brought.      *)
Behind(arrived, coming, q) ==
    \A p \in arrived :
        /\ \A r \in coming : p.nr < r.nr
        /\ p.on = "other" => \A i \in DOMAIN q : q[i].kind = "Data" => p.nr < q[i].nr
InLine(ps) ==
    /\ \A k \in DOMAIN ps : ps[k].on = "this"
    /\ \A k, l \in DOMAIN ps : k < l => ps[k].nr < ps[l].nr
InTurn(q) ==
    /\ \A i \in DOMAIN q : q[i].kind = "Data" => q[i].on = "other"
    /\ \A i, j \in DOMAIN q : i < j /\ q[i].kind = "Data" /\ q[j].kind = "Data" => q[i].nr < q[j].nr
    /\ \A i \in DOMAIN q : q[i].kind = "Recovery" => InLine(q[i].packets)

(* A side d whose messages go over the other connection has sent its post  *)
(* mortem if there was anything to recover; what goes over the other       *)
(* connection after messages that went over this one and were not received *)
(* comes behind it.                                                        *)
Brings(q, i) == \E j \in DOMAIN q : j < i /\ q[j].kind \in {"PostMortem", "Recovery"}
Rerouted(c, d, m, q) ==
    /\ m = "other" /\ d.log # <<>> => d.postMortemSent
    /\ d.postMortemSent /\ c.listed => Brings(q, Len(q) + 1)
    /\ c.listed =>
        \A i \in DOMAIN q : q[i].kind = "Data" =>
            \A k \in DOMAIN d.log : d.log[k].number >= c.in /\ d.log[k].nr < q[i].nr => Brings(q, i)

Orders ==
    \A s \in Sides :
        LET o == Other(s) IN
        /\ Ordered(handled[s], events[s])
        /\ Behind(Arrived(handled[s], events[s]), Coming(conn[s], conn[o], other[s]), other[s])
        /\ InTurn(other[s])
        /\ Rerouted(conn[s], conn[o], msgConn[o], other[s])
-----------------------------------------------------------------------------
(* Receipt *)

(* What has arrived: a packet is in it if it was handled or waits.         *)
LEMMA ArrivedElement ==
    ASSUME NEW h, NEW es, NEW p
    PROVE  p \in Arrived(h, es) <=> \/ \E i \in DOMAIN h : h[i] = p
                                    \/ \E i \in DOMAIN es : es[i].pkt.kind = "Data" /\ es[i].pkt = p
BY Zenon DEF Arrived, Range

(* A packet that arrives in order, and is handled at once, is passed on or *)
(* is dropped.                                                             *)
LEMMA Receipt ==
    ASSUME NEW h \in Seq(MessagePacket), NEW es \in Seq(EventPacket), NEW p \in MessagePacket,
           NEW by \in {"this", "other"}, NEW h1, NEW new,
           Ordered(h, es), \A a \in Arrived(h, es) : Before(a, p),
           \/ h1 = h /\ new = es
           \/ h1 = Append(h, p) /\ new = es /\ ~p.main
           \/ h1 = h /\ new = Append(es, Event(p, by)) /\ p.main
    PROVE  /\ Ordered(h1, new)
           /\ \A a \in Arrived(h1, new) : a = p \/ a \in Arrived(h, es)
<1> DEFINE e == Event(p, by)
           h2 == Append(h, p)
           es2 == Append(es, e)
<1>1. /\ DOMAIN h = 1 .. Len(h) /\ DOMAIN h2 = 1 .. Len(h) + 1 /\ Len(h) \in Nat
      /\ h2[Len(h) + 1] = p /\ \A i \in 1 .. Len(h) : h2[i] = h[i]
  BY AtEnd
<1>2. e \in EventPacket /\ e.pkt = p /\ p.kind = "Data"
  BY Packets DEF Event
<1> HIDE DEF e
<1>3. /\ DOMAIN es = 1 .. Len(es) /\ DOMAIN es2 = 1 .. Len(es) + 1 /\ Len(es) \in Nat
      /\ es2[Len(es) + 1] = e /\ \A i \in 1 .. Len(es) : es2[i] = es[i]
  BY <1>2, AtEnd
<1> HIDE DEF h2, es2
<1>4. /\ \A i \in DOMAIN h : h[i] \in Arrived(h, es)
      /\ \A i \in DOMAIN es : es[i].pkt.kind = "Data" => es[i].pkt \in Arrived(h, es)
  BY ArrivedElement
<1>5. ASSUME ~p.main
      PROVE  Ordered(h2, es) /\ \A a \in Arrived(h2, es) : a = p \/ a \in Arrived(h, es)
  <2>1. \A i, j \in DOMAIN h2 : i < j /\ h2[i].main = h2[j].main => Before(h2[i], h2[j])
    <3> SUFFICES ASSUME NEW i \in DOMAIN h2, NEW j \in DOMAIN h2, i < j, h2[i].main = h2[j].main
                 PROVE  Before(h2[i], h2[j])
      OBVIOUS
    <3>1. i \in DOMAIN h /\ h2[i] = h[i] /\ ((j \in DOMAIN h /\ h2[j] = h[j]) \/ h2[j] = p)
      BY <1>1
    <3> QED
      BY <1>4, <3>1 DEF Ordered
  <2>2. \A i \in DOMAIN h2 : \A j \in DOMAIN es :
            h2[i].main /\ es[j].pkt.kind = "Data" => Before(h2[i], es[j].pkt)
    <3> SUFFICES ASSUME NEW i \in DOMAIN h2, NEW j \in DOMAIN es, h2[i].main, es[j].pkt.kind = "Data"
                 PROVE  Before(h2[i], es[j].pkt)
      OBVIOUS
    <3>1. i \in DOMAIN h /\ h2[i] = h[i]
      BY <1>1, <1>5
    <3> QED
      BY <3>1 DEF Ordered
  <2>3. \A a \in Arrived(h2, es) : a = p \/ a \in Arrived(h, es)
    <3> SUFFICES ASSUME NEW a \in Arrived(h2, es), a # p PROVE a \in Arrived(h, es)
      OBVIOUS
    <3>1. \A i \in DOMAIN h2 : h2[i] = a => i \in DOMAIN h /\ h[i] = a
      BY <1>1
    <3> QED
      BY <3>1, ArrivedElement
  <2> QED
    BY <2>1, <2>2, <2>3 DEF Ordered
<1>6. Ordered(h, es2) /\ \A a \in Arrived(h, es2) : a = p \/ a \in Arrived(h, es)
  <2>1. \A i, j \in DOMAIN es2 :
            i < j /\ es2[i].pkt.kind = "Data" /\ es2[j].pkt.kind = "Data" => Before(es2[i].pkt, es2[j].pkt)
    <3> SUFFICES ASSUME NEW i \in DOMAIN es2, NEW j \in DOMAIN es2, i < j,
                        es2[i].pkt.kind = "Data", es2[j].pkt.kind = "Data"
                 PROVE  Before(es2[i].pkt, es2[j].pkt)
      OBVIOUS
    <3>1. i \in DOMAIN es /\ es2[i] = es[i] /\ ((j \in DOMAIN es /\ es2[j] = es[j]) \/ es2[j].pkt = p)
      BY <1>2, <1>3
    <3> QED
      BY <1>4, <3>1 DEF Ordered
  <2>2. \A i \in DOMAIN h : \A j \in DOMAIN es2 :
            h[i].main /\ es2[j].pkt.kind = "Data" => Before(h[i], es2[j].pkt)
    <3> SUFFICES ASSUME NEW i \in DOMAIN h, NEW j \in DOMAIN es2, h[i].main, es2[j].pkt.kind = "Data"
                 PROVE  Before(h[i], es2[j].pkt)
      OBVIOUS
    <3>1. (j \in DOMAIN es /\ es2[j] = es[j]) \/ es2[j].pkt = p
      BY <1>2, <1>3
    <3> QED
      BY <1>4, <3>1 DEF Ordered
  <2>3. \A a \in Arrived(h, es2) : a = p \/ a \in Arrived(h, es)
    <3> SUFFICES ASSUME NEW a \in Arrived(h, es2), a # p PROVE a \in Arrived(h, es)
      OBVIOUS
    <3>1. \A i \in DOMAIN es2 : es2[i].pkt = a => i \in DOMAIN es /\ es[i] = es2[i]
      BY <1>2, <1>3
    <3> QED
      BY <3>1, ArrivedElement
  <2> QED
    BY <2>1, <2>2, <2>3 DEF Ordered
<1> QED
  BY <1>5, <1>6 DEF h2, es2, e

(* The main thread takes the first event: it handles the message, or does  *)
(* something else, of which a part may remain.                             *)
LEMMA Taken ==
    ASSUME NEW h \in Seq(MessagePacket), NEW es \in Seq(EventPacket), es # <<>>, Ordered(h, es),
           es[1].pkt.kind = "Data" => es[1].pkt.main,
           NEW e \in EventPacket, e.pkt.kind # "Data", NEW h1, NEW new,
           \/ h1 = Append(h, es[1].pkt) /\ new = Tail(es) /\ es[1].pkt.kind = "Data"
           \/ h1 = h /\ new = Tail(es)
           \/ h1 = h /\ new = [es EXCEPT ![1] = e]
    PROVE  Ordered(h1, new) /\ Arrived(h1, new) \subseteq Arrived(h, es)
<1> DEFINE p == es[1].pkt
           h2 == Append(h, p)
           rest == Tail(es)
           es2 == [es EXCEPT ![1] = e]
<1>1. /\ DOMAIN es = 1 .. Len(es) /\ DOMAIN rest = 1 .. Len(es) - 1 /\ Len(es) \in Nat
      /\ 1 \in DOMAIN es /\ \A i \in 1 .. Len(es) - 1 : rest[i] = es[i + 1]
      /\ DOMAIN es2 = 1 .. Len(es) /\ es2[1] = e /\ \A i \in 1 .. Len(es) : i # 1 => es2[i] = es[i]
  BY AtFront
<1>h. /\ DOMAIN h = 1 .. Len(h) /\ DOMAIN h2 = 1 .. Len(h) + 1 /\ Len(h) \in Nat
      /\ h2[Len(h) + 1] = p /\ \A i \in 1 .. Len(h) : h2[i] = h[i]
  BY AtEnd
<1> HIDE DEF h2, rest, es2
<1>2. \A i \in DOMAIN rest : i + 1 \in DOMAIN es /\ rest[i] = es[i + 1] /\ 1 < i + 1 /\ i \in Int
  BY <1>1
<1>3. \A i \in DOMAIN es2 : es2[i].pkt.kind = "Data" => i \in DOMAIN es /\ es2[i] = es[i]
  BY <1>1
<1>4. Ordered(h, rest) /\ Arrived(h, rest) \subseteq Arrived(h, es)
  <2>1. \A i, j \in DOMAIN rest :
            i < j /\ rest[i].pkt.kind = "Data" /\ rest[j].pkt.kind = "Data" => Before(rest[i].pkt, rest[j].pkt)
    <3> SUFFICES ASSUME NEW i \in DOMAIN rest, NEW j \in DOMAIN rest, i < j,
                        rest[i].pkt.kind = "Data", rest[j].pkt.kind = "Data"
                 PROVE  Before(rest[i].pkt, rest[j].pkt)
      OBVIOUS
    <3>1. i + 1 < j + 1
      BY <1>2
    <3> QED
      BY <1>2, <3>1 DEF Ordered
  <2>2. \A i \in DOMAIN h : \A j \in DOMAIN rest :
            h[i].main /\ rest[j].pkt.kind = "Data" => Before(h[i], rest[j].pkt)
    BY <1>2 DEF Ordered
  <2>3. ASSUME NEW a \in Arrived(h, rest) PROVE a \in Arrived(h, es)
    BY <1>2, <2>3, ArrivedElement
  <2> QED
    BY <2>1, <2>2, <2>3 DEF Ordered
<1>5. Ordered(h, es2) /\ Arrived(h, es2) \subseteq Arrived(h, es)
  <2>1. ASSUME NEW a \in Arrived(h, es2) PROVE a \in Arrived(h, es)
    BY <1>3, <2>1, ArrivedElement
  <2> QED
    BY <1>3, <2>1 DEF Ordered
<1>6. ASSUME p.kind = "Data"
      PROVE  Ordered(h2, rest) /\ Arrived(h2, rest) \subseteq Arrived(h, es)
  <2>1. \A i, j \in DOMAIN h2 : i < j /\ h2[i].main = h2[j].main => Before(h2[i], h2[j])
    <3> SUFFICES ASSUME NEW i \in DOMAIN h2, NEW j \in DOMAIN h2, i < j, h2[i].main = h2[j].main
                 PROVE  Before(h2[i], h2[j])
      OBVIOUS
    <3>1. i \in DOMAIN h /\ h2[i] = h[i] /\ ((j \in DOMAIN h /\ h2[j] = h[j]) \/ h2[j] = p)
      BY <1>h
    <3> QED
      BY <1>1, <1>6, <3>1 DEF Ordered
  <2>2. \A i \in DOMAIN h2 : \A j \in DOMAIN rest :
            h2[i].main /\ rest[j].pkt.kind = "Data" => Before(h2[i], rest[j].pkt)
    <3> SUFFICES ASSUME NEW i \in DOMAIN h2, NEW j \in DOMAIN rest, h2[i].main, rest[j].pkt.kind = "Data"
                 PROVE  Before(h2[i], rest[j].pkt)
      OBVIOUS
    <3>1. (i \in DOMAIN h /\ h2[i] = h[i]) \/ h2[i] = p
      BY <1>h
    <3> QED
      BY <1>1, <1>2, <1>6, <3>1 DEF Ordered
  <2>3. ASSUME NEW a \in Arrived(h2, rest) PROVE a \in Arrived(h, es)
    <3>1. \A i \in DOMAIN h2 : h2[i] = a => (i \in DOMAIN h /\ h[i] = a) \/ a = p
      BY <1>h
    <3>2. p \in Arrived(h, es)
      BY <1>1, <1>6, ArrivedElement
    <3> QED
      BY <1>2, <2>3, <3>1, <3>2, ArrivedElement
  <2> QED
    BY <1>4, <2>1, <2>2, <2>3 DEF Ordered
<1> QED
  BY <1>4, <1>5, <1>6 DEF h2, rest, es2, p
-----------------------------------------------------------------------------
(* What the other side sends *)

(* The queue of the other connection grows.                                *)
LEMMA QueueGrows ==
    ASSUME NEW q \in Seq(OtherPacket), NEW x \in OtherPacket, x.kind # "Recovery", NEW c, NEW d
    PROVE  LET q1 == Append(q, x)
           IN  /\ Coming(c, d, q1) = Coming(c, d, q)
               /\ DOMAIN q1 = 1 .. Len(q1) /\ Len(q1) = Len(q) + 1 /\ Len(q) \in Nat /\ q1[Len(q1)] = x
               /\ \A i \in DOMAIN q : i \in DOMAIN q1 /\ q1[i] = q[i]
               /\ \A i \in DOMAIN q1 : (i \in DOMAIN q /\ q1[i] = q[i]) \/ (i = Len(q1) /\ q1[i] = x)
               /\ DOMAIN q = 1 .. Len(q)
               /\ \A i : Brings(q, i) => Brings(q1, i)
<1> DEFINE q1 == Append(q, x)
<1>1. /\ DOMAIN q = 1 .. Len(q) /\ DOMAIN q1 = 1 .. Len(q) + 1 /\ Len(q) \in Nat /\ Len(q1) = Len(q) + 1
      /\ q1[Len(q) + 1] = x /\ \A i \in 1 .. Len(q) : q1[i] = q[i]
  BY AtEnd
<1>2. q1 \in Seq(OtherPacket) /\ q1 # <<>>
  BY <1>1
<1>3. Head(q1) = q1[1] /\ (q # <<>> => Head(q) = q[1] /\ 1 \in DOMAIN q)
  BY <1>2, AtFront
<1>4. q = <<>> => Len(q) = 0
  OBVIOUS
<1> HIDE DEF q1
<1>5. Coming(c, d, q1) = Coming(c, d, q)
  <2>1. CASE q = <<>>
    BY <1>1, <1>3, <1>4, <2>1 DEF Coming
  <2>2. CASE q # <<>>
    BY <1>1, <1>2, <1>3, <2>2 DEF Coming
  <2> QED
    BY <2>1, <2>2
<1> QED
  BY <1>1, <1>5 DEF Brings, q1

(* The other side has something in its log that it had before, or less.    *)
LEMMA NothingSent ==
    ASSUME NEW e, NEW c, NEW d, NEW q, NEW arrived, NEW m, NEW m1,
           Behind(arrived, Coming(e, c, q), q), Rerouted(e, c, m, q),
           \A k \in DOMAIN d.log : \E l \in DOMAIN c.log : c.log[l] = d.log[k],
           d.log # <<>> => c.log # <<>>,
           d.postMortemSent = c.postMortemSent,
           (m1 = "other" => m = "other") \/ d.postMortemSent \/ d.log = <<>>
    PROVE  Behind(arrived, Coming(e, d, q), q) /\ Rerouted(e, d, m1, q)
<1>1. Range(d.log) \subseteq Range(c.log)
  BY DEF Range
<1>2. Coming(e, d, q) \subseteq Coming(e, c, q)
  BY <1>1 DEF Coming
<1>3. Behind(arrived, Coming(e, d, q), q)
  BY <1>2 DEF Behind
<1>4. Rerouted(e, d, m1, q)
  BY DEF Rerouted
<1> QED
  BY <1>3, <1>4

(* A message is sent over the connection.                                  *)
LEMMA SentOver ==
    ASSUME NEW e \in Connection, NEW c \in Connection, NEW d, NEW q \in Seq(OtherPacket),
           NEW arrived \in SUBSET MessagePacket, NEW p \in MessagePacket,
           Behind(arrived, Coming(e, c, q), q), Rerouted(e, c, "this", q),
           d.log = Append(c.log, p), d.postMortemSent = c.postMortemSent,
           \A a \in arrived : a.nr < p.nr,
           \A i \in DOMAIN q : q[i].kind = "Data" => q[i].nr < p.nr
    PROVE  Behind(arrived, Coming(e, d, q), q) /\ Rerouted(e, d, "this", q)
<1>1. /\ DOMAIN c.log = 1 .. Len(c.log) /\ DOMAIN d.log = 1 .. Len(c.log) + 1 /\ Len(c.log) \in Nat
      /\ d.log[Len(c.log) + 1] = p /\ \A i \in 1 .. Len(c.log) : d.log[i] = c.log[i]
  <2>1. c.log \in Seq(MessagePacket)
    BY DEF Connection
  <2> QED
    BY <2>1, AtEnd
<1>2. \A k \in DOMAIN d.log : (k \in DOMAIN c.log /\ d.log[k] = c.log[k]) \/ d.log[k] = p
  BY <1>1
<1>3. \A r \in Range(d.log) : r \in Range(c.log) \/ r = p
  BY <1>2 DEF Range
<1>4. \A r \in Coming(e, d, q) : r \in Coming(e, c, q) \/ r = p
  BY <1>3 DEF Coming
<1>5. Behind(arrived, Coming(e, d, q), q)
  BY <1>4 DEF Behind
<1>6. Rerouted(e, d, "this", q)
  <2> SUFFICES ASSUME NEW i \in DOMAIN q, q[i].kind = "Data", NEW k \in DOMAIN d.log, e.listed,
                      d.log[k].number >= e.in, d.log[k].nr < q[i].nr
               PROVE  Brings(q, i)
    BY DEF Rerouted
  <2>1. p.nr \in Nat /\ q[i].nr \in Nat
    <3>1. q[i] \in OtherPacket
      OBVIOUS
    <3> QED
      BY <3>1, Packets
  <2>2. d.log[k] # p
    BY <2>1
  <2> QED
    BY <1>2, <2>2 DEF Rerouted
<1> QED
  BY <1>5, <1>6

(* A message is sent over the other connection: the post mortem, if there  *)
(* is anything to recover, was sent before.                                *)
LEMMA SentAround ==
    ASSUME NEW e, NEW c \in Connection, NEW q \in Seq(OtherPacket),
           NEW arrived, NEW p \in MessagePacket, p.on = "other",
           Behind(arrived, Coming(e, c, q), q), InTurn(q), Rerouted(e, c, "other", q),
           \A a \in arrived : a.nr < p.nr,
           \A i \in DOMAIN q : q[i].kind = "Data" => q[i].nr < p.nr
    PROVE  LET q1 == Append(q, p)
           IN  Behind(arrived, Coming(e, c, q1), q1) /\ InTurn(q1) /\ Rerouted(e, c, "other", q1)
<1> DEFINE q1 == Append(q, p)
<1>0. p \in OtherPacket /\ p.kind = "Data"
  BY Packets
<1>1. /\ Coming(e, c, q1) = Coming(e, c, q)
      /\ Len(q1) = Len(q) + 1 /\ Len(q) \in Nat /\ DOMAIN q = 1 .. Len(q)
      /\ \A i \in DOMAIN q1 : (i \in DOMAIN q /\ q1[i] = q[i]) \/ (i = Len(q1) /\ q1[i] = p)
      /\ \A i : Brings(q, i) => Brings(q1, i)
  BY <1>0, QueueGrows
<1> HIDE DEF q1
<1>2. Behind(arrived, Coming(e, c, q1), q1)
  BY <1>1 DEF Behind
<1>3. InTurn(q1)
  <2>1. \A i, j \in DOMAIN q1 : i < j /\ q1[i].kind = "Data" /\ q1[j].kind = "Data" => q1[i].nr < q1[j].nr
    <3> SUFFICES ASSUME NEW i \in DOMAIN q1, NEW j \in DOMAIN q1, i < j,
                        q1[i].kind = "Data", q1[j].kind = "Data"
                 PROVE  q1[i].nr < q1[j].nr
      OBVIOUS
    <3>1. i \in DOMAIN q /\ q1[i] = q[i]
      BY <1>1
    <3> QED
      BY <1>1, <3>1 DEF InTurn
  <2>2. \A i \in DOMAIN q1 : q1[i].kind = "Data" => q1[i].on = "other"
    BY <1>1 DEF InTurn
  <2>3. \A i \in DOMAIN q1 : q1[i].kind = "Recovery" => InLine(q1[i].packets)
    BY <1>0, <1>1 DEF InTurn
  <2> QED
    BY <2>1, <2>2, <2>3 DEF InTurn
<1>4. Rerouted(e, c, "other", q1)
  <2>1. e.listed /\ c.log # <<>> => Brings(q, Len(q) + 1)
    BY DEF Rerouted
  <2>2. c.postMortemSent /\ e.listed => Brings(q1, Len(q1) + 1)
    <3>1. Brings(q, Len(q) + 1) => Brings(q, Len(q1) + 1)
      BY <1>1 DEF Brings
    <3> QED
      BY <1>1, <3>1 DEF Rerouted
  <2>3. ASSUME NEW i \in DOMAIN q1, q1[i].kind = "Data", NEW k \in DOMAIN c.log, e.listed,
               c.log[k].number >= e.in, c.log[k].nr < q1[i].nr
        PROVE  Brings(q1, i)
    <3>1. CASE i \in DOMAIN q /\ q1[i] = q[i]
      BY <1>1, <2>3, <3>1 DEF Rerouted
    <3>2. CASE i = Len(q1)
      <4>1. c.log # <<>>
        <5>1. c.log \in Seq(MessagePacket) /\ k \in DOMAIN c.log
          BY <2>3 DEF Connection
        <5> QED
          BY <5>1
      <4> QED
        BY <1>1, <2>1, <2>3, <3>2, <4>1
    <3> QED
      BY <1>1, <3>1, <3>2
  <2> QED
    BY <2>2, <2>3 DEF Rerouted
<1> QED
  BY <1>2, <1>3, <1>4 DEF q1

(* A post mortem is sent.                                                  *)
LEMMA SentPostMortem ==
    ASSUME NEW e, NEW c, NEW d, d.log = c.log, d.postMortemSent = TRUE, NEW q \in Seq(OtherPacket),
           NEW arrived, NEW m, NEW m1, NEW x \in OtherPacket, x.kind = "PostMortem",
           Behind(arrived, Coming(e, c, q), q), InTurn(q), Rerouted(e, c, m, q)
    PROVE  LET q1 == Append(q, x)
           IN  Behind(arrived, Coming(e, d, q1), q1) /\ InTurn(q1) /\ Rerouted(e, d, m1, q1)
<1> DEFINE q1 == Append(q, x)
<1>1. /\ Coming(e, d, q1) = Coming(e, d, q)
      /\ Len(q1) = Len(q) + 1 /\ Len(q) \in Nat /\ DOMAIN q = 1 .. Len(q) /\ DOMAIN q1 = 1 .. Len(q1)
      /\ q1[Len(q1)] = x
      /\ \A i \in DOMAIN q1 : (i \in DOMAIN q /\ q1[i] = q[i]) \/ (i = Len(q1) /\ q1[i] = x)
      /\ \A i : Brings(q, i) => Brings(q1, i)
  BY QueueGrows
<1> HIDE DEF q1
<1>2. \A i \in DOMAIN q1 : q1[i].kind \in {"Data", "Recovery"} => i \in DOMAIN q /\ q1[i] = q[i]
  BY <1>1
<1>3. Coming(e, d, q) = Coming(e, c, q)
  BY DEF Coming
<1>4. Behind(arrived, Coming(e, d, q1), q1)
  BY <1>1, <1>2, <1>3 DEF Behind
<1>5. InTurn(q1)
  BY <1>2 DEF InTurn
<1>6. Brings(q1, Len(q1) + 1)
  BY <1>1 DEF Brings
<1>7. Rerouted(e, d, m1, q1)
  BY <1>1, <1>2, <1>6 DEF Rerouted
<1> QED
  BY <1>4, <1>5, <1>7 DEF q1
-----------------------------------------------------------------------------
(* What a side receives *)

(* The first packet of the queue is taken.                                 *)
LEMMA QueueTaken ==
    ASSUME NEW q \in Seq(OtherPacket), q # <<>>, InTurn(q)
    PROVE  LET rest == Tail(q)
           IN  /\ InTurn(rest) /\ 1 \in DOMAIN q /\ Head(q) = q[1] /\ Len(rest) = Len(q) - 1 /\ Len(q) \in Nat
               /\ \A i \in DOMAIN rest : i + 1 \in DOMAIN q /\ 1 < i + 1 /\ rest[i] = q[i + 1] /\ i \in Int
               /\ q[1].kind = "Data" => \A i \in Int : Brings(q, i + 1) => Brings(rest, i)
<1> DEFINE rest == Tail(q)
<1>1. /\ DOMAIN q = 1 .. Len(q) /\ DOMAIN rest = 1 .. Len(q) - 1 /\ Len(q) \in Nat /\ Len(rest) = Len(q) - 1
      /\ 1 \in DOMAIN q /\ Head(q) = q[1] /\ \A i \in 1 .. Len(q) - 1 : rest[i] = q[i + 1]
  BY AtFront
<1> HIDE DEF rest
<1>2. \A i \in DOMAIN rest : i + 1 \in DOMAIN q /\ 1 < i + 1 /\ rest[i] = q[i + 1] /\ i \in Int
  BY <1>1
<1>3. InTurn(rest)
  <2>1. \A i, j \in DOMAIN rest : i < j /\ rest[i].kind = "Data" /\ rest[j].kind = "Data" =>
            rest[i].nr < rest[j].nr
    <3> SUFFICES ASSUME NEW i \in DOMAIN rest, NEW j \in DOMAIN rest, i < j,
                        rest[i].kind = "Data", rest[j].kind = "Data"
                 PROVE  rest[i].nr < rest[j].nr
      OBVIOUS
    <3>1. i + 1 < j + 1
      BY <1>2
    <3> QED
      BY <1>2, <3>1 DEF InTurn
  <2> QED
    BY <1>2, <2>1 DEF InTurn
<1>4. ASSUME q[1].kind = "Data", NEW i \in Int, Brings(q, i + 1) PROVE Brings(rest, i)
  <2>1. PICK j \in DOMAIN q : j < i + 1 /\ q[j].kind \in {"PostMortem", "Recovery"}
    BY <1>4 DEF Brings
  <2>2. j # 1 /\ j \in 1 .. Len(q)
    BY <1>1, <1>4, <2>1
  <2>3. j - 1 \in DOMAIN rest /\ rest[j - 1] = q[j - 1 + 1] /\ j - 1 + 1 = j /\ j - 1 < i
    BY <1>1, <2>1, <2>2
  <2> QED
    BY <2>1, <2>3 DEF Brings
<1> QED
  BY <1>1, <1>2, <1>3, <1>4 DEF rest

(* What is to come does not grow when more is counted or the connection is *)
(* forgotten.                                                              *)
LEMMA NoMoreComing ==
    ASSUME NEW c \in Connection, NEW d \in Connection, NEW e \in Connection, NEW q, NEW m,
           d.in >= c.in, d.listed => c.listed
    PROVE  /\ Coming(d, e, q) \subseteq Coming(c, e, q)
           /\ Rerouted(c, e, m, q) => Rerouted(d, e, m, q)
<1>1. /\ c.in \in Nat /\ d.in \in Nat /\ e.log \in Seq(MessagePacket)
      /\ \A k \in DOMAIN e.log : e.log[k] \in MessagePacket
  BY DEF Connection
<1>2. \A k \in DOMAIN e.log : e.log[k].number >= d.in => e.log[k].number >= c.in
  <2>1. \A k \in DOMAIN e.log : e.log[k].number \in Nat
    BY <1>1, Packets
  <2> QED
    BY <1>1, <2>1
<1>3. \A r \in Range(e.log) : r.number >= d.in => r.number >= c.in
  BY <1>2 DEF Range
<1>4. Coming(d, e, q) \subseteq Coming(c, e, q)
  BY <1>3 DEF Coming
<1>5. Rerouted(c, e, m, q) => Rerouted(d, e, m, q)
  BY <1>2 DEF Rerouted
<1> QED
  BY <1>4, <1>5

(* The packets that a post mortem brings are those in the log from the     *)
(* next number on, in this order.                                          *)
LEMMA FromPostMortem ==
    ASSUME NEW c \in Connection, NEW n \in Nat, Numbered(c.log, LogStart(c)), Rising(c.log),
           LogStart(c) \in 0 .. n
    PROVE  LET ps == PacketsFrom(PostMortem(c), n)
           IN  /\ \A k \in DOMAIN ps : \E l \in DOMAIN c.log : ps[k] = c.log[l] /\ c.log[l].number >= n
               /\ InLine(ps)
<1> DEFINE log == c.log
           len == Len(log)
           first == LogStart(c)
           m == n - first
           ps == PacketsFrom(PostMortem(c), n)
<1>1. log \in Seq(MessagePacket) /\ c.out \in Nat /\ len \in Nat /\ DOMAIN log = 1 .. len /\ first \in Nat
      /\ first = c.out - len /\ first <= n
  BY DEF Connection, LogStart
<1>2. ps = IF n \in first .. c.out - 1 THEN SubSeq(log, m + 1, len) ELSE <<>>
  <2>1. PostMortem(c).counter = c.out /\ PostMortem(c).packets = log
    BY DEF PostMortem
  <2>2. c.out - len = first
    BY <1>1
  <2> QED
    BY <2>1, <2>2 DEF PacketsFrom
<1>3. m \in Nat /\ (n \in first .. c.out - 1 => m + 1 <= len)
  <2>1. first \in Int /\ n \in Int /\ len \in Int /\ c.out \in Int /\ first <= n /\ first = c.out - len
    BY <1>1
  <2> HIDE DEF first, len
  <2> QED
    BY <2>1
<1>4. /\ \A k \in DOMAIN log : log[k].number = first + k - 1
      /\ \A k, l \in DOMAIN log : k < l => log[k].nr < log[l].nr
  BY DEF Numbered, Rising
<1> HIDE DEF log, len, first, ps, m
<1>5. \A k \in DOMAIN ps : k \in Int /\ k >= 1 /\ k + m \in DOMAIN log /\ ps[k] = log[k + m]
  <2>1. CASE n \in first .. c.out - 1
    <3>1. ps = SubSeq(log, m + 1, len) /\ m + 1 \in 1 .. len
      BY <1>1, <1>2, <1>3, <2>1
    <3>2. /\ DOMAIN ps = 1 .. len - (m + 1) + 1
          /\ \A k \in 1 .. len - (m + 1) + 1 : ps[k] = log[m + 1 + k - 1]
      BY <1>1, <3>1
    <3>3. \A k \in 1 .. len - (m + 1) + 1 : k + m \in 1 .. len /\ m + 1 + k - 1 = k + m
      BY <1>1, <1>3
    <3> QED
      BY <1>1, <3>2, <3>3
  <2>2. CASE n \notin first .. c.out - 1
    <3>1. ps = <<>>
      BY <1>2, <2>2
    <3> QED
      BY <3>1
  <2> QED
    BY <2>1, <2>2
<1>6. ASSUME NEW k \in DOMAIN ps
      PROVE  \E l \in DOMAIN log : ps[k] = log[l] /\ log[l].number >= n
  <2>1. k \in Int /\ k >= 1 /\ k + m \in DOMAIN log /\ ps[k] = log[k + m]
    BY <1>5
  <2>2. log[k + m].number = first + (k + m) - 1
    BY <1>4, <2>1
  <2>3. first + m = n /\ first \in Int /\ m \in Int
    BY <1>1, <1>3 DEF m
  <2>4. log[k + m].number >= n
    BY <2>1, <2>2, <2>3
  <2> QED
    BY <2>1, <2>4
<1>7. ASSUME NEW k \in DOMAIN ps, NEW l \in DOMAIN ps, k < l PROVE ps[k].nr < ps[l].nr
  <2>1. /\ k + m \in DOMAIN log /\ ps[k] = log[k + m] /\ l + m \in DOMAIN log /\ ps[l] = log[l + m]
        /\ k \in Int /\ l \in Int
    BY <1>5
  <2>2. k + m < l + m
    BY <1>3, <1>7, <2>1
  <2> QED
    BY <1>4, <2>1, <2>2
<1>8. \A k \in DOMAIN ps : ps[k].on = "this"
  BY <1>5 DEF Numbered, log
<1> QED
  BY <1>6, <1>7, <1>8 DEF ps, log, InLine

(* The first packet of the queue is, or becomes, a post mortem that is     *)
(* being handled.                                                          *)
LEMMA QueueRecovers ==
    ASSUME NEW q \in Seq(OtherPacket), q # <<>>, InTurn(q), q[1].kind \in {"PostMortem", "Recovery"},
           NEW ps, InLine(ps), NEW c, NEW d, NEW m, Rerouted(c, d, m, q)
    PROVE  LET q1 == [q EXCEPT ![1] = Recovery(ps)]
           IN  /\ InTurn(q1)
               /\ Coming(c, d, q1) = Range(ps)
               /\ \A i \in DOMAIN q1 : q1[i].kind = "Data" => i \in DOMAIN q /\ q1[i] = q[i]
               /\ Rerouted(c, d, m, q1)
<1> DEFINE x == Recovery(ps)
           q1 == [q EXCEPT ![1] = x]
<1>1. /\ DOMAIN q = 1 .. Len(q) /\ Len(q) \in Nat /\ 1 \in DOMAIN q
      /\ DOMAIN q1 = DOMAIN q /\ Len(q1) = Len(q) /\ q1[1] = x /\ \A i \in DOMAIN q : i # 1 => q1[i] = q[i]
  BY AtFront
<1>2. q1 # <<>> /\ Head(q1) = q1[1]
  BY <1>1
<1>3. x.kind = "Recovery" /\ x.packets = ps
  BY DEF Recovery
<1> HIDE DEF x, q1
<1>4. \A i \in DOMAIN q1 : q1[i].kind = "Data" => i \in DOMAIN q /\ q1[i] = q[i]
  BY <1>1, <1>3
<1>5. InTurn(q1)
  BY <1>1, <1>3, <1>4 DEF InTurn
<1>6. \A i : Brings(q, i) => Brings(q1, i)
  BY <1>1, <1>3 DEF Brings
<1>7. Rerouted(c, d, m, q1)
  BY <1>1, <1>4, <1>6 DEF Rerouted
<1>8. Coming(c, d, q1) = Range(ps)
  BY <1>1, <1>2, <1>3 DEF Coming
<1> QED
  BY <1>4, <1>5, <1>7, <1>8 DEF q1, x

(* An event that is no message is added.                                   *)
LEMMA EventAdded ==
    ASSUME NEW h, NEW es \in Seq(EventPacket), Ordered(h, es), NEW e \in EventPacket, e.pkt.kind # "Data"
    PROVE  Ordered(h, Append(es, e)) /\ Arrived(h, Append(es, e)) \subseteq Arrived(h, es)
<1> DEFINE new == Append(es, e)
<1>1. /\ DOMAIN es = 1 .. Len(es) /\ DOMAIN new = 1 .. Len(es) + 1 /\ Len(es) \in Nat
      /\ new[Len(es) + 1] = e /\ \A i \in 1 .. Len(es) : new[i] = es[i]
  BY AtEnd
<1> HIDE DEF new
<1>2. \A i \in DOMAIN new : new[i].pkt.kind = "Data" => i \in DOMAIN es /\ new[i] = es[i]
  BY <1>1
<1>3. Ordered(h, new)
  BY <1>2 DEF Ordered
<1>4. ASSUME NEW a \in Arrived(h, new) PROVE a \in Arrived(h, es)
  BY <1>2, <1>4, ArrivedElement
<1> QED
  BY <1>3, <1>4 DEF new
-----------------------------------------------------------------------------
(* Every step *)

(* Where the messages of the other side are.                               *)
LEMMA Whose ==
    ASSUME Types, Genuine, NEW s \in Sides
    PROVE  /\ \A a \in Arrived(handled[s], events[s]) : a \in SentBy(Other(s))
           /\ \A i \in DOMAIN other[s] : other[s][i].kind = "Data" => other[s][i] \in SentBy(Other(s))
           /\ \A k \in DOMAIN conn[Other(s)].log : conn[Other(s)].log[k] \in SentBy(Other(s))
           /\ \A i \in DOMAIN events[s] : events[s][i].pkt.kind = "Data" => events[s][i].pkt.main
<1> DEFINE S == SentBy(Other(s))
<1>1. /\ Other(s) \in Sides /\ conn[Other(s)].log \in Seq(S)
      /\ other[s] \in Seq(OnTheOther(S)) /\ events[s] \in Seq(InTheQueue(S)) /\ handled[s] \in Seq(S)
  BY TwoSides DEF Genuine
<1> HIDE DEF S
<1>2. /\ \A k \in DOMAIN conn[Other(s)].log : conn[Other(s)].log[k] \in S
      /\ \A i \in DOMAIN other[s] : other[s][i] \in OnTheOther(S)
      /\ \A i \in DOMAIN events[s] : events[s][i] \in InTheQueue(S)
      /\ \A i \in DOMAIN handled[s] : handled[s][i] \in S
  BY <1>1, Elements
<1>3. \A p \in OnTheOther(S) : p.kind = "Data" => p \in S
  BY DEF OnTheOther
<1>4. \A e \in InTheQueue(S) : e.pkt.kind = "Data" => e.pkt \in S /\ e.pkt.main
  BY DEF InTheQueue, Step
<1>5. ASSUME NEW a \in Arrived(handled[s], events[s]) PROVE a \in S
  BY <1>2, <1>4, <1>5, ArrivedElement
<1> QED
  BY <1>2, <1>3, <1>4, <1>5 DEF S

(* The side that only gets something.                                      *)
LEMMA NextOrdersOther ==
    ASSUME Recoverable, Types', Orders, NEW s \in Sides, Action(s)
    PROVE  LET o == Other(s)
           IN  /\ Ordered(handled'[o], events'[o])
               /\ Behind(Arrived(handled'[o], events'[o]), Coming(conn'[o], conn'[s], other'[o]), other'[o])
               /\ InTurn(other'[o])
               /\ Rerouted(conn'[o], conn'[s], msgConn'[s], other'[o])
<1> DEFINE o == Other(s)
           c == conn[s]
           d == conn'[s]
           e == conn[o]
           q == other[o]
           m == msgConn[s]
           arrived == Arrived(handled[o], events[o])
           Goal == /\ Behind(arrived, Coming(e, d, other'[o]), other'[o]) /\ InTurn(other'[o])
                   /\ Rerouted(e, d, msgConn'[s], other'[o])
<1>0. Types /\ Lives /\ Genuine /\ Logs
  BY DEF Recoverable, Carried
<1>1. /\ o \in Sides /\ Other(o) = s
      /\ conn'[o] = e /\ handled'[o] = handled[o] /\ events'[o] = events[o]
  BY <1>0, TwoSides, OwnSide
<1>2. /\ c \in Connection /\ d \in Connection /\ e \in Connection /\ q \in Seq(OtherPacket)
      /\ m \in {"this", "other"}
  BY <1>0, <1>1 DEF Types
<1>3. Ordered(handled[o], events[o]) /\ Behind(arrived, Coming(e, c, q), q) /\ InTurn(q) /\ Rerouted(e, c, m, q)
  BY <1>1 DEF Orders
<1>4. /\ \A a \in arrived : a \in MessagePacket /\ a.nr <= Len(sent[s])
      /\ \A i \in DOMAIN q : q[i].kind = "Data" => q[i].nr <= Len(sent[s])
      /\ Len(sent[s]) \in Nat /\ \A n \in 1 .. Len(sent[s]) : n < Len(sent[s]) + 1
  <2>1. \A p \in SentBy(s) : p \in MessagePacket /\ p.nr <= Len(sent[s])
    BY <1>0 DEF SentBy, Types
  <2>2. /\ \A a \in arrived : a \in SentBy(s)
        /\ \A i \in DOMAIN q : q[i].kind = "Data" => q[i] \in SentBy(s)
    BY <1>0, <1>1, Whose
  <2> QED
    BY <1>0, <2>1, <2>2 DEF Types
<1>5. Goal => /\ Ordered(handled'[o], events'[o])
              /\ Behind(Arrived(handled'[o], events'[o]), Coming(conn'[o], conn'[s], other'[o]), other'[o])
              /\ InTurn(other'[o]) /\ Rerouted(conn'[o], conn'[s], msgConn'[s], other'[o])
  BY <1>1, <1>3
<1> SUFFICES Goal
  BY <1>5
<1> HIDE DEF c, d, e, q, m, arrived
(* The log may only lose something, and nothing comes over the other.      *)
<1>6. ASSUME other'[o] = q, d.postMortemSent = c.postMortemSent,
             d.log = c.log \/ (d = ClearPacketLog(c, wire[s][1].nr) /\ wire[s][1].nr \in Nat),
             msgConn'[s] \in {m, "this"} \/ c.log = <<>> \/ c.postMortemSent
      PROVE  Goal
  <2>1. c.log \in Seq(MessagePacket) /\ d.log \in Seq(MessagePacket)
    BY <1>2 DEF Connection
  <2>2. \A k \in DOMAIN d.log : \E l \in DOMAIN c.log : c.log[l] = d.log[k]
    <3>1. CASE d.log = c.log
      BY <3>1
    <3>2. CASE d = ClearPacketLog(c, wire[s][1].nr) /\ wire[s][1].nr \in Nat
      <4> DEFINE i == larger(0, wire[s][1].nr - LogStart(c)) + 1
      <4>1. d.log = SubSeq(c.log, i, Len(c.log)) /\ LogStart(c) \in Int
        BY <1>2, <3>2, ConnectionTypes DEF ClearPacketLog, Connection
      <4>2. i \in Nat /\ i >= 1 /\ Len(c.log) \in Nat
        BY <2>1, <3>2, <4>1 DEF larger
      <4> HIDE DEF i
      <4>3. \A k \in DOMAIN d.log : k \in Nat /\ k + i - 1 \in DOMAIN c.log /\ d.log[k] = c.log[k + i - 1]
        BY <2>1, <4>1, <4>2
      <4> QED
        BY <4>3
    <3> QED
      BY <1>6, <3>1, <3>2
  <2>3. d.log # <<>> => c.log # <<>>
    BY <2>1, <2>2
  <2>4. (msgConn'[s] = "other" => m = "other") \/ d.postMortemSent \/ d.log = <<>>
    BY <1>6, <2>3
  <2>5. Behind(arrived, Coming(e, d, q), q) /\ Rerouted(e, d, msgConn'[s], q)
    BY <1>3, <1>6, <2>2, <2>3, <2>4, NothingSent
  <2> QED
    BY <1>3, <1>6, <2>5
<1>7. CASE SendMessage(s)
  <2> DEFINE p == NewPacket(s)
             on == Way(s)
  <2>1. /\ on \in {"this", "other", "none"} /\ msgConn'[s] = m /\ d.postMortemSent = c.postMortemSent
        /\ on # "none" => on = m /\ p \in MessagePacket /\ p.nr = Len(sent[s]) + 1 /\ p.on = on
        /\ on = "this" => d.log = Append(c.log, p)
        /\ on # "this" => d = c
        /\ other'[o] = IF on = "other" THEN Append(q, p) ELSE q
    BY <1>0, <1>7, SendMessageEffect DEF c, d, q, m
  <2> HIDE DEF p, on
  <2>2. on # "none" => /\ \A a \in arrived : a.nr < p.nr
                       /\ \A i \in DOMAIN q : q[i].kind = "Data" => q[i].nr < p.nr
    <3>1. \A a \in arrived : a.nr \in Nat
      BY <1>4, Packets
    <3>2. \A i \in DOMAIN q : q[i].kind = "Data" => q[i].nr \in Nat
      <4>1. \A i \in DOMAIN q : q[i] \in OtherPacket
        BY <1>2, Elements
      <4> QED
        BY <4>1, Packets
    <3> QED
      BY <1>4, <2>1, <3>1, <3>2
  <2>3. CASE on = "this"
    <3>1. arrived \in SUBSET MessagePacket
      BY <1>4
    <3>2. Behind(arrived, Coming(e, d, q), q) /\ Rerouted(e, d, "this", q)
      BY <1>2, <1>3, <2>1, <2>2, <2>3, <3>1, SentOver
    <3> QED
      BY <1>3, <2>1, <2>3, <3>2
  <2>4. CASE on = "other"
    BY <1>2, <1>3, <2>1, <2>2, <2>4, SentAround
  <2>5. CASE on = "none"
    BY <1>6, <2>1, <2>5
  <2> QED
    BY <2>1, <2>3, <2>4, <2>5
<1>8. CASE HandleDisconn(s)
  <2> DEFINE sends == c.status # "ConnectFail" /\ CreatePostMortem(c)
  <2>1. /\ Counts(d) = Counts(c) /\ d.postMortemSent = IF sends THEN TRUE ELSE c.postMortemSent
        /\ other'[o] = IF sends THEN Append(q, PostMortem(c)) ELSE q
        /\ msgConn'[s] = IF c.status = "ConnectFail" THEN m ELSE "other"
    BY <1>0, <1>8, HandleDisconnEffect DEF c, d, q, m
  <2>2. d.log = c.log
    BY <2>1 DEF Counts
  <2>3. PostMortem(c) \in OtherPacket /\ PostMortem(c).kind = "PostMortem"
    BY <1>2, ConnectionTypes DEF PostMortem
  <2>4. CASE sends
    BY <1>2, <1>3, <2>1, <2>2, <2>3, <2>4, SentPostMortem
  <2>5. CASE ~sends
    <3>1. msgConn'[s] \in {m, "this"} \/ c.log = <<>> \/ c.postMortemSent
      BY <2>1, <2>5 DEF CreatePostMortem
    <3> QED
      BY <1>6, <2>1, <2>2, <2>5, <3>1
  <2> QED
    BY <2>4, <2>5
<1>9. CASE ReceivePing(s)
  <2>1. /\ wire[s][1].nr \in Nat /\ msgConn'[s] = m /\ other'[o] = q
        /\ d = IF isOpen(c) THEN ClearPacketLog(c, wire[s][1].nr) ELSE c
    BY <1>0, <1>9, ReceivePingEffect DEF c, d, q, m
  <2>2. d.postMortemSent = c.postMortemSent
    BY <1>2, <2>1, PingFields
  <2> QED
    BY <1>6, <2>1, <2>2
<1>10. CASE ~SendMessage(s) /\ ~HandleDisconn(s) /\ ~ReceivePing(s)
  <2>1. d.log = c.log /\ d.postMortemSent = c.postMortemSent /\ other'[o] = q /\ msgConn'[s] \in {m, "this"}
    <3>1. CASE ReceiveConn(s) \/ ReceiveConnRe(s) \/ ReceiveData(s)
      BY <1>0, <3>1, ReceiveConnEffect, ReceiveConnReEffect, ReceiveDataEffect DEF c, d, q, m, Counts
    <3>2. CASE ReceiveOther(s) \/ ReceivePostMortem(s) \/ RecoverPacket(s)
      BY <1>0, <3>2, ReceiveOtherEffect, ReceivePostMortemEffect, RecoverPacketEffect DEF c, d, q, m
    <3>3. CASE RemoveConnection(s) \/ OnDisconn(s) \/ CheckTimeout(s)
      BY <1>0, <3>3, EndEffect DEF c, d, q, m, Counts
    <3>4. CASE SendPing(s) \/ HandleConn(s) \/ HandleConnRe(s) \/ HandlePacket(s)
      BY <1>0, <3>4, SendPingEffect, HandleConnEffect, HandleConnReEffect, HandlePacketEffect DEF c, d, q, m
    <3>5. CASE SetHalfAccepted(s) \/ SetAccepted(s)
      BY <1>0, <3>5, SetHalfAcceptedEffect, SetAcceptedEffect DEF c, d, q, m, Counts
    <3> QED
      BY <1>10, <3>1, <3>2, <3>3, <3>4, <3>5 DEF Action, NetworkThread, MainThread
  <2> QED
    BY <1>6, <2>1
<1> QED
  BY <1>7, <1>8, <1>9, <1>10

(* The side that takes the step.                                           *)
LEMMA NextOrdersOwn ==
    ASSUME Recoverable, Types', Orders, NEW s \in Sides, Action(s)
    PROVE  LET o == Other(s)
           IN  /\ Ordered(handled'[s], events'[s])
               /\ Behind(Arrived(handled'[s], events'[s]), Coming(conn'[s], conn'[o], other'[s]), other'[s])
               /\ InTurn(other'[s])
               /\ Rerouted(conn'[s], conn'[o], msgConn'[o], other'[s])
<1> DEFINE o == Other(s)
           c == conn[s]
           d == conn'[s]
           e == conn[o]
           q == other[s]
           q1 == other'[s]
           m == msgConn[o]
           h == handled[s]
           h1 == handled'[s]
           es == events[s]
           new == events'[s]
           arrived == Arrived(h, es)
           coming == Coming(c, e, q)
           Goal == Ordered(h1, new) /\ Behind(Arrived(h1, new), Coming(d, e, q1), q1) /\ InTurn(q1) /\ Rerouted(d, e, m, q1)
<1>0. Types /\ Lives /\ Genuine /\ Logs /\ Wires /\ PostMortems
  BY DEF Recoverable, Carried
<1>1. o \in Sides /\ Other(o) = s /\ conn'[o] = e /\ msgConn'[o] = m
  BY <1>0, TwoSides, OwnSide
<1>2. /\ c \in Connection /\ d \in Connection /\ e \in Connection /\ q \in Seq(OtherPacket)
      /\ h \in Seq(MessagePacket) /\ es \in Seq(EventPacket) /\ c.in \in Nat /\ d.in \in Nat
  BY <1>0, <1>1 DEF Types, Connection
<1>3. Ordered(h, es) /\ Behind(arrived, coming, q) /\ InTurn(q) /\ Rerouted(c, e, m, q)
  BY DEF Orders
<1>4. /\ \A a \in arrived : a \in SentBy(o)
      /\ \A i \in DOMAIN q : q[i].kind = "Data" => q[i] \in SentBy(o)
      /\ \A k \in DOMAIN e.log : e.log[k] \in SentBy(o)
      /\ \A i \in DOMAIN es : es[i].pkt.kind = "Data" => es[i].pkt.main
  BY <1>0, Whose
<1>5. \A a, b \in SentBy(o) : /\ a \in MessagePacket /\ a.nr \in Nat /\ a.on \in {"this", "other"}
                              /\ a.nr = b.nr => a.on = b.on
  BY Packets DEF SentBy
<1>l. /\ Numbered(e.log, LogStart(e)) /\ Rising(e.log) /\ LogStart(e) \in 0 .. c.in
  BY <1>0, <1>1 DEF Logs, Logged
<1>p. /\ Queue(q, e) /\ (Busy(s) <=> q # <<>> /\ Head(q).kind = "Recovery")
      /\ Busy(s) => c.listed
  BY <1>0 DEF PostMortems, Busy
<1>g. Goal => /\ Ordered(handled'[s], events'[s])
              /\ Behind(Arrived(handled'[s], events'[s]), Coming(conn'[s], conn'[o], other'[s]), other'[s])
              /\ InTurn(other'[s])
              /\ Rerouted(conn'[s], conn'[o], msgConn'[o], other'[s])
  BY <1>1
<1> SUFFICES Goal
  BY <1>g
<1>w. wire[s] \in Seq(WirePacket) /\ OnItsWay(wire[s], c, e)
  BY <1>0, <1>1 DEF Types, Wires
<1> HIDE DEF c, d, e, q, q1, m, h, h1, es, new, arrived, coming
(* Nothing comes over the other connection.                                *)
<1>6. ASSUME Ordered(h1, new), Arrived(h1, new) \subseteq arrived, q1 = q,
             d.in >= c.in, d.listed => c.listed
      PROVE  Goal
  <2>1. Coming(d, e, q) \subseteq coming /\ Rerouted(d, e, m, q)
    BY <1>2, <1>3, <1>6, NoMoreComing DEF coming
  <2>2. Behind(Arrived(h1, new), Coming(d, e, q), q)
    BY <1>3, <1>6, <2>1 DEF Behind
  <2> QED
    BY <1>3, <1>6, <2>1, <2>2
(* An event that is no message.                                            *)
<1>7. ASSUME NEW x \in EventPacket, x.pkt.kind # "Data", new = Append(es, x), h1 = h
      PROVE  Ordered(h1, new) /\ Arrived(h1, new) \subseteq arrived
  BY <1>2, <1>3, <1>7, EventAdded DEF arrived
<1>d. /\ Event(Packet("Conn"), "this") \in EventPacket /\ Event(Packet("Conn"), "this").pkt.kind = "Conn"
      /\ Event(Packet("ConnRe"), "this") \in EventPacket /\ Event(Packet("ConnRe"), "this").pkt.kind = "ConnRe"
      /\ Disconn \in EventPacket /\ Disconn.pkt.kind = "Disconn"
      /\ Event(Packet("SetHalfAccepted"), "this") \in EventPacket
      /\ Event(Packet("SetHalfAccepted"), "this").pkt.kind = "SetHalfAccepted"
      /\ Event(Packet("SetAccepted"), "this") \in EventPacket
      /\ Event(Packet("SetAccepted"), "this").pkt.kind = "SetAccepted"
  BY Packets DEF Event, Packet, Disconn
<1>8. CASE SendMessage(s) \/ SendPing(s)
  <2>1. h1 = h /\ new = es /\ q1 = q /\ d.in = c.in /\ Being(d) = Being(c)
    BY <1>0, <1>8, SendMessageEffect, SendPingEffect DEF h, h1, es, new, q, q1, c, d
  <2>2. d.listed = c.listed
    BY <2>1 DEF Being
  <2> QED
    BY <1>2, <1>3, <1>6, <2>1, <2>2 DEF arrived
<1>9. CASE ReceiveConn(s) \/ ReceiveConnRe(s)
  <2>1. /\ h1 = h /\ q1 = q /\ Counts(d) = Counts(c) /\ Being(d) = Being(c)
        /\ new \in {Append(es, Event(Packet("Conn"), "this")), Append(es, Event(Packet("ConnRe"), "this"))}
    BY <1>0, <1>9, ReceiveConnEffect, ReceiveConnReEffect DEF h, h1, es, new, q, q1, c, d
  <2>2. d.listed = c.listed /\ d.in = c.in
    BY <2>1 DEF Being, Counts
  <2>3. Ordered(h1, new) /\ Arrived(h1, new) \subseteq arrived
    BY <1>7, <1>d, <2>1
  <2> QED
    BY <1>2, <1>6, <2>1, <2>2, <2>3
<1>10. CASE ReceivePing(s)
  <2>1. h1 = h /\ new = es /\ q1 = q /\ d \in {ClearPacketLog(c, wire[s][1].nr), c}
    BY <1>0, <1>10, ReceivePingEffect DEF h, h1, es, new, q, q1, c, d
  <2>2. d.in = c.in /\ Being(d) = Being(c)
    BY <1>2, <2>1, PingFields
  <2>3. d.listed = c.listed
    BY <2>2 DEF Being
  <2> QED
    BY <1>2, <1>3, <1>6, <2>1, <2>2, <2>3 DEF arrived
<1>11. CASE RemoveConnection(s) \/ OnDisconn(s) \/ CheckTimeout(s)
  <2>1. /\ h1 = h /\ Counts(d) = Counts(c) /\ d.listed \in {FALSE, c.listed} /\ new \in {es, Append(es, Disconn)}
        /\ q1 = IF RemoveConnection(s) THEN Tail(q) ELSE q
        /\ RemoveConnection(s) => Busy(s) /\ ~d.listed
    BY <1>0, <1>11, EndEffect DEF h, h1, es, new, q, q1, c, d
  <2>2. d.in = c.in
    BY <2>1 DEF Counts
  <2>3. Ordered(h1, new) /\ Arrived(h1, new) \subseteq arrived
    BY <1>3, <1>7, <1>d, <2>1 DEF arrived
  <2>4. CASE RemoveConnection(s)
    <3>1. q # <<>> /\ q1 = Tail(q) /\ ~d.listed
      BY <1>p, <2>1, <2>4
    <3>2. ~(q1 # <<>> /\ Head(q1).kind = "Recovery")
      BY <1>2, <1>p, <3>1, QueueSteps
    <3>3. Coming(d, e, q1) = {}
      BY <3>1, <3>2 DEF Coming
    <3>4. /\ InTurn(q1)
          /\ \A i \in DOMAIN q1 : i + 1 \in DOMAIN q /\ q1[i] = q[i + 1]
      BY <1>2, <1>3, <3>1, QueueTaken
    <3>5. Behind(Arrived(h1, new), {}, q1)
      BY <1>3, <2>3, <3>4 DEF Behind
    <3>6. Rerouted(d, e, m, q1)
      BY <1>3, <3>1 DEF Rerouted
    <3> QED
      BY <2>3, <3>3, <3>4, <3>5, <3>6
  <2>5. CASE ~RemoveConnection(s)
    <3>1. d.listed => c.listed
      BY <1>2, <2>1 DEF Connection
    <3> QED
      BY <1>2, <1>6, <2>1, <2>2, <2>3, <2>5, <3>1
  <2> QED
    BY <2>4, <2>5
<1>12. CASE \/ HandleConn(s) \/ HandleConnRe(s) \/ HandlePacket(s)
            \/ SetHalfAccepted(s) \/ SetAccepted(s) \/ HandleDisconn(s)
  <2>1. /\ q1 = q /\ d.in = c.in /\ d.listed = c.listed
    <3>1. CASE HandleConn(s) \/ HandleConnRe(s) \/ HandlePacket(s)
      BY <1>0, <3>1, HandleConnEffect, HandleConnReEffect, HandlePacketEffect DEF q, q1, c, d
    <3>2. CASE SetHalfAccepted(s) \/ SetAccepted(s) \/ HandleDisconn(s)
      <4>1. q1 = q /\ Counts(d) = Counts(c) /\ Being(d) = Being(c)
        BY <1>0, <3>2, SetHalfAcceptedEffect, SetAcceptedEffect, HandleDisconnEffect DEF q, q1, c, d
      <4> QED
        BY <4>1 DEF Counts, Being
    <3> QED
      BY <1>12, <3>1, <3>2
  <2>2. /\ es # <<>>
        /\ \/ h1 = Append(h, es[1].pkt) /\ new = Tail(es) /\ es[1].pkt.kind = "Data"
           \/ h1 = h /\ new = Tail(es)
           \/ h1 = h /\ new = [es EXCEPT ![1] = Event(Packet("SetHalfAccepted"), "this")]
           \/ h1 = h /\ new = [es EXCEPT ![1] = Event(Packet("SetAccepted"), "this")]
    <3>1. CASE HandleConn(s) \/ HandleConnRe(s) \/ SetHalfAccepted(s)
      BY <1>0, <3>1, HandleConnEffect, HandleConnReEffect, SetHalfAcceptedEffect DEF h, h1, es, new
    <3>2. CASE SetAccepted(s) \/ HandleDisconn(s)
      BY <1>0, <3>2, SetAcceptedEffect, HandleDisconnEffect DEF h, h1, es, new
    <3>3. CASE HandlePacket(s)
      BY <1>0, <3>3, HandlePacketEffect DEF h, h1, es, new
    <3> QED
      BY <1>12, <3>1, <3>2, <3>3
  <2>3. es[1].pkt.kind = "Data" => es[1].pkt.main
    BY <1>2, <1>4, <2>2, AtFront
  <2>4. Ordered(h1, new) /\ Arrived(h1, new) \subseteq arrived
    BY <1>2, <1>3, <1>d, <2>2, <2>3, Taken DEF arrived
  <2> QED
    BY <1>2, <1>6, <2>1, <2>4
<1>13. CASE ReceiveData(s)
  <2> DEFINE p == wire[s][1]
  <2>1. /\ ~Busy(s) /\ c.live /\ c.listed /\ wire[s] # <<>> /\ p.kind = "Data" /\ p \in MessagePacket
        /\ d.in = c.in + 1 /\ Being(d) = Being(c) /\ q1 = q
        /\ \/ h1 = h /\ new = es
           \/ h1 = Append(h, p) /\ new = es /\ ~p.main
           \/ h1 = h /\ new = Append(es, Event(p, "this")) /\ p.main
    <3>1. p.kind = "Data" /\ p \in MessagePacket /\ p.main \in BOOLEAN
      BY <1>0, <1>13, ReceiveDataEffect, Packets
    <3> QED
      BY <1>0, <1>13, <3>1, ReceiveDataEffect DEF h, h1, es, new, q, q1, c, d, isHalfAccepted
  <2>2. d.listed = c.listed
    BY <2>1 DEF Being
  <2>3. p.number = c.in /\ p = e.log[p.number - LogStart(e) + 1] /\ p.number \in c.in .. e.out - 1
    <3>1. 1 \in DOMAIN wire[s]
      BY <1>w, <2>1, AtFront
    <3>2. p.number \in c.in .. e.out - 1 /\ p = e.log[p.number - LogStart(e) + 1]
      BY <1>w, <2>1, <3>1 DEF OnItsWay
    <3> QED
      BY <1>2, <1>w, <2>1, <3>2, NextOne
  <2> HIDE DEF p
  <2>4. \E k \in DOMAIN e.log : e.log[k] = p
    <3>1. /\ e.log \in Seq(MessagePacket) /\ e.out \in Nat /\ Len(e.log) \in Nat /\ DOMAIN e.log = 1 .. Len(e.log)
          /\ LogStart(e) = e.out - Len(e.log) /\ LogStart(e) \in Nat /\ LogStart(e) <= c.in
      BY <1>2, <1>l DEF Connection, LogStart
    <3> DEFINE len == Len(e.log)
               first == LogStart(e)
    <3>2. len \in Int /\ first \in Int /\ e.out \in Int /\ c.in \in Int /\ first = e.out - len /\ first <= c.in
          /\ c.in <= e.out - 1
      BY <1>2, <2>3, <3>1
    <3> HIDE DEF len, first
    <3>3. c.in - first + 1 \in 1 .. len
      BY <3>2
    <3> QED
      BY <2>3, <3>1, <3>3 DEF len, first
  <2>5. p \in coming /\ coming = {r \in Range(e.log) : r.number >= c.in}
    <3>1. coming = {r \in Range(e.log) : r.number >= c.in}
      BY <1>p, <2>1 DEF coming, Coming
    <3>2. p.number >= c.in
      BY <1>2, <2>3
    <3> QED
      BY <2>4, <3>1, <3>2 DEF Range
  <2>6. \A a \in arrived : a.nr < p.nr /\ Before(a, p)
    BY <1>3, <2>5 DEF Behind, Before
  <2>7. Ordered(h1, new) /\ \A a \in Arrived(h1, new) : a = p \/ a \in arrived
    BY <1>2, <1>3, <2>1, <2>6, Receipt DEF arrived
  <2>8. Coming(d, e, q) \subseteq coming /\ Rerouted(d, e, m, q)
    <3>1. d.in >= c.in
      BY <1>2, <2>1
    <3> QED
      BY <1>2, <1>3, <2>2, <3>1, NoMoreComing DEF coming
  <2>9. \A r \in Coming(d, e, q) : p.nr < r.nr
    <3> SUFFICES ASSUME NEW r \in Coming(d, e, q) PROVE p.nr < r.nr
      OBVIOUS
    <3>1. r \in Range(e.log) /\ r.number >= d.in
      BY <1>p, <2>1 DEF Coming
    <3>2. PICK k \in DOMAIN e.log : e.log[k] = p
      BY <2>4
    <3>3. PICK l \in DOMAIN e.log : e.log[l] = r
      BY <3>1 DEF Range
    <3>4. LogStart(e) + k - 1 = c.in /\ LogStart(e) + l - 1 >= c.in + 1
      BY <1>l, <2>1, <2>3, <3>1, <3>2, <3>3 DEF Numbered
    <3>5. k \in Int /\ l \in Int /\ LogStart(e) \in Int
      <4>1. e.log \in Seq(MessagePacket)
        BY <1>2 DEF Connection
      <4> QED
        BY <1>l, <4>1
    <3>6. k < l
      BY <1>2, <3>4, <3>5
    <3> QED
      BY <1>l, <3>2, <3>3, <3>6 DEF Rising
  <2>10. p.on = "this"
    BY <1>l, <2>4 DEF Numbered
  <2>11. Behind(Arrived(h1, new), Coming(d, e, q), q)
    BY <1>3, <2>7, <2>8, <2>9, <2>10 DEF Behind
  <2> QED
    BY <1>3, <2>1, <2>7, <2>8, <2>11
<1>14. CASE ReceiveOther(s)
  <2> DEFINE p == q[1]
  <2>1. /\ ~Busy(s) /\ q # <<>> /\ p.kind = "Data" /\ p \in MessagePacket /\ q1 = Tail(q) /\ d = c
        /\ \/ h1 = Append(h, p) /\ new = es /\ ~p.main
           \/ h1 = h /\ new = Append(es, Event(p, "other")) /\ p.main
    <3>1. p \in MessagePacket /\ p.main \in BOOLEAN
      BY <1>0, <1>14, ReceiveOtherEffect, Packets DEF q
    <3> QED
      BY <1>0, <1>14, <3>1, ReceiveOtherEffect DEF h, h1, es, new, q, q1, c, d
  <2> HIDE DEF p
  <2>2. /\ InTurn(q1) /\ 1 \in DOMAIN q /\ Len(q1) = Len(q) - 1 /\ Len(q) \in Nat
        /\ \A i \in DOMAIN q1 : i + 1 \in DOMAIN q /\ 1 < i + 1 /\ q1[i] = q[i + 1] /\ i \in Int
        /\ \A i \in Int : Brings(q, i + 1) => Brings(q1, i)
    BY <1>2, <1>3, <2>1, QueueTaken DEF p
  <2>3. p \in SentBy(o) /\ p.on = "other" /\ p.nr \in Nat
    BY <1>3, <1>4, <1>5, <2>1, <2>2 DEF InTurn, p
  <2>4. \A a \in arrived : Before(a, p)
    <3> SUFFICES ASSUME NEW a \in arrived PROVE Before(a, p)
      OBVIOUS
    <3>1. a.nr \in Nat /\ a.on \in {"this", "other"} /\ (a.nr = p.nr => a.on = p.on)
      BY <1>4, <1>5, <2>3
    <3>2. a.on = "other" => a.nr < p.nr
      BY <1>3, <2>1, <2>2 DEF Behind, p
    <3> QED
      BY <2>3, <3>1, <3>2 DEF Before
  <2>5. Ordered(h1, new) /\ \A a \in Arrived(h1, new) : a = p \/ a \in arrived
    BY <1>2, <1>3, <2>1, <2>4, Receipt DEF arrived
  <2>6. ~(q1 # <<>> /\ Head(q1).kind = "Recovery")
    BY <1>2, <1>p, <2>1, QueueSteps
  <2>7. Coming(d, e, q1) = coming /\ coming = {r \in Range(e.log) : c.listed /\ r.number >= c.in}
    BY <1>p, <2>1, <2>6 DEF coming, Coming
  <2>8. \A r \in coming : p.nr < r.nr
    <3> SUFFICES ASSUME NEW r \in coming PROVE p.nr < r.nr
      OBVIOUS
    <3>1. c.listed /\ r.number >= c.in /\ r \in Range(e.log)
      BY <2>7
    <3>2. PICK k \in DOMAIN e.log : e.log[k] = r
      BY <3>1 DEF Range
    <3>3. r.on = "this" /\ r \in SentBy(o)
      BY <1>4, <1>l, <3>2 DEF Numbered
    <3>4. r.nr \in Nat /\ r.nr # p.nr
      BY <1>5, <2>3, <3>3
    <3>5. ~Brings(q, 1)
      <4>1. \A j \in DOMAIN q : ~(j < 1)
        BY <1>2
      <4> QED
        BY <4>1 DEF Brings
    <3>6. ~(r.nr < p.nr)
      BY <1>3, <2>1, <2>2, <3>1, <3>2, <3>5 DEF Rerouted, p
    <3> QED
      BY <2>3, <3>4, <3>6
  <2>9. \A i \in DOMAIN q1 : q1[i].kind = "Data" => p.nr < q1[i].nr
    BY <1>3, <2>1, <2>2 DEF InTurn, p
  <2>10. Behind(Arrived(h1, new), coming, q1)
    BY <1>3, <2>2, <2>5, <2>8, <2>9 DEF Behind
  <2>11. Rerouted(c, e, m, q1)
    <3>1. e.postMortemSent /\ c.listed => Brings(q1, Len(q1) + 1)
      <4>1. Len(q) = Len(q1) + 1 /\ Len(q) \in Int
        BY <2>2
      <4> QED
        BY <1>3, <2>2, <4>1 DEF Rerouted
    <3> QED
      BY <1>3, <2>2, <3>1 DEF Rerouted
  <2> QED
    BY <2>1, <2>2, <2>5, <2>7, <2>10, <2>11
<1>15. CASE ReceivePostMortem(s)
  <2> DEFINE ps == PacketsFrom(PostMortem(e), c.in)
  <2>1. /\ ~Busy(s) /\ q # <<>> /\ q[1].kind = "PostMortem" /\ d = c /\ h1 = h /\ new = es
        /\ q1 = IF c.listed THEN [q EXCEPT ![1] = Recovery(PacketsFrom(q[1], c.in))] ELSE Tail(q)
    BY <1>0, <1>15, ReceivePostMortemEffect DEF h, h1, es, new, q, q1, c, d
  <2>2. q[1] = PostMortem(e)
    BY <1>2, <1>p, <2>1, AtFront DEF Queue
  <2>3. coming = {r \in Range(e.log) : c.listed /\ r.number >= c.in}
    BY <1>p, <2>1 DEF coming, Coming
  <2>4. CASE c.listed
    <3>1. /\ \A k \in DOMAIN ps : \E l \in DOMAIN e.log : ps[k] = e.log[l] /\ e.log[l].number >= c.in
          /\ InLine(ps)
      BY <1>2, <1>l, FromPostMortem
    <3>0. q1 = [q EXCEPT ![1] = Recovery(ps)]
      BY <2>1, <2>2, <2>4
    <3> HIDE DEF ps
    <3>2. Range(ps) \subseteq coming
      BY <2>3, <2>4, <3>1 DEF Range
    <3>3. /\ InTurn(q1) /\ Coming(d, e, q1) = Range(ps)
          /\ \A i \in DOMAIN q1 : q1[i].kind = "Data" => i \in DOMAIN q /\ q1[i] = q[i]
          /\ Rerouted(d, e, m, q1)
      <4>1. /\ q # <<>> /\ InTurn(q) /\ q[1].kind \in {"PostMortem", "Recovery"}
            /\ InLine(ps) /\ Rerouted(d, e, m, q)
        BY <1>3, <2>1, <3>1
      <4>2. q \in Seq(OtherPacket)
        BY <1>2
      <4> HIDE DEF ps
      <4> QED
        BY <3>0, <4>1, <4>2, QueueRecovers
    <3>4. Behind(arrived, Range(ps), q1)
      BY <1>3, <3>2, <3>3 DEF Behind
    <3> QED
      BY <1>3, <2>1, <3>3, <3>4 DEF arrived
  <2>5. CASE ~c.listed
    <3> HIDE DEF ps
    <3>1. q1 = Tail(q)
      BY <2>1, <2>5
    <3>2. ~(q1 # <<>> /\ Head(q1).kind = "Recovery")
      BY <1>2, <1>p, <2>1, <3>1, QueueSteps
    <3>3. Coming(d, e, q1) = {}
      BY <2>1, <2>5, <3>2 DEF Coming
    <3>4. /\ InTurn(q1)
          /\ \A i \in DOMAIN q1 : i + 1 \in DOMAIN q /\ q1[i] = q[i + 1]
      BY <1>2, <1>3, <2>1, <3>1, QueueTaken
    <3>5. Behind(arrived, {}, q1)
      BY <1>3, <3>4 DEF Behind
    <3>6. Rerouted(d, e, m, q1)
      BY <1>3, <2>1, <2>5 DEF Rerouted
    <3> QED
      BY <1>3, <2>1, <3>3, <3>4, <3>5, <3>6 DEF arrived
  <2> QED
    BY <2>4, <2>5
<1>16. CASE RecoverPacket(s)
  <2> DEFINE ps == Head(q).packets
             p == ps[1]
             rest == Tail(ps)
  <2>1. /\ Busy(s) /\ ps \in Seq(MessagePacket) /\ ps # <<>> /\ p \in MessagePacket /\ d = c
        /\ q1 = [q EXCEPT ![1] = Recovery(rest)]
        /\ \/ h1 = h /\ new = es
           \/ h1 = Append(h, p) /\ new = es /\ ~p.main
           \/ h1 = h /\ new = Append(es, Event(p, "this")) /\ p.main
    <3>1. p \in MessagePacket /\ p.main \in BOOLEAN
      BY <1>0, <1>16, RecoverPacketEffect, Packets DEF q
    <3> QED
      BY <1>0, <1>16, <3>1, RecoverPacketEffect DEF h, h1, es, new, q, q1, c, d, isHalfAccepted
  <2>2. q # <<>> /\ q[1] = Head(q) /\ 1 \in DOMAIN q /\ Head(q).kind = "Recovery"
    BY <1>2, <1>p, <2>1, AtFront
  <2>3. coming = Range(ps)
    BY <2>2 DEF coming, Coming
  <2>4. InLine(ps)
    BY <1>3, <2>2 DEF InTurn
  <2> HIDE DEF ps, p, rest
  <2>5. /\ 1 \in DOMAIN ps /\ \A k \in DOMAIN rest : k + 1 \in DOMAIN ps /\ rest[k] = ps[k + 1] /\ 1 < k + 1 /\ k \in Int
    BY <2>1, AtFront DEF rest
  <2>6. InLine(rest)
    <3>1. \A k, l \in DOMAIN rest : k < l => rest[k].nr < rest[l].nr
      <4> SUFFICES ASSUME NEW k \in DOMAIN rest, NEW l \in DOMAIN rest, k < l
                   PROVE  rest[k].nr < rest[l].nr
        OBVIOUS
      <4>1. k + 1 < l + 1
        BY <2>5
      <4> QED
        BY <2>4, <2>5, <4>1 DEF InLine
    <3> QED
      BY <2>4, <2>5, <3>1 DEF InLine
  <2>7. p \in coming /\ Range(rest) \subseteq coming
    BY <2>3, <2>5 DEF Range, p
  <2>8. \A r \in Range(rest) : p.nr < r.nr
    BY <2>4, <2>5 DEF Range, p, InLine
  <2>9. \A a \in arrived : a.nr < p.nr /\ Before(a, p)
    BY <1>3, <2>7 DEF Behind, Before
  <2>10. Ordered(h1, new) /\ \A a \in Arrived(h1, new) : a = p \/ a \in arrived
    BY <1>2, <1>3, <2>1, <2>9, Receipt DEF arrived
  <2>11. /\ InTurn(q1) /\ Coming(d, e, q1) = Range(rest)
         /\ \A i \in DOMAIN q1 : q1[i].kind = "Data" => i \in DOMAIN q /\ q1[i] = q[i]
         /\ Rerouted(d, e, m, q1)
    <3>1. /\ q # <<>> /\ InTurn(q) /\ q[1].kind \in {"PostMortem", "Recovery"}
          /\ Rerouted(d, e, m, q)
      BY <1>3, <2>1, <2>2
    <3>2. q \in Seq(OtherPacket) /\ q1 = [q EXCEPT ![1] = Recovery(rest)]
      BY <1>2, <2>1
    <3> QED
      BY <2>6, <3>1, <3>2, QueueRecovers
  <2>12. p.on = "this"
    BY <2>4, <2>5 DEF InLine, p
  <2>13. Behind(Arrived(h1, new), Range(rest), q1)
    BY <1>3, <2>7, <2>8, <2>10, <2>11, <2>12 DEF Behind
  <2> QED
    BY <2>10, <2>11, <2>13
<1> QED
  BY <1>8, <1>9, <1>10, <1>11, <1>12, <1>13, <1>14, <1>15, <1>16 DEF Action, NetworkThread, MainThread

(* At first nothing was sent. *)
LEMMA InitOrders == Init => Orders
<1> SUFFICES ASSUME Init, NEW s \in Sides
             PROVE  LET o == Other(s)
                    IN  /\ Ordered(handled[s], events[s])
                        /\ Behind(Arrived(handled[s], events[s]), Coming(conn[s], conn[o], other[s]), other[s])
                        /\ InTurn(other[s])
                        /\ Rerouted(conn[s], conn[o], msgConn[o], other[s])
  BY DEF Orders
<1> DEFINE o == Other(s)
<1>1. /\ handled[s] = <<>> /\ events[s] = <<>> /\ other[s] = <<>>
      /\ conn[o] = NewConn
  BY TwoSides DEF Init
<1>2. NewConn.log = <<>> /\ ~NewConn.postMortemSent
  BY DEF NewConn
<1>3. DOMAIN <<>> = {}
  OBVIOUS
<1>4. Ordered(<<>>, <<>>) /\ InTurn(<<>>)
  BY <1>3 DEF Ordered, InTurn
<1>5. \A p : p \notin Arrived(<<>>, <<>>)
  BY <1>3, ArrivedElement
<1>6. Behind(Arrived(<<>>, <<>>), Coming(conn[s], conn[o], <<>>), <<>>)
  BY <1>5 DEF Behind
<1>7. Rerouted(conn[s], NewConn, msgConn[o], <<>>)
  BY <1>2, <1>3 DEF Rerouted
<1> QED
  BY <1>1, <1>4, <1>6, <1>7

(* The inductive invariant: what is needed for Recovers, and the order.    *)
Orderly == Recoverable /\ Orders

(* Every step keeps it: only the side that acts and the other one change.  *)
LEMMA NextOrderly == Orderly /\ [Next]_vars => Orderly'
<1> SUFFICES ASSUME Orderly, [Next]_vars PROVE Orderly'
  OBVIOUS
<1>1. Recoverable /\ Orders /\ Recoverable'
  BY NextRecoverable DEF Orderly
<1>2. Types'
  BY <1>1, NextCarried DEF Recoverable, Carried
<1>3. ASSUME NEW s \in Sides, Action(s) PROVE Orders'
  <2> SUFFICES ASSUME NEW t \in Sides
               PROVE  LET o == Other(t)
                      IN  /\ Ordered(handled'[t], events'[t])
                          /\ Behind(Arrived(handled'[t], events'[t]), Coming(conn'[t], conn'[o], other'[t]), other'[t])
                          /\ InTurn(other'[t])
                          /\ Rerouted(conn'[t], conn'[o], msgConn'[o], other'[t])
    BY DEF Orders
  <2>1. t = s \/ (t = Other(s) /\ Other(t) = s)
    BY TwoSides
  <2>2. CASE t = s
    BY <1>1, <1>2, <1>3, <2>2, NextOrdersOwn
  <2>3. CASE t = Other(s) /\ Other(t) = s
    BY <1>1, <1>2, <1>3, <2>3, NextOrdersOther
  <2> QED
    BY <2>1, <2>2, <2>3
<1>4. ASSUME UNCHANGED vars PROVE Orders'
  BY <1>1, <1>4 DEF Orders, vars
<1>5. ASSUME Next PROVE Orders'
  <2>1. PICK s \in Sides : Action(s)
    BY <1>5 DEF Next, Action
  <2> QED
    BY <1>3, <2>1
<1> QED
  BY <1>1, <1>4, <1>5 DEF Orderly

(* What is handled in order is handled in the order it was sent.           *)
LEMMA OrderlyInOrder == Orderly => InOrder
<1> SUFFICES ASSUME Orderly, NEW s \in Sides, NEW i \in 1..Len(handled[s]), NEW j \in 1..Len(handled[s]),
                    i < j, handled[s][i].main = handled[s][j].main
             PROVE  Before(handled[s][i], handled[s][j])
  BY DEF InOrder, Before
<1>1. Ordered(handled[s], events[s])
  BY DEF Orderly, Orders
<1>2. handled[s] \in Seq(MessagePacket)
  BY DEF Orderly, Recoverable, Carried, Types
<1>3. i \in DOMAIN handled[s] /\ j \in DOMAIN handled[s]
  BY <1>2
<1> QED
  BY <1>1, <1>3 DEF Ordered

(* No message is handled twice, and those for the same thread in the order *)
(* they were sent, whatever a post mortem brings; only an older one that   *)
(* went over the other connection may be overtaken (C4Network2IO::         *)
(* HandlePacket, C4Network2IOConnection::OnPacketReceived).                *)
THEOREM InOrderHolds == Spec => []InOrder
<1>1. Init => Orderly
  BY InitRecoverable, InitOrders DEF Orderly
<1>2. Orderly /\ [Next]_vars => Orderly'
  BY NextOrderly
<1>3. Orderly => InOrder
  BY OrderlyInOrder
<1> QED
  BY <1>1, <1>2, <1>3, PTL DEF Spec
=============================================================================
