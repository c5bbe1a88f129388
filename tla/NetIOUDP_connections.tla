------------------------ MODULE NetIOUDP_connections ------------------------
(***************************************************************************)
(* Further theorems about reliable UDP: in the networks where it can be    *)
(* so, what is handed over is of one connection, and a connection is       *)
(* closed for "starvation" only when a list of sent packets has run over.  *)
(***************************************************************************)
EXTENDS NetIOUDP_proofs

-----------------------------------------------------------------------------
(* Whose data a peer has, and sends *)

(* The lives of the other side whose data were received.                   *)
LivesOf(h) ==
    (UNION {h.got[k].lives : k \in DOMAIN h.got}) \cup {f.life : f \in h.ipackets}

(* What a peer of the life l keeps and sends is its own.                   *)
Marked(h, l) ==
    /\ \A k \in DOMAIN h.opackets : h.opackets[k].life = l
    /\ \A k \in DOMAIN h.send : h.send[k].kind = "Data" => h.send[k].life = l
    /\ \A k \in DOMAIN h.got : h.got[k].lives # {}

(* A life is received where a packet handed over or a fragment has it.     *)
LEMMA LivesMember ==
    ASSUME NEW h, NEW x
    PROVE  x \in LivesOf(h) <=> \/ \E k \in DOMAIN h.got : x \in h.got[k].lives
                               \/ \E f \in h.ipackets : x = f.life
<1> DEFINE A == {h.got[k].lives : k \in DOMAIN h.got}
           B == {f.life : f \in h.ipackets}
<1>1. x \in UNION A <=> \E k \in DOMAIN h.got : x \in h.got[k].lives
  <2>1. x \in UNION A <=> \E y \in A : x \in y
    BY Zenon
  <2> QED
    BY <2>1, Zenon
<1>2. x \in B <=> \E f \in h.ipackets : x = f.life
  BY Zenon
<1>3. LivesOf(h) = (UNION A) \cup B
  BY DEF LivesOf
<1> HIDE DEF A, B
<1> QED
  BY <1>1, <1>2, <1>3

(* What is handed over of a row are the lives of its fragments.            *)
LEMMA PacketLives ==
    ASSUME NEW F, Fitting(F)
    PROVE  \A k \in DOMAIN Packets(F) :
              /\ Packets(F)[k].lives # {}
              /\ Packets(F)[k].lives \subseteq {f.life : f \in F}
<1> DEFINE S == Starts(F)
           N == Sorted(S)
           L(k) == {f.life : f \in {g \in F : g.fnr = N[k]}}
<1>1. \A k \in DOMAIN N : N[k] \in S
  BY StartsFinite, SortedNumbers
<1>2. \A k \in DOMAIN N : \E f \in F : f.fnr = N[k]
  BY <1>1 DEF Starts
<1>3. Packets(F) = [k \in DOMAIN N |-> [nr |-> N[k], cnt |-> Size(F, N[k]), lives |-> L(k)]]
  BY DEF Packets, Starts, Size
<1> HIDE DEF N
<1>4. \A k \in DOMAIN N : L(k) # {} /\ L(k) \subseteq {f.life : f \in F}
  BY <1>2
<1> HIDE DEF L
<1> QED
  BY <1>3, <1>4

(* What handing over does to a peer.                                       *)
LEMMA Completed ==
    ASSUME NEW h, Good(h), NEW c, c = CheckCompleteIPackets(h)
    PROVE  /\ c = [h EXCEPT !.got = c.got, !.i = c.i, !.ipackets = c.ipackets]
           /\ c.i >= h.i /\ c.ipackets \subseteq h.ipackets
           /\ c.i = h.i \/ \E f \in h.ipackets : c.i = End(f)
           /\ LivesOf(c) \subseteq LivesOf(h)
           /\ (\A k \in DOMAIN h.got : h.got[k].lives # {}) => \A k \in DOMAIN c.got : c.got[k].lives # {}
<1> DEFINE done == CompleteIPackets(h)
           P == Packets(done)
           d == [h EXCEPT !.got = h.got \o P, !.i = h.i + Cardinality(done), !.ipackets = h.ipackets \ done]
<1>1. h \in Peer /\ h.got \in Seq(Received) /\ h.i \in Nat /\ Fits(h)
  BY DEF Good, Peer
<1>2. done \in SUBSET h.ipackets /\ Row(done, h.i) /\ Cardinality(done) \in Nat
  BY <1>1, CompleteRow
<1>3. done = {} => Cardinality(done) = 0
  BY FS_EmptySet
<1>4. done # {} => \E f \in done : End(f) = h.i + Cardinality(done)
  BY <1>1, <1>2, RowLength
<1>5. P \in Seq(Received)
  BY <1>1, <1>2, RowPackets
<1>6. \A k \in DOMAIN P : P[k].lives # {} /\ P[k].lives \subseteq {f.life : f \in done}
  BY <1>2, PacketLives DEF Row
<1>7. c = IF h.status = "Works" THEN d ELSE h
  BY DEF CheckCompleteIPackets
<1> HIDE DEF done, P
<1>8. CASE h.status # "Works"
  <2>1. c = h
    BY <1>7, <1>8
  <2>2. h = [h EXCEPT !.got = h.got, !.i = h.i, !.ipackets = h.ipackets]
    BY <1>1 DEF Peer
  <2> QED
    BY <1>1, <2>1, <2>2
<1>9. CASE h.status = "Works"
  <2>1. c = d
    BY <1>7, <1>9
  <2>2. /\ d.got = h.got \o P /\ d.i = h.i + Cardinality(done) /\ d.ipackets = h.ipackets \ done
    BY <1>1 DEF Peer
  <2>3. \A k \in DOMAIN d.got : (k \in DOMAIN h.got /\ d.got[k] = h.got[k])
                                  \/ \E j \in DOMAIN P : d.got[k] = P[j]
    <3> SUFFICES ASSUME NEW k \in DOMAIN (h.got \o P)
                 PROVE  (k \in DOMAIN h.got /\ (h.got \o P)[k] = h.got[k])
                          \/ \E j \in DOMAIN P : (h.got \o P)[k] = P[j]
      BY <2>2
    <3>1. k \in 1 .. Len(h.got) \/ k - Len(h.got) \in 1 .. Len(P)
      BY <1>1, <1>5
    <3>2. CASE k \in 1 .. Len(h.got)
      BY <1>1, <1>5, <3>2
    <3>3. CASE k - Len(h.got) \in 1 .. Len(P) /\ k \notin 1 .. Len(h.got)
      BY <1>1, <1>5, <3>3
    <3> QED
      BY <3>1, <3>2, <3>3
  <2>4. d = [h EXCEPT !.got = d.got, !.i = d.i, !.ipackets = d.ipackets]
    BY <2>2
  <2> HIDE DEF d
  <2>5. d.i >= h.i /\ (d.i = h.i \/ \E f \in h.ipackets : d.i = End(f))
    BY <1>1, <1>2, <1>3, <1>4, <2>2
  <2>6. LivesOf(d) \subseteq LivesOf(h)
    <3> SUFFICES ASSUME NEW x \in LivesOf(d)
                 PROVE  \/ \E k \in DOMAIN h.got : x \in h.got[k].lives
                        \/ \E f \in h.ipackets : x = f.life
      BY LivesMember
    <3>1. (\E k \in DOMAIN d.got : x \in d.got[k].lives) \/ \E f \in d.ipackets : x = f.life
      BY LivesMember
    <3>2. (\E f \in d.ipackets : x = f.life) => \E f \in h.ipackets : x = f.life
      BY <2>2
    <3>3. ASSUME NEW k \in DOMAIN d.got, x \in d.got[k].lives
          PROVE  \/ \E j \in DOMAIN h.got : x \in h.got[j].lives
                 \/ \E f \in h.ipackets : x = f.life
      <4>1. (\E j \in DOMAIN P : d.got[k] = P[j]) => \E f \in done : x = f.life
        BY <1>6, <3>3
      <4> QED
        BY <1>2, <2>3, <3>3, <4>1
    <3> QED
      BY <3>1, <3>2, <3>3
  <2>7. (\A k \in DOMAIN h.got : h.got[k].lives # {}) => \A k \in DOMAIN d.got : d.got[k].lives # {}
    BY <1>6, <2>3
  <2> QED
    BY <2>1, <2>2, <2>4, <2>5, <2>6, <2>7
<1> QED
  BY <1>8, <1>9

(* Nobody's data. *)
LEMMA NoLives ==
    ASSUME NEW h, h.got = <<>>, h.ipackets = {}
    PROVE  LivesOf(h) = {}
<1>1. DOMAIN h.got = {}
  OBVIOUS
<1>2. \A x : x \notin LivesOf(h)
  BY <1>1, LivesMember
<1> QED
  BY <1>2

(* What a peer that keeps the same packets has sent since.                 *)
LEMMA MarkedLike ==
    ASSUME NEW l, NEW h \in Peer, Marked(h, l), NEW c, NEW ms \in Seq(Datagram),
           \A k \in DOMAIN ms : ms[k].kind = "Data" => ms[k].life = l,
           \A k \in DOMAIN c.opackets : \E j \in DOMAIN h.opackets : c.opackets[k] = h.opackets[j],
           c.got = h.got, c.send = h.send \o ms
    PROVE  Marked(c, l)
<1>1. h.send \in Seq(Datagram)
  BY DEF Peer
<1>2. \A k \in DOMAIN c.send : (k \in DOMAIN h.send /\ c.send[k] = h.send[k])
                                 \/ \E j \in DOMAIN ms : c.send[k] = ms[j]
  <2> SUFFICES ASSUME NEW k \in DOMAIN (h.send \o ms)
               PROVE  (k \in DOMAIN h.send /\ (h.send \o ms)[k] = h.send[k])
                        \/ \E j \in DOMAIN ms : (h.send \o ms)[k] = ms[j]
    OBVIOUS
  <2>1. k \in 1 .. Len(h.send) \/ k - Len(h.send) \in 1 .. Len(ms)
    BY <1>1
  <2>2. CASE k \in 1 .. Len(h.send)
    BY <1>1, <2>2
  <2>3. CASE k - Len(h.send) \in 1 .. Len(ms) /\ k \notin 1 .. Len(h.send)
    BY <1>1, <2>3
  <2> QED
    BY <2>1, <2>2, <2>3
<1>3. \A k \in DOMAIN c.send : c.send[k].kind = "Data" => c.send[k].life = l
  BY <1>2 DEF Marked
<1>4. \A k \in DOMAIN c.opackets : c.opackets[k].life = l
  BY DEF Marked
<1>5. \A k \in DOMAIN c.got : c.got[k].lives # {}
  BY DEF Marked
<1> QED
  BY <1>3, <1>4, <1>5 DEF Marked

(* A datagram without data. *)
LEMMA NoData ==
    ASSUME NEW l, NEW m \in Datagram, m.kind # "Data"
    PROVE  <<m>> \in Seq(Datagram) /\ \A k \in DOMAIN <<m>> : <<m>>[k].kind = "Data" => <<m>>[k].life = l
OBVIOUS

(* A peer of the life l whose data, received and sent, become those of c.  *)
Bears(h, c, l) == Marked(c, l) /\ LivesOf(c) \subseteq LivesOf(h)

(* A peer that closes. *)
LEMMA BearsClose ==
    ASSUME NEW l, NEW h, Good(h), h.status # "None", Marked(h, l)
    PROVE  /\ Marked(OnClose(h), l) /\ LivesOf(OnClose(h)) = {}
           /\ Marked(Close(h), l) /\ LivesOf(Close(h)) = {}
<1>1. CloseMsg \in Datagram /\ CloseMsg.kind # "Data"
  BY DEF CloseMsg, Datagram, Greeting
<1>2. <<CloseMsg>> \in Seq(Datagram) /\ \A k \in DOMAIN <<CloseMsg>> : <<CloseMsg>>[k].kind = "Data" => <<CloseMsg>>[k].life = l
  BY <1>1, NoData
<1>3. h \in Peer /\ h.send \in Seq(Datagram)
  BY DEF Good, Peer
<1> DEFINE b == SendDirect(h, <<CloseMsg>>)
<1>4. b.send = h.send \o <<CloseMsg>> /\ b.got = h.got /\ b.opackets = h.opackets /\ b \in Peer
  <2>1. h.send \o <<CloseMsg>> \in Seq(Datagram)
    BY <1>2, <1>3
  <2> QED
    BY <1>3, <2>1 DEF SendDirect, Peer
<1> HIDE DEF b
<1>5. Marked(b, l)
  BY <1>2, <1>3, <1>4, MarkedLike
<1>6. ASSUME NEW d \in Peer, Marked(d, l)
      PROVE  Marked(OnClose(d), l) /\ LivesOf(OnClose(d)) = {}
  <2> DEFINE e == OnClose(d)
  <2>1. e.got = <<>> /\ e.opackets = <<>> /\ e.ipackets = {} /\ e.send = d.send
    BY DEF OnClose, NoPeer, NewPeer
  <2> HIDE DEF e
  <2>2. DOMAIN e.got = {} /\ DOMAIN e.opackets = {}
    BY <2>1
  <2>3. Marked(e, l)
    BY <1>6, <2>1, <2>2 DEF Marked
  <2> QED
    BY <2>1, <2>3, NoLives DEF e
<1> QED
  BY <1>3, <1>4, <1>5, <1>6 DEF Close, b

(* Handing over. *)
LEMMA BearsComplete ==
    ASSUME NEW l, NEW h, Good(h), Marked(h, l)
    PROVE  Bears(h, CheckCompleteIPackets(h), l)
<1> DEFINE c == CheckCompleteIPackets(h)
<1>1. /\ c = [h EXCEPT !.got = c.got, !.i = c.i, !.ipackets = c.ipackets]
      /\ LivesOf(c) \subseteq LivesOf(h)
      /\ (\A k \in DOMAIN h.got : h.got[k].lives # {}) => \A k \in DOMAIN c.got : c.got[k].lives # {}
  BY Completed
<1> HIDE DEF c
<1>2. c.opackets = h.opackets /\ c.send = h.send
  BY <1>1 DEF Good, Peer
<1> QED
  BY <1>1, <1>2 DEF Bears, Marked, c

(* One Check at most is sent, with the numbers ask. *)
Inquires(h, c, ask, ms, a, t) ==
    /\ CheckMsg(h.o, h.i, ask) \in Datagram
    /\ ms = <<>> \/ ms = <<CheckMsg(h.o, h.i, ask)>>
    /\ c = [h EXCEPT !.asked = a, !.timer = t, !.send = h.send \o ms]

(* A Check tells what came complete and asks for what is missing above it. *)
LEMMA Checked ==
    ASSUME NEW h, Good(h), NEW force \in BOOLEAN, NEW c \in Check(h, force)
    PROVE  \/ c = h /\ h.status # "Works"
           \/ \E ask \in SUBSET (h.i .. h.r - 1), ms \in Seq(Datagram), a \in Nat, t \in BOOLEAN :
                 Inquires(h, c, ask, ms, a, t)
<1>1. h \in Peer /\ h.i \in Nat /\ h.r \in Nat /\ h.o \in Nat /\ h.asked \in Nat /\ h.timer \in BOOLEAN
  BY DEF Good, Peer
<1> DEFINE ask == FirstOf(Missing(h))
           low == IF h.timer THEN larger(h.asked + 1, h.i) ELSE h.i
           a == IF ask # {} THEN Max(ask) ELSE IF h.timer THEN h.asked ELSE 0
           t == h.timer \/ ask # {}
           ms == IF ask # {} \/ force THEN <<CheckMsg(h.o, h.i, ask)>> ELSE <<>>
<1>2. low \in Nat /\ low >= h.i
  BY <1>1 DEF larger
<1>3. ask \subseteq low .. h.r - 1
  BY DEF FirstOf, Missing
<1>4. ~(h.status = "Works") => c = h
  BY DEF Check
<1>5. h.status = "Works" => c = [[h EXCEPT !.asked = a, !.timer = t] EXCEPT !.send = [h EXCEPT !.asked = a, !.timer = t].send \o ms]
  BY DEF Check, Ask, SendDirect
<1> HIDE DEF ask, low
<1>6. ask \in SUBSET (h.i .. h.r - 1) /\ ask \in SUBSET Nat /\ IsFiniteSet(ask)
  <2>1. low .. h.r - 1 \subseteq h.i .. h.r - 1 /\ low .. h.r - 1 \subseteq Nat
    BY <1>1, <1>2
  <2>2. IsFiniteSet(low .. h.r - 1)
    <3>1. low \in Int /\ h.r - 1 \in Int
      BY <1>1, <1>2
    <3> QED
      BY <3>1, FS_Interval
  <2>3. IsFiniteSet(ask)
    BY <1>3, <2>2, FS_Subset
  <2> QED
    BY <1>3, <2>1, <2>3
<1>7. a \in Nat
  BY <1>1, <1>6, MaxOfSet
<1>8. CheckMsg(h.o, h.i, ask) \in Datagram
  BY <1>1, <1>6 DEF CheckMsg, Datagram, Question
<1>9. ms \in Seq(Datagram) /\ (ms = <<>> \/ ms = <<CheckMsg(h.o, h.i, ask)>>)
  BY <1>8
<1>10. t \in BOOLEAN
  BY <1>1
<1> HIDE DEF a, t, ms
<1>11. h.status = "Works" => c = [h EXCEPT !.asked = a, !.timer = t, !.send = h.send \o ms]
  BY <1>1, <1>5 DEF Peer
<1>12. h.status = "Works" => Inquires(h, c, ask, ms, a, t)
  BY <1>8, <1>9, <1>11 DEF Inquires
<1> QED
  BY <1>4, <1>6, <1>7, <1>9, <1>10, <1>12

(* A Check. *)
LEMMA BearsCheck ==
    ASSUME NEW l, NEW h, Good(h), Marked(h, l), NEW force \in BOOLEAN, NEW c \in Check(h, force)
    PROVE  Bears(h, c, l) /\ c.got = h.got /\ c.ipackets = h.ipackets /\ c.i = h.i
<1>1. h \in Peer
  BY DEF Good
<1>2. CASE c = h
  BY <1>2 DEF Bears
<1>3. ASSUME NEW ask, NEW ms \in Seq(Datagram), NEW a, NEW t, Inquires(h, c, ask, ms, a, t)
      PROVE  Bears(h, c, l) /\ c.got = h.got /\ c.ipackets = h.ipackets /\ c.i = h.i
  <2>1. /\ c.got = h.got /\ c.ipackets = h.ipackets /\ c.i = h.i /\ c.opackets = h.opackets
        /\ c.send = h.send \o ms
    BY <1>1, <1>3 DEF Peer, Inquires
  <2>2. CheckMsg(h.o, h.i, ask).kind # "Data"
    BY DEF CheckMsg
  <2>3. \A k \in DOMAIN ms : ms[k].kind = "Data" => ms[k].life = l
    <3>1. CASE ms = <<>>
      BY <3>1
    <3>2. CASE ms = <<CheckMsg(h.o, h.i, ask)>>
      BY <1>3, <2>2, <3>2, NoData DEF Inquires
    <3> QED
      BY <1>3, <3>1, <3>2 DEF Inquires
  <2>4. Marked(c, l)
    BY <1>1, <2>1, <2>3, MarkedLike
  <2> QED
    BY <2>1, <2>4 DEF Bears, LivesOf
<1> QED
  BY <1>2, <1>3, Checked

(* The application hears of the connection. *)
LEMMA BearsOnConn ==
    ASSUME NEW l, NEW h, Good(h), h.status # "None", Marked(h, l), NEW accept \in BOOLEAN
    PROVE  Bears(h, OnConn(h, accept), l)
<1> DEFINE b == [h EXCEPT !.status = "Works"]
<1>1. h \in Peer
  BY DEF Good
<1>2. /\ b \in Peer /\ b.status = "Works" /\ b.opackets = h.opackets /\ b.o = h.o /\ b.i = h.i
      /\ b.ipackets = h.ipackets /\ b.got = h.got /\ b.first = h.first /\ b.send = h.send
  BY <1>1 DEF Peer
<1>3. OnConn(h, accept) = IF accept THEN CheckCompleteIPackets(b) ELSE Close(b)
  BY DEF OnConn
<1> HIDE DEF b
<1>4. Good(b)
  BY <1>2 DEF Good, Fits, Own, HandedOver, Waits, Rests
<1>5. Marked(b, l) /\ LivesOf(b) = LivesOf(h)
  BY <1>2 DEF Marked, LivesOf
<1> QED
  BY <1>2, <1>3, <1>4, <1>5, BearsComplete, BearsClose DEF Bears

(* A Conn: the connection starts anew, unless it goes on.                  *)
LEMMA BearsConn ==
    ASSUME NEW l, NEW h, Good(h), h.status # "None", Marked(h, l), NEW m \in Greeting, NEW accept \in BOOLEAN
    PROVE  /\ Bears(h, HandleConn(h, m, accept), l)
           /\ m.nr = 0 => LivesOf(HandleConn(h, m, accept)) = {}
<1> DEFINE begun == h.status = "Works" /\ h.i # m.nr
           a == [h EXCEPT !.got = <<>>]
           old == IF begun THEN DoConn(a) ELSE h
           new == [old EXCEPT !.r = m.nr, !.i = m.nr, !.ipackets = {}, !.timer = FALSE, !.asked = 0,
                              !.first = IF old.got = <<>> THEN m.nr ELSE old.first]
           d == SendDirect(new, <<ConnOKMsg(new.o)>>)
<1>1. h \in Peer /\ h.o \in Nat /\ m.nr \in Nat /\ h.status \in {"Conn", "Works"}
  BY DEF Good, Peer, Greeting
<1>2. ConnMsg(h.o) \in Datagram /\ ConnOKMsg(h.o) \in Datagram
  BY <1>1 DEF ConnMsg, ConnOKMsg, Datagram, Greeting
<1>3. /\ <<ConnMsg(h.o)>> \in Seq(Datagram) /\ <<ConnOKMsg(h.o)>> \in Seq(Datagram)
      /\ ConnMsg(h.o).kind # "Data" /\ ConnOKMsg(h.o).kind # "Data"
  BY <1>2 DEF ConnMsg, ConnOKMsg
<1>4. \A k \in DOMAIN <<ConnMsg(h.o)>> : <<ConnMsg(h.o)>>[k].kind = "Data" => <<ConnMsg(h.o)>>[k].life = l
  BY <1>2, <1>3, NoData
<1>5. \A k \in DOMAIN <<ConnOKMsg(h.o)>> : <<ConnOKMsg(h.o)>>[k].kind = "Data" => <<ConnOKMsg(h.o)>>[k].life = l
  BY <1>2, <1>3, NoData
(* What was handed over is forgotten where the connection starts anew.     *)
<1>6. /\ old \in Peer /\ Own(old) /\ old.o = h.o /\ old.status # "None" /\ Marked(old, l)
      /\ old.got = <<>> \/ (old.got = h.got /\ ~begun)
      /\ Waits(old) /\ Follow(old.got, old.first) /\ (old.got = <<>> \/ Reach(old.got, old.first) = m.nr)
  <2>1. CASE begun
    <3>1. MaxRetries \in 0 .. MaxRetries
      BY OptionsAssumption
    <3>2. a \in Peer /\ a.o = h.o /\ a.send = h.send /\ a.opackets = h.opackets /\ a.got = <<>>
      <4>1. <<>> \in Seq(Received)
        OBVIOUS
      <4> QED
        BY <1>1, <4>1 DEF Peer
    <3> HIDE DEF a
    <3>3. DoConn(a) = [[a EXCEPT !.status = "Conn", !.retries = MaxRetries] EXCEPT
                          !.send = a.send \o <<ConnMsg(a.o)>>]
      BY <3>2 DEF DoConn, SendDirect, Peer
    <3>4. a.send \o <<ConnMsg(a.o)>> \in Seq(Datagram)
      BY <1>3, <3>2 DEF Peer
    <3>5. /\ DoConn(a) \in Peer /\ DoConn(a).o = h.o /\ DoConn(a).opackets = h.opackets
          /\ DoConn(a).status = "Conn" /\ DoConn(a).got = <<>>
          /\ DoConn(a).send = h.send \o <<ConnMsg(h.o)>>
      BY <3>1, <3>2, <3>3, <3>4 DEF Peer
    <3>6. old = DoConn(a)
      BY <2>1
    <3> HIDE DEF old
    <3>7. Own(old)
      BY <3>5, <3>6 DEF Own, Good
    <3>8. Marked(a, l) /\ a \in Peer
      <4>1. DOMAIN a.got = {}
        BY <3>2
      <4> QED
        BY <3>2, <4>1 DEF Marked
    <3>9. Marked(old, l)
      BY <1>3, <1>4, <3>2, <3>5, <3>6, <3>8, MarkedLike
    <3> QED
      BY <3>5, <3>6, <3>7, <3>9 DEF Waits, Follow
  <2>2. CASE ~begun
    <3>1. old = h
      BY <2>2
    <3> HIDE DEF old
    <3>2. h.got = <<>> \/ Reach(h.got, h.first) = m.nr
      BY <1>1, <2>2 DEF Good, Waits, HandedOver
    <3> QED
      BY <1>1, <2>2, <3>1, <3>2 DEF Good, HandedOver
  <2> QED
    BY <2>1, <2>2
<1>7. HandleConn(h, m, accept) = OnConn(d, accept)
  BY DEF HandleConn
<1> HIDE DEF old
<1> DEFINE first == IF old.got = <<>> THEN m.nr ELSE old.first
<1>8. new = [old EXCEPT !.r = m.nr, !.i = m.nr, !.ipackets = {}, !.timer = FALSE, !.asked = 0, !.first = first]
  OBVIOUS
<1>9. first \in Nat
  BY <1>1, <1>6 DEF Peer
<1> HIDE DEF new
<1>10. /\ new \in Peer /\ new.o = h.o /\ new.status = old.status /\ new.opackets = old.opackets
       /\ new.i = m.nr /\ new.ipackets = {} /\ new.got = old.got /\ new.first = first
       /\ new.send = old.send
  <2> HIDE DEF first
  <2> QED
    BY <1>1, <1>6, <1>8, <1>9 DEF Peer
<1>11. Good(new)
  <2>1. Fits(new)
    BY <1>10, FS_EmptySet DEF Fits, Fitting
  <2>2. Own(new) /\ Waits(new) /\ Rests(new)
    BY <1>6, <1>10 DEF Own, Waits, Rests
  <2>3. HandedOver(new)
    BY <1>6, <1>10 DEF HandedOver, Follow, Reach
  <2> QED
    BY <1>10, <2>1, <2>2, <2>3 DEF Good
<1>12. Marked(new, l)
  BY <1>6, <1>10 DEF Marked
<1>13. /\ Good(d) /\ d.status # "None" /\ d.send = new.send \o <<ConnOKMsg(new.o)>>
       /\ d.opackets = new.opackets /\ d.got = new.got /\ d.ipackets = new.ipackets
  <2>1. new.status # "None" /\ <<ConnOKMsg(new.o)>> \in Seq(Datagram)
    BY <1>3, <1>6, <1>10
  <2>2. Good(d) /\ d.status # "None"
    <3> HIDE DEF d
    <3>1. Good(SendDirect(new, <<ConnOKMsg(new.o)>>)) /\ SendDirect(new, <<ConnOKMsg(new.o)>>).status # "None"
      BY <1>11, <2>1, GoodSend
    <3> QED
      BY <3>1 DEF d
  <2> QED
    BY <1>10, <2>2 DEF SendDirect, Peer
<1> HIDE DEF d
<1>14. Marked(d, l)
  BY <1>3, <1>5, <1>10, <1>12, <1>13, MarkedLike
<1>15. LivesOf(d) \subseteq LivesOf(h)
  <2>1. CASE d.got = <<>>
    BY <1>10, <1>13, <2>1, NoLives
  <2>2. CASE d.got = h.got
    BY <1>10, <1>13, <2>2 DEF LivesOf
  <2> QED
    BY <1>6, <1>10, <1>13, <2>1, <2>2
(* A connection that goes on at 0 has not handed over anything.            *)
<1>16. m.nr = 0 => LivesOf(d) = {}
  <2> SUFFICES ASSUME m.nr = 0 PROVE d.got = <<>>
    BY <1>10, <1>13, NoLives
  <2>1. CASE old.got # <<>>
    <3> DEFINE x == old.got[Len(old.got)]
    <3>1. x \in Received /\ x.nr + x.cnt = m.nr
      BY <1>6, <2>1 DEF Reach, Peer
    <3>2. x.nr \in Nat /\ x.cnt \in Nat \ {0}
      BY <3>1, SizesAssumption DEF Received
    <3> QED
      BY <3>1, <3>2
  <2> QED
    BY <1>10, <1>13, <2>1
<1>17. Bears(d, OnConn(d, accept), l)
  BY <1>13, <1>14, BearsOnConn
<1> QED
  BY <1>7, <1>15, <1>16, <1>17 DEF Bears

(* Data: a fragment that is new and fits is kept. *)
LEMMA BearsData ==
    ASSUME NEW l, NEW h, Good(h), h.status # "None", Marked(h, l), NEW m \in Fragment
    PROVE  LET c == HandleData(h, m) IN Marked(c, l) /\ LivesOf(c) \subseteq LivesOf(h) \cup {m.life}
<1> DEFINE b == AddFragment(h, m)
           c == HandleData(h, m)
<1>1. h \in Peer
  BY DEF Good
<1>2. b = h \/ b = [h EXCEPT !.ipackets = h.ipackets \cup {m}]
  BY DEF AddFragment
<1>3. c = IF m.nr < h.i THEN h ELSE CheckCompleteIPackets(b)
  BY DEF HandleData
<1>4. ~(m.nr < h.i) => Good(b) /\ b.status # "None"
  BY GoodAdd
<1> HIDE DEF b, c
<1>5. b.got = h.got /\ b.opackets = h.opackets /\ b.send = h.send /\ b.ipackets \subseteq h.ipackets \cup {m}
  BY <1>1, <1>2 DEF Peer
<1>6. Marked(b, l)
  BY <1>5 DEF Marked
<1>7. \A x : x \in LivesOf(b) => x \in LivesOf(h) \/ x = m.life
  <2> SUFFICES ASSUME NEW x, x \in LivesOf(b), x # m.life PROVE x \in LivesOf(h)
    OBVIOUS
  <2>1. (\E k \in DOMAIN h.got : x \in h.got[k].lives) \/ \E f \in h.ipackets : x = f.life
    BY <1>5, LivesMember
  <2> QED
    BY <2>1, LivesMember
<1>8. ~(m.nr < h.i) => Bears(b, c, l)
  BY <1>3, <1>4, <1>6, BearsComplete
<1> QED
  BY <1>3, <1>7, <1>8 DEF Bears, c

(* A Check: what is sent again is one's own. *)
LEMMA BearsAnswer ==
    ASSUME NEW l, NEW h, Good(h), h.status # "None", Marked(h, l), NEW m \in Question
    PROVE  Bears(h, HandleCheck(h, m), l)
<1> DEFINE P == ClearPackets(h.opackets, m.ack)
           found == {n \in m.ask : \A k \in m.ask : k <= n => HasFragment(P, k)}
           N == Sorted(found)
           resend == [k \in DOMAIN N |-> GetFragment(GetPacketFrgm(P, N[k]), N[k])]
           a == [h EXCEPT !.opackets = P]
           b == SendDirect(a, resend)
           Excused(n) == n < h.thrown \/ HasFragment(P, n)
           x == {IF \A n \in m.ask : Excused(n) THEN "Thrown" ELSE "Cleared"}
           d == [b EXCEPT !.starved = x]
<1>0. Good(b) /\ Good(d) /\ b.status # "None" /\ d.status # "None" /\ resend \in Seq(Datagram)
  <2>1. x \in SUBSET Reasons
    BY DEF Reasons
  <2> HIDE DEF x
  <2> QED
    BY <2>1, AnswerParts
<1>15. HandleCheck(h, m) = IF found = m.ask THEN b ELSE Close(d)
  BY DEF HandleCheck
<1> HIDE DEF x
<1>1. /\ h \in Peer /\ h.o \in Nat /\ h.opackets \in Seq(OPacket)
      /\ m.ack \in Nat /\ m.ask \in SUBSET Nat /\ IsFiniteSet(m.ask)
  BY DEF Good, Peer, Question
<1>2. P \in Seq(OPacket) /\ \A k \in DOMAIN P : \E j \in DOMAIN h.opackets : P[k] = h.opackets[j]
  BY <1>1, ClearedPackets
<1> HIDE DEF P
<1>3. found \in SUBSET m.ask /\ \A n \in found : n \in Nat /\ HasFragment(P, n)
  BY <1>1
<1>4. found \in SUBSET Nat /\ IsFiniteSet(found)
  BY <1>1, <1>3, FS_Subset
<1> HIDE DEF found
<1>5. Cardinality(found) \in Nat /\ DOMAIN N = 1 .. Cardinality(found) /\ \A k \in DOMAIN N : N[k] \in found
  BY <1>4, SortedNumbers
<1> HIDE DEF N
<1>6. ASSUME NEW k \in DOMAIN resend PROVE resend[k].life = l
  <2> DEFINE n == N[k]
             p == GetPacketFrgm(P, n)
  <2>1. HasFragment(P, n) /\ resend[k] = GetFragment(p, n)
    BY <1>3, <1>5
  <2>2. \E j \in DOMAIN P : n \in Numbers(P[j])
    BY <2>1 DEF HasFragment
  <2>3. \E j \in DOMAIN P : p = P[j]
    BY <2>2 DEF GetPacketFrgm
  <2> HIDE DEF p, n
  <2>4. p.life = l
    BY <1>2, <2>3 DEF Marked
  <2> QED
    BY <2>1, <2>4 DEF GetFragment
<1> HIDE DEF resend
<1>7. /\ a.opackets = P /\ a.got = h.got /\ a.ipackets = h.ipackets /\ a.send = h.send /\ a \in Peer
  BY <1>1, <1>2 DEF Peer
<1> HIDE DEF a
<1>8. b.opackets = P /\ b.got = h.got /\ b.ipackets = h.ipackets /\ b.send = h.send \o resend
  BY <1>7 DEF SendDirect, Peer
<1>9. b \in Peer
  BY <1>0 DEF Good
<1> HIDE DEF b
<1>10. /\ d.opackets = P /\ d.got = h.got /\ d.ipackets = h.ipackets /\ d.send = h.send \o resend
  BY <1>8, <1>9 DEF Peer
<1> HIDE DEF d
<1>11. Marked(b, l) /\ Marked(d, l)
  <2>1. \A k \in DOMAIN resend : resend[k].kind = "Data" => resend[k].life = l
    BY <1>6
  <2>2. \A k \in DOMAIN b.opackets : \E j \in DOMAIN h.opackets : b.opackets[k] = h.opackets[j]
    BY <1>2, <1>8
  <2>3. \A k \in DOMAIN d.opackets : \E j \in DOMAIN h.opackets : d.opackets[k] = h.opackets[j]
    BY <1>2, <1>10
  <2>4. Marked(b, l)
    BY <1>0, <1>1, <1>8, <2>1, <2>2, MarkedLike
  <2> QED
    BY <1>0, <1>1, <1>10, <2>1, <2>3, <2>4, MarkedLike
<1>12. LivesOf(b) = LivesOf(h)
  BY <1>8 DEF LivesOf
<1>13. Marked(Close(d), l) /\ LivesOf(Close(d)) = {}
  BY <1>0, <1>11, BearsClose
<1> QED
  BY <1>11, <1>12, <1>13, <1>15 DEF Bears, P, found, N, resend, a, b, d

(* Whatever datagram comes, a peer keeps and sends its own data, and has   *)
(* received nobody's but the datagram's that it had not; a Conn for 0      *)
(* makes it forget what it received.                                       *)
LEMMA BearsRecv ==
    ASSUME NEW l, NEW h, Good(h), h.status # "None", Marked(h, l), NEW m \in Datagram,
           NEW accept \in BOOLEAN, NEW c \in OnPacket(h, m, accept)
    PROVE  /\ Marked(c, l)
           /\ \A x \in LivesOf(c) : x \in LivesOf(h) \/ (m.kind = "Data" /\ x = m.life)
           /\ m = ConnMsg(0) => LivesOf(c) = {}
<1> DEFINE a == [h EXCEPT !.r = larger(h.r, m.nr)]
<1>1. h \in Peer
  BY DEF Good
<1>2. m.nr \in Nat /\ larger(h.r, m.nr) \in Nat
  BY <1>1 DEF Datagram, Fragment, Question, Greeting, Peer, larger
<1>3. /\ a \in Peer /\ a.status = h.status /\ a.o = h.o /\ a.opackets = h.opackets
      /\ a.i = h.i /\ a.ipackets = h.ipackets /\ a.got = h.got /\ a.first = h.first /\ a.send = h.send
  BY <1>1, <1>2 DEF Peer
<1>4. PICK b \in Check(a, FALSE) : c = Handle(b, m, accept)
  BY DEF OnPacket, OnRecv
<1> HIDE DEF a
<1>5. Good(a) /\ Marked(a, l) /\ LivesOf(a) = LivesOf(h)
  <2>1. Good(a)
    BY <1>3, GoodLike
  <2> QED
    BY <1>3, <2>1 DEF Marked, LivesOf
<1>6. Good(b) /\ b.status # "None"
  BY <1>3, <1>5, GoodCheck
<1>7. Marked(b, l) /\ LivesOf(b) \subseteq LivesOf(h)
  BY <1>5, BearsCheck DEF Bears
<1>8. CASE m \in Fragment
  <2>1. c = HandleData(b, m) /\ m.kind = "Data"
    BY <1>4, <1>8 DEF Handle, Fragment
  <2>2. Marked(c, l) /\ LivesOf(c) \subseteq LivesOf(b) \cup {m.life}
    BY <1>6, <1>7, <1>8, <2>1, BearsData
  <2>3. m # ConnMsg(0)
    BY <2>1 DEF ConnMsg
  <2> QED
    BY <1>7, <2>1, <2>2, <2>3
<1>9. CASE m \in Question
  <2>1. c = HandleCheck(b, m) /\ m.kind = "Check"
    BY <1>4, <1>9 DEF Handle, Question
  <2>2. Bears(b, c, l)
    BY <1>6, <1>7, <1>9, <2>1, BearsAnswer
  <2>3. m # ConnMsg(0)
    BY <2>1 DEF ConnMsg
  <2> QED
    BY <1>7, <2>2, <2>3 DEF Bears
<1>10. CASE m \in Greeting
  <2>1. m.kind = "Conn" => c = HandleConn(b, m, accept)
    BY <1>4 DEF Handle
  <2>2. m.kind = "ConnOK" => c = b \/ c = OnConn(b, accept)
    BY <1>4 DEF Handle, HandleConnOK
  <2>3. m.kind = "Close" => c = OnClose(b)
    BY <1>4 DEF Handle
  <2>4. m.kind \in {"Conn", "ConnOK", "Close"}
    BY <1>10 DEF Greeting
  <2>5. m = ConnMsg(0) => m.kind = "Conn" /\ m.nr = 0
    BY DEF ConnMsg
  <2>6. /\ Bears(b, HandleConn(b, m, accept), l)
        /\ m.nr = 0 => LivesOf(HandleConn(b, m, accept)) = {}
    BY <1>6, <1>7, <1>10, BearsConn
  <2>7. Bears(b, OnConn(b, accept), l) /\ Marked(OnClose(b), l) /\ LivesOf(OnClose(b)) = {}
    BY <1>6, <1>7, BearsOnConn, BearsClose
  <2> QED
    BY <1>7, <2>1, <2>2, <2>3, <2>4, <2>5, <2>6, <2>7 DEF Bears
<1> QED
  BY <1>8, <1>9, <1>10 DEF Datagram

-----------------------------------------------------------------------------
(* One connection after the other *)

(* At the place k on the way to a peer data of the life x: 0 is what the   *)
(* peer has, the place behind the last datagram what is sent next.         *)
Holds(X, q, S, k, x) ==
    \/ k = 0 /\ x \in X
    \/ k \in DOMAIN q /\ q[k].kind = "Data" /\ x = q[k].life
    \/ k = Len(q) + 1 /\ x \in S

(* Between the data of two lives there is the Conn of a new peer.          *)
Greets(q, j, k) == \E n \in DOMAIN q : j <= n /\ n <= k /\ q[n] = ConnMsg(0)
Parted(X, q, S) ==
    \A j, k \in 0 .. Len(q) + 1 : \A x, y :
        Holds(X, q, S, j, x) /\ Holds(X, q, S, k, y) /\ j <= k /\ x # y => Greets(q, j, k)

(* With nothing between them what a peer has is of one life.               *)
LEMMA PartedLives ==
    ASSUME NEW X, NEW q \in Seq(Datagram), NEW S, Parted(X, q, S)
    PROVE  \A x, y \in X : x = y
<1> SUFFICES ASSUME NEW x \in X, NEW y \in X, x # y PROVE FALSE
  OBVIOUS
<1>1. 0 \in 0 .. Len(q) + 1 /\ Holds(X, q, S, 0, x) /\ Holds(X, q, S, 0, y)
  BY DEF Holds
<1>2. Greets(q, 0, 0)
  BY <1>1 DEF Parted
<1> QED
  BY <1>2 DEF Greets

(* A peer that has less. *)
LEMMA PartedLess ==
    ASSUME NEW X, NEW q \in Seq(Datagram), NEW S, Parted(X, q, S), NEW Y \in SUBSET X
    PROVE  Parted(Y, q, S)
<1>1. \A k, x : Holds(Y, q, S, k, x) => Holds(X, q, S, k, x)
  BY DEF Holds
<1> QED
  BY <1>1 DEF Parted

(* The peer gets the first datagram.                                       *)
LEMMA PartedTail ==
    ASSUME NEW X, NEW q \in Seq(Datagram), NEW S, Parted(X, q, S), q # <<>>, NEW Y,
           \A x \in Y : x \in X \/ (Head(q).kind = "Data" /\ x = Head(q).life),
           Head(q) = ConnMsg(0) => Y = {}
    PROVE  Parted(Y, Tail(q), S)
<1> DEFINE r == Tail(q)
           n == Len(q)
<1>1. /\ n \in Nat /\ n > 0 /\ Len(r) = n - 1 /\ Head(q) = q[1] /\ 1 \in DOMAIN q
      /\ \A k \in 1 .. n - 1 : r[k] = q[k + 1] /\ k + 1 \in DOMAIN q
      /\ DOMAIN r = 1 .. n - 1 /\ DOMAIN q = 1 .. n
  OBVIOUS
<1> SUFFICES Parted(Y, r, S)
  OBVIOUS
<1> HIDE DEF r
<1> SUFFICES ASSUME NEW j \in 0 .. Len(r) + 1, NEW k \in 0 .. Len(r) + 1, NEW x, NEW y,
                    Holds(Y, r, S, j, x), Holds(Y, r, S, k, y), j <= k, x # y
             PROVE  Greets(r, j, k)
  BY Zenon DEF Parted
<1> SUFFICES \E i \in 1 .. n - 1 : j <= i /\ i <= k /\ r[i] = ConnMsg(0)
  BY <1>1 DEF Greets
<1>0. j \in 0 .. n /\ k \in 0 .. n
  BY <1>1
(* Where the data were before. *)
<1>2. ASSUME NEW a \in 0 .. n, NEW z, Holds(Y, r, S, a, z)
      PROVE  \/ a > 0 /\ Holds(X, q, S, a + 1, z)
             \/ a = 0 /\ Head(q) # ConnMsg(0) /\ \E b \in {0, 1} : Holds(X, q, S, b, z)
  <2>1. CASE a = 0
    <3>1. z \in Y
      BY <1>1, <1>2, <2>1 DEF Holds
    <3>2. Head(q) # ConnMsg(0) /\ (z \in X \/ (Head(q).kind = "Data" /\ z = Head(q).life))
      BY <3>1
    <3> QED
      BY <1>1, <2>1, <3>2 DEF Holds
  <2>2. CASE a > 0
    <3>1. CASE a = n
      BY <1>1, <1>2, <2>2, <3>1 DEF Holds
    <3>2. CASE a # n
      BY <1>1, <1>2, <2>2, <3>2 DEF Holds
    <3> QED
      BY <3>1, <3>2
  <2> QED
    BY <2>1, <2>2
<1>3. ASSUME NEW a \in 0 .. n + 1, NEW b \in 0 .. n + 1, a <= b, Holds(X, q, S, a, x), Holds(X, q, S, b, y)
      PROVE  \E i \in 1 .. n : a <= i /\ i <= b /\ q[i] = ConnMsg(0)
  BY <1>1, <1>3 DEF Parted, Greets
<1>4. ASSUME NEW a \in 0 .. n + 1, NEW b \in 0 .. n + 1, a <= b, Holds(X, q, S, a, y), Holds(X, q, S, b, x)
      PROVE  \E i \in 1 .. n : a <= i /\ i <= b /\ q[i] = ConnMsg(0)
  BY <1>1, <1>4 DEF Parted, Greets
<1>5. CASE j > 0
  <2>1. k > 0 /\ j + 1 \in 0 .. n + 1 /\ k + 1 \in 0 .. n + 1 /\ j + 1 <= k + 1
    BY <1>0, <1>1, <1>5
  <2>2. Holds(X, q, S, j + 1, x) /\ Holds(X, q, S, k + 1, y)
    BY <1>0, <1>2, <1>5, <2>1
  <2>3. PICK i \in 1 .. n : j + 1 <= i /\ i <= k + 1 /\ q[i] = ConnMsg(0)
    BY <1>3, <2>1, <2>2
  <2>4. i - 1 \in 1 .. n - 1 /\ j <= i - 1 /\ i - 1 <= k /\ (i - 1) + 1 = i
    BY <1>0, <1>1, <1>5, <2>3
  <2> QED
    BY <1>1, <2>3, <2>4
<1>6. CASE j = 0 /\ k > 0
  <2>1. PICK a \in {0, 1} : Holds(X, q, S, a, x)
    BY <1>0, <1>2, <1>6
  <2>2. Head(q) # ConnMsg(0) /\ Holds(X, q, S, k + 1, y)
    BY <1>0, <1>2, <1>6
  <2>3. PICK i \in 1 .. n : a <= i /\ i <= k + 1 /\ q[i] = ConnMsg(0)
    BY <1>0, <1>1, <1>3, <1>6, <2>1, <2>2
  <2>4. i # 1
    BY <1>1, <2>2, <2>3
  <2>5. i - 1 \in 1 .. n - 1 /\ j <= i - 1 /\ i - 1 <= k /\ (i - 1) + 1 = i
    BY <1>0, <1>1, <1>6, <2>3, <2>4
  <2> QED
    BY <1>1, <2>3, <2>5
<1>7. CASE j = 0 /\ k = 0
  <2>1. PICK a \in {0, 1} : Holds(X, q, S, a, x)
    BY <1>0, <1>2, <1>7
  <2>2. PICK b \in {0, 1} : Holds(X, q, S, b, y)
    BY <1>0, <1>2, <1>7
  <2>3. Head(q) # ConnMsg(0)
    BY <1>0, <1>2, <1>7
  <2>4. \E i \in 1 .. n : i <= 1 /\ q[i] = ConnMsg(0)
    <3>1. CASE a <= b
      BY <1>1, <1>3, <2>1, <2>2, <3>1
    <3>2. CASE b <= a
      BY <1>1, <1>4, <2>1, <2>2, <3>2
    <3> QED
      BY <3>1, <3>2
  <2> QED
    BY <1>1, <2>3, <2>4
<1> QED
  BY <1>0, <1>1, <1>5, <1>6, <1>7

(* The sender says more of its own, or becomes none.                       *)
LEMMA PartedSends ==
    ASSUME NEW X, NEW q \in Seq(Datagram), NEW l, Parted(X, q, {l}), NEW ms \in Seq(Datagram),
           \A k \in DOMAIN ms : ms[k].kind = "Data" => ms[k].life = l, NEW S \in SUBSET {l}
    PROVE  Parted(X, q \o ms, S)
<1> DEFINE r == q \o ms
           n == Len(q)
           m == Len(ms)
<1>1. /\ n \in Nat /\ m \in Nat /\ Len(r) = n + m /\ DOMAIN r = 1 .. n + m /\ DOMAIN q = 1 .. n
      /\ DOMAIN ms = 1 .. m
      /\ \A k \in 1 .. n : r[k] = q[k]
      /\ \A k \in n + 1 .. n + m : r[k] = ms[k - n] /\ k - n \in DOMAIN ms
  OBVIOUS
<1> SUFFICES Parted(X, r, S)
  OBVIOUS
<1> HIDE DEF r, n, m
<1> SUFFICES ASSUME NEW j \in 0 .. Len(r) + 1, NEW k \in 0 .. Len(r) + 1, NEW x, NEW y,
                    Holds(X, r, S, j, x), Holds(X, r, S, k, y), j <= k, x # y
             PROVE  Greets(r, j, k)
  BY Zenon DEF Parted
<1> SUFFICES \E i \in 1 .. n + m : j <= i /\ i <= k /\ r[i] = ConnMsg(0)
  BY <1>1 DEF Greets
<1>0. j \in 0 .. n + m + 1 /\ k \in 0 .. n + m + 1
  BY <1>1
<1>2. ASSUME NEW a \in 0 .. n + m + 1, NEW z, Holds(X, r, S, a, z)
      PROVE  (a <= n => Holds(X, q, {l}, a, z)) /\ (a > n => z = l)
  <2>1. CASE a <= n
    BY <1>1, <1>2, <2>1 DEF Holds
  <2>2. CASE a > n /\ a <= n + m
    <3>1. ~(a <= n) /\ a # 0 /\ a # Len(r) + 1 /\ a - n \in DOMAIN ms /\ r[a] = ms[a - n]
      BY <1>1, <2>2
    <3>2. r[a].kind = "Data" /\ z = r[a].life
      BY <1>2, <3>1 DEF Holds
    <3> QED
      BY <3>1, <3>2
  <2>3. CASE a = n + m + 1
    <3>1. ~(a <= n) /\ a # 0 /\ a \notin DOMAIN r
      BY <1>1, <2>3
    <3> QED
      BY <1>2, <3>1 DEF Holds
  <2> QED
    BY <1>1, <2>1, <2>2, <2>3
<1>3. n + 1 \in 0 .. n + 1 /\ Holds(X, q, {l}, n + 1, l)
  BY <1>1 DEF Holds, n
<1>4. ASSUME NEW a \in 0 .. n + 1, NEW b \in 0 .. n + 1, a <= b, Holds(X, q, {l}, a, x), Holds(X, q, {l}, b, y)
      PROVE  \E i \in 1 .. n : a <= i /\ i <= b /\ q[i] = ConnMsg(0)
  BY <1>1, <1>4 DEF Parted, Greets, n
<1>5. CASE k <= n
  <2>0. j \in 0 .. n + 1 /\ k \in 0 .. n + 1 /\ j <= n
    BY <1>0, <1>1, <1>5
  <2>1. Holds(X, q, {l}, j, x) /\ Holds(X, q, {l}, k, y)
    BY <1>0, <1>2, <1>5, <2>0
  <2>2. PICK i \in 1 .. n : j <= i /\ i <= k /\ q[i] = ConnMsg(0)
    BY <1>4, <2>0, <2>1
  <2> QED
    BY <1>0, <1>1, <2>2
<1>6. CASE k > n
  <2>1. y = l
    BY <1>0, <1>1, <1>2, <1>6
  <2>2. j <= n /\ Holds(X, q, {l}, j, x)
    <3>1. ~(j > n)
      BY <1>0, <1>2, <2>1
    <3>2. j <= n
      BY <1>0, <1>1, <3>1
    <3> QED
      BY <1>0, <1>2, <3>2
  <2>4. j \in 0 .. n + 1 /\ j <= n + 1
    BY <1>0, <1>1, <2>2
  <2>3. PICK i \in 1 .. n : j <= i /\ i <= n + 1 /\ q[i] = ConnMsg(0)
    BY <1>3, <1>4, <2>1, <2>2, <2>4
  <2> QED
    BY <1>0, <1>1, <1>6, <2>3
<1> QED
  BY <1>0, <1>1, <1>5, <1>6

(* A new sender begins with a Conn for 0.                                  *)
LEMMA PartedBegins ==
    ASSUME NEW X, NEW q \in Seq(Datagram), NEW l, Parted(X, q, {})
    PROVE  Parted(X, q \o <<ConnMsg(0)>>, {l})
<1> DEFINE r == q \o <<ConnMsg(0)>>
           n == Len(q)
<1>1. /\ n \in Nat /\ Len(r) = n + 1 /\ DOMAIN r = 1 .. n + 1 /\ DOMAIN q = 1 .. n
      /\ \A k \in 1 .. n : r[k] = q[k]
      /\ r[n + 1] = ConnMsg(0)
  OBVIOUS
<1> SUFFICES Parted(X, r, {l})
  OBVIOUS
<1> HIDE DEF r, n
<1> SUFFICES ASSUME NEW j \in 0 .. Len(r) + 1, NEW k \in 0 .. Len(r) + 1, NEW x, NEW y,
                    Holds(X, r, {l}, j, x), Holds(X, r, {l}, k, y), j <= k, x # y
             PROVE  Greets(r, j, k)
  BY Zenon DEF Parted
<1> SUFFICES \E i \in 1 .. n + 1 : j <= i /\ i <= k /\ r[i] = ConnMsg(0)
  BY <1>1 DEF Greets
<1>0. j \in 0 .. n + 2 /\ k \in 0 .. n + 2
  BY <1>1
<1>2. ASSUME NEW a \in 0 .. n + 2, NEW z, Holds(X, r, {l}, a, z)
      PROVE  (a <= n => Holds(X, q, {}, a, z)) /\ (a > n => a = n + 2 /\ z = l)
  <2>1. CASE a <= n
    <3>1. ~(a > n) /\ a # Len(r) + 1
      BY <1>1, <2>1
    <3> QED
      BY <1>1, <1>2, <3>1 DEF Holds
  <2>2. CASE a = n + 1
    <3>1. a # 0 /\ a # Len(r) + 1 /\ r[a] = ConnMsg(0)
      BY <1>1, <2>2
    <3>2. ConnMsg(0).kind # "Data"
      BY DEF ConnMsg
    <3> QED
      BY <1>2, <3>1, <3>2 DEF Holds
  <2>3. CASE a = n + 2
    <3>1. ~(a <= n) /\ a # 0 /\ a \notin DOMAIN r
      BY <1>1, <2>3
    <3> QED
      BY <1>2, <2>3, <3>1 DEF Holds
  <2> QED
    BY <1>1, <2>1, <2>2, <2>3
<1>3. ASSUME NEW a \in 0 .. n + 1, NEW b \in 0 .. n + 1, a <= b, Holds(X, q, {}, a, x), Holds(X, q, {}, b, y)
      PROVE  \E i \in 1 .. n : a <= i /\ i <= b /\ q[i] = ConnMsg(0)
  BY <1>1, <1>3 DEF Parted, Greets, n
<1>4. CASE k <= n
  <2>1. j \in 0 .. n + 1 /\ k \in 0 .. n + 1 /\ j <= n
    BY <1>0, <1>1, <1>4
  <2>2. Holds(X, q, {}, j, x) /\ Holds(X, q, {}, k, y)
    BY <1>0, <1>2, <1>4, <2>1
  <2>3. PICK i \in 1 .. n : j <= i /\ i <= k /\ q[i] = ConnMsg(0)
    BY <1>3, <2>1, <2>2
  <2> QED
    BY <1>1, <2>3
<1>5. CASE k > n
  <2>1. k = n + 2 /\ y = l
    BY <1>0, <1>2, <1>5
  <2>2. ~(j > n)
    BY <1>0, <1>2, <2>1
  <2>3. n + 1 \in 1 .. n + 1 /\ j <= n + 1 /\ n + 1 <= k
    BY <1>0, <1>1, <2>1, <2>2
  <2> QED
    BY <1>1, <2>3
<1> QED
  BY <1>0, <1>1, <1>4, <1>5

(* There are two sides, each the other's other. *)
LEMMA BothSides ==
    ASSUME NEW s \in Sides
    PROVE  /\ Other(s) \in Sides /\ Other(s) # s /\ Other(Other(s)) = s
           /\ \A u \in Sides : u = s \/ u = Other(s)
<1> DEFINE t == Other(s)
<1>1. t \in Sides /\ t # s
  BY TwoComputers
<1> HIDE DEF t
<1>2. Cardinality({s, t}) = 2
  <2>1. IsFiniteSet({s}) /\ Cardinality({s}) = 1
    BY FS_Singleton
  <2>2. t \notin {s} /\ {s} \cup {t} = {s, t}
    BY <1>1
  <2>3. Cardinality({s} \cup {t}) = Cardinality({s}) + 1
    BY <2>1, <2>2, FS_AddElement
  <2> QED
    BY <2>1, <2>2, <2>3
<1>3. {s, t} = Sides
  <2>1. {s, t} \in SUBSET Sides
    BY <1>1
  <2> QED
    BY <1>2, <2>1, FS_Subset, SidesAssumption
<1>4. Other(t) \in Sides /\ Other(t) # t
  BY <1>1, TwoComputers
<1> QED
  BY <1>1, <1>3, <1>4 DEF t

(* s takes c for the peer it had and q is left of what was on its way to   *)
(* it.                                                                     *)
Turned(s, c, q) ==
    LET t == Other(s) IN
    /\ peer'[s] = [c EXCEPT !.send = <<>>, !.starved = {}]
    /\ peer'[t] = peer[t]
    /\ net'[s] = q /\ net'[t] = net[t] \o c.send
    /\ lives'[s] = IF peer[s].status = "None" /\ c.status # "None" THEN lives[s] + 1 ELSE lives[s]
    /\ lives'[t] = lives[t]
    /\ starved' = starved \cup c.starved
    /\ allowed' = allowed

(* What a step of a side does: its peer becomes another, and what that has *)
(* said since is on its way.                                               *)
LEMMA BecomesParts ==
    ASSUME Sound, NEW s \in Sides, NEW H, NEW q \in Seq(Datagram), \A c \in H : Good(c), Becomes(s, H, q)
    PROVE  \E c \in H : Turned(s, c, q)
<1>1. PICK c \in H :
         /\ peer' = [peer EXCEPT ![s] = [c EXCEPT !.send = <<>>, !.starved = {}]]
         /\ net' = [net EXCEPT ![s] = q, ![Other(s)] = @ \o c.send]
         /\ lives' = IF peer[s].status = "None" /\ c.status # "None"
                     THEN [lives EXCEPT ![s] = @ + 1] ELSE lives
         /\ starved' = starved \cup c.starved
         /\ UNCHANGED allowed
  BY DEF Becomes
<1> DEFINE t == Other(s)
           d == [c EXCEPT !.send = <<>>, !.starved = {}]
<1>2. t \in Sides /\ t # s
  BY TwoComputers
<1>3. peer \in [Sides -> Peer] /\ net \in [Sides -> Seq(Datagram)] /\ lives \in [Sides -> Nat]
  BY DEF Sound
<1>4. peer' = [peer EXCEPT ![s] = d]
  BY <1>1
<1>5. net' = [net EXCEPT ![s] = q, ![t] = net[t] \o c.send]
  BY <1>1, <1>2, <1>3
<1> HIDE DEF t, d
<1>6. peer'[s] = d /\ peer'[t] = peer[t]
  BY <1>2, <1>3, <1>4
<1>7. net'[s] = q /\ net'[t] = net[t] \o c.send
  BY <1>2, <1>3, <1>5
<1>8. /\ lives'[s] = IF peer[s].status = "None" /\ c.status # "None" THEN lives[s] + 1 ELSE lives[s]
      /\ lives'[t] = lives[t]
  BY <1>1, <1>2, <1>3
<1> QED
  BY <1>1, <1>6, <1>7, <1>8 DEF t, d, Turned

(* A peer that was created has nothing yet and says Conn. *)
LEMMA NewConn ==
    LET c == DoConn(NewPeer) IN
    /\ c = [NewPeer EXCEPT !.send = <<ConnMsg(0)>>]
    /\ c.status = "Conn" /\ c.retries = MaxRetries /\ c.o = 0 /\ c.opackets = <<>> /\ c.i = 0 /\ c.r = 0
    /\ c.ipackets = {} /\ c.got = <<>> /\ c.send = <<ConnMsg(0)>> /\ c.starved = {}
    /\ LivesOf(c) = {} /\ \A l : Marked(c, l)
<1> DEFINE c == DoConn(NewPeer)
<1>1. NewPeer \in Peer /\ NewPeer.send = <<>> /\ NewPeer.o = 0
  BY GoodNew DEF Good, NewPeer
<1>2. c = [[NewPeer EXCEPT !.status = "Conn", !.retries = MaxRetries] EXCEPT !.send = <<>> \o <<ConnMsg(0)>>]
  BY <1>1 DEF DoConn, SendDirect, Peer
<1>3. <<>> \o <<ConnMsg(0)>> = <<ConnMsg(0)>>
  OBVIOUS
<1> HIDE DEF c
<1>4. /\ c.status = "Conn" /\ c.retries = MaxRetries /\ c.o = 0 /\ c.opackets = <<>> /\ c.i = 0 /\ c.r = 0
      /\ c.ipackets = {} /\ c.got = <<>> /\ c.send = <<ConnMsg(0)>> /\ c.starved = {}
  BY <1>2, <1>3 DEF NewPeer
<1>8. c = [NewPeer EXCEPT !.send = <<ConnMsg(0)>>]
  <2>1. NewPeer.status = "Conn" /\ NewPeer.retries = MaxRetries
    BY DEF NewPeer
  <2> QED
    BY <1>1, <1>2, <1>3, <2>1 DEF Peer
<1>5. LivesOf(c) = {}
  BY <1>4, NoLives
<1>6. DOMAIN c.opackets = {} /\ DOMAIN c.got = {} /\ \A k \in DOMAIN c.send : c.send[k].kind # "Data"
  BY <1>4 DEF ConnMsg
<1>7. \A l : Marked(c, l)
  BY <1>6 DEF Marked
<1> QED
  BY <1>4, <1>5, <1>7, <1>8 DEF c

(* Peers, and what is under way to them, have no data but of the lives the *)
(* other side has had, and keep their own for the life they are in.        *)
Carries(q, l) == \A k \in DOMAIN q : q[k].kind = "Data" => q[k].life \in 1 .. l
Tagged ==
    \A s \in Sides :
        /\ peer[s].status # "None" => lives[s] >= 1
        /\ Marked(peer[s], lives[s])
        /\ LivesOf(peer[s]) \subseteq 1 .. lives[Other(s)]
        /\ Carries(net[s], lives[Other(s)])

(* A datagram of the other side's that follows has its life. *)
Says(s) == IF peer[s].status = "None" THEN {} ELSE {lives[s]}
Trail == \A s \in Sides : Parted(LivesOf(peer[s]), net[s], Says(Other(s)))

(* A peer goes on in its life, or a new one is created.                    *)
Turns(h, c, l) == IF h.status = "None" THEN c = h \/ c = DoConn(NewPeer) ELSE Marked(c, l)

(* More of the sender. *)
LEMMA CarriesMore ==
    ASSUME NEW l \in Nat, NEW n \in Nat, l <= n, NEW q \in Seq(Datagram), Carries(q, l),
           NEW ms \in Seq(Datagram), Carries(ms, n)
    PROVE  Carries(q \o ms, n)
<1> SUFFICES ASSUME NEW k \in DOMAIN (q \o ms), (q \o ms)[k].kind = "Data"
             PROVE  (q \o ms)[k].life \in 1 .. n
  BY DEF Carries
<1>1. k \in 1 .. Len(q) \/ k - Len(q) \in 1 .. Len(ms)
  OBVIOUS
<1>2. CASE k \in 1 .. Len(q)
  <2>1. (q \o ms)[k] = q[k] /\ k \in DOMAIN q
    BY <1>2
  <2>2. q[k].life \in 1 .. l
    BY <2>1 DEF Carries
  <2> QED
    BY <2>1, <2>2
<1>3. CASE k - Len(q) \in 1 .. Len(ms) /\ k \notin 1 .. Len(q)
  <2>1. (q \o ms)[k] = ms[k - Len(q)] /\ k - Len(q) \in DOMAIN ms
    BY <1>3
  <2> QED
    BY <2>1 DEF Carries
<1> QED
  BY <1>1, <1>2, <1>3

(* A step of a side leaves the data with their lives.                      *)
LEMMA BecomesTagged ==
    ASSUME Sound, Tagged, NEW s \in Sides, NEW H, NEW q \in Seq(Datagram), Becomes(s, H, q),
           Carries(q, lives[Other(s)]),
           \A c \in H : /\ Good(c) /\ Turns(peer[s], c, lives[s])
                        /\ LivesOf(c) \subseteq 1 .. lives[Other(s)]
    PROVE  Tagged'
<1> DEFINE t == Other(s)
           h == peer[s]
<1>20. PICK c \in H : Turned(s, c, q)
  <2>1. \A c \in H : Good(c)
    OBVIOUS
  <2> QED
    BY <2>1, BecomesParts
<1>1. /\ peer'[s] = [c EXCEPT !.send = <<>>, !.starved = {}]
      /\ peer'[t] = peer[t]
      /\ net'[s] = q /\ net'[t] = net[t] \o c.send
      /\ lives'[s] = IF h.status = "None" /\ c.status # "None" THEN lives[s] + 1 ELSE lives[s]
      /\ lives'[t] = lives[t]
      /\ starved' = starved \cup c.starved
      /\ allowed' = allowed
  BY <1>20 DEF Turned
<1>2. t \in Sides /\ t # s /\ Other(t) = s /\ \A u \in Sides : u = s \/ u = t
  BY BothSides
<1>3. /\ Good(c) /\ Turns(h, c, lives[s]) /\ LivesOf(c) \subseteq 1 .. lives[t]
      /\ c \in Peer /\ c.send \in Seq(Datagram)
  BY DEF Good, Peer
<1>4. /\ lives[s] \in Nat /\ lives[t] \in Nat /\ net[t] \in Seq(Datagram)
      /\ h.send = <<>> /\ h \in Peer /\ h.starved = {}
  BY <1>2 DEF Sound
<1>5. /\ peer[s].status # "None" => lives[s] >= 1
      /\ peer[t].status # "None" => lives[t] >= 1
      /\ Marked(peer[s], lives[s]) /\ Marked(peer[t], lives[t])
      /\ LivesOf(peer[t]) \subseteq 1 .. lives[s] /\ Carries(net[t], lives[s])
  BY <1>2 DEF Tagged
<1>6. Carries(q, lives[t])
  OBVIOUS
<1> DEFINE d == [c EXCEPT !.send = <<>>, !.starved = {}]
<1>7. /\ d.status = c.status /\ d.opackets = c.opackets /\ d.got = c.got /\ d.ipackets = c.ipackets
      /\ d.send = <<>>
  BY <1>3 DEF Peer
<1> HIDE DEF d, t, h
<1>8. \A l : Marked(c, l) => Marked(d, l)
  <2>1. DOMAIN d.send = {}
    BY <1>7
  <2> QED
    BY <1>7, <2>1 DEF Marked
<1>9. LivesOf(d) = LivesOf(c)
  BY <1>7 DEF LivesOf
<1>10. lives'[s] \in Nat /\ lives[s] <= lives'[s]
  BY <1>1, <1>4
<1>11. Marked(d, lives'[s]) /\ Carries(c.send, lives'[s]) /\ (d.status # "None" => lives'[s] >= 1)
  <2>1. CASE h.status # "None"
    <3>1. Marked(c, lives[s]) /\ lives'[s] = lives[s] /\ lives[s] >= 1
      BY <1>1, <1>3, <1>5, <2>1 DEF Turns, h
    <3>2. Carries(c.send, lives[s])
      <4>1. lives[s] \in 1 .. lives[s]
        BY <1>4, <3>1
      <4> QED
        BY <3>1, <4>1 DEF Marked, Carries
    <3> QED
      BY <1>8, <3>1, <3>2
  <2>2. CASE h.status = "None" /\ c = h
    <3>1. lives'[s] = lives[s] /\ c.send = <<>> /\ d.status = "None" /\ Marked(c, lives[s])
      BY <1>1, <1>4, <1>5, <1>7, <2>2 DEF h
    <3> QED
      BY <1>8, <3>1 DEF Carries
  <2>3. CASE h.status = "None" /\ c = DoConn(NewPeer)
    <3>1. c.status = "Conn" /\ c.send = <<ConnMsg(0)>> /\ \A l : Marked(c, l)
      BY <2>3, NewConn
    <3>2. lives'[s] = lives[s] + 1
      BY <1>1, <2>3, <3>1
    <3>3. \A k \in DOMAIN c.send : c.send[k].kind # "Data"
      BY <3>1 DEF ConnMsg
    <3> QED
      BY <1>4, <1>8, <3>1, <3>2, <3>3 DEF Carries
  <2> QED
    BY <1>3, <2>1, <2>2, <2>3 DEF Turns
<1>12. Carries(net'[t], lives'[s])
  BY <1>1, <1>3, <1>4, <1>5, <1>10, <1>11, CarriesMore
<1>13. LivesOf(peer[t]) \subseteq 1 .. lives'[s]
  <2>1. 1 .. lives[s] \subseteq 1 .. lives'[s]
    BY <1>4, <1>10
  <2> QED
    BY <1>5, <2>1
<1>14. peer'[s] = d
  BY <1>1 DEF d
<1>15. /\ peer'[s].status # "None" => lives'[s] >= 1
       /\ Marked(peer'[s], lives'[s])
       /\ LivesOf(peer'[s]) \subseteq 1 .. lives'[t]
       /\ Carries(net'[s], lives'[t])
  BY <1>1, <1>3, <1>6, <1>9, <1>11, <1>14
<1>16. /\ peer'[t].status # "None" => lives'[t] >= 1
       /\ Marked(peer'[t], lives'[t])
       /\ LivesOf(peer'[t]) \subseteq 1 .. lives'[s]
       /\ Carries(net'[t], lives'[s])
  BY <1>1, <1>5, <1>12, <1>13
<1> QED
  BY <1>2, <1>15, <1>16 DEF Tagged, t

(* A step of a side leaves the lives parted.                               *)
LEMMA BecomesTrail ==
    ASSUME Sound, Tagged, Trail, NEW s \in Sides, NEW H, NEW q \in Seq(Datagram), Becomes(s, H, q),
           \A c \in H : /\ Good(c) /\ Turns(peer[s], c, lives[s])
                        /\ Parted(LivesOf(c), q, Says(Other(s)))
    PROVE  Trail'
<1> DEFINE t == Other(s)
           h == peer[s]
<1>20. PICK c \in H : Turned(s, c, q)
  <2>1. \A c \in H : Good(c)
    OBVIOUS
  <2> QED
    BY <2>1, BecomesParts
<1>1. /\ peer'[s] = [c EXCEPT !.send = <<>>, !.starved = {}]
      /\ peer'[t] = peer[t]
      /\ net'[s] = q /\ net'[t] = net[t] \o c.send
      /\ lives'[s] = IF h.status = "None" /\ c.status # "None" THEN lives[s] + 1 ELSE lives[s]
      /\ lives'[t] = lives[t]
      /\ starved' = starved \cup c.starved
      /\ allowed' = allowed
  BY <1>20 DEF Turned
<1>2. t \in Sides /\ t # s /\ Other(t) = s /\ \A u \in Sides : u = s \/ u = t
  BY BothSides
<1>3. /\ Good(c) /\ Turns(h, c, lives[s]) /\ Parted(LivesOf(c), q, Says(t))
      /\ c \in Peer /\ c.send \in Seq(Datagram)
  BY DEF Good, Peer
<1>4. net[t] \in Seq(Datagram) /\ h.send = <<>>
  BY <1>2 DEF Sound
<1> DEFINE d == [c EXCEPT !.send = <<>>, !.starved = {}]
           X == LivesOf(peer[t])
           S == IF d.status = "None" THEN {} ELSE {lives'[s]}
<1>5. d.status = c.status /\ d.got = c.got /\ d.ipackets = c.ipackets
  BY <1>3 DEF Peer
<1>6. Parted(X, net[t], IF h.status = "None" THEN {} ELSE {lives[s]})
  BY <1>2 DEF Trail, Says
<1> HIDE DEF d, t, h, X
<1>7. LivesOf(d) = LivesOf(c)
  BY <1>5 DEF LivesOf
<1>8. Parted(X, net[t] \o c.send, S)
  <2>1. CASE h.status # "None"
    <3>1. Marked(c, lives[s]) /\ lives'[s] = lives[s] /\ Parted(X, net[t], {lives[s]})
      BY <1>1, <1>3, <1>6, <2>1 DEF Turns
    <3>2. \A k \in DOMAIN c.send : c.send[k].kind = "Data" => c.send[k].life = lives[s]
      BY <3>1 DEF Marked
    <3>3. S \in SUBSET {lives[s]}
      BY <3>1
    <3> HIDE DEF S
    <3> QED
      BY <1>3, <1>4, <3>1, <3>2, <3>3, PartedSends
  <2>2. CASE h.status = "None" /\ c = h
    <3>1. c.send = <<>> /\ S = {} /\ Parted(X, net[t], {})
      BY <1>4, <1>5, <1>6, <2>2
    <3>2. net[t] \o c.send = net[t]
      BY <1>4, <3>1
    <3> QED
      BY <3>1, <3>2
  <2>3. CASE h.status = "None" /\ c = DoConn(NewPeer)
    <3>1. c.status = "Conn" /\ c.send = <<ConnMsg(0)>>
      BY <2>3, NewConn
    <3>2. S = {lives'[s]} /\ Parted(X, net[t], {})
      BY <1>5, <1>6, <2>3, <3>1
    <3> HIDE DEF S
    <3>3. Parted(X, net[t] \o <<ConnMsg(0)>>, {lives'[s]})
      BY <1>4, <3>2, PartedBegins
    <3> QED
      BY <3>1, <3>2, <3>3
  <2> QED
    BY <1>3, <2>1, <2>2, <2>3 DEF Turns
<1>9. peer'[s] = d
  BY <1>1 DEF d
<1>10. Says(s)' = S
  BY <1>9 DEF Says
<1>11. Says(t)' = Says(t)
  BY <1>1 DEF Says
<1>12. Parted(LivesOf(peer'[s]), net'[s], Says(t)')
  BY <1>1, <1>3, <1>7, <1>9, <1>11
<1>13. Parted(LivesOf(peer'[t]), net'[t], Says(s)')
  BY <1>1, <1>8, <1>10 DEF X
<1> QED
  BY <1>2, <1>12, <1>13 DEF Trail, t

-----------------------------------------------------------------------------
(* Steps *)

(* A sequence without its element k: the others in their order.            *)
LEMMA RemovedAt ==
    ASSUME NEW T, NEW q \in Seq(T), NEW k \in DOMAIN q
    PROVE  LET r == RemoveAt(q, k) IN
           /\ r \in Seq(T) /\ Len(r) = Len(q) - 1
           /\ \A i \in 1 .. k - 1 : r[i] = q[i]
           /\ \A i \in k .. Len(q) - 1 : r[i] = q[i + 1]
           /\ \A i \in DOMAIN r : \E j \in DOMAIN q : r[i] = q[j]
<1> DEFINE n == Len(q)
           A == SubSeq(q, 1, k - 1)
           B == SubSeq(q, k + 1, n)
           r == A \o B
<1>1. n \in Nat /\ k \in 1 .. n /\ DOMAIN q = 1 .. n
  OBVIOUS
<1>2. A \in Seq(T) /\ Len(A) = k - 1 /\ \A i \in 1 .. k - 1 : A[i] = q[i]
  BY <1>1
<1>3. B \in Seq(T) /\ Len(B) = n - k /\ \A i \in 1 .. n - k : B[i] = q[k + i]
  BY <1>1
<1>4. RemoveAt(q, k) = r
  BY DEF RemoveAt
<1> HIDE DEF A, B, n
<1>5. r \in Seq(T) /\ Len(r) = n - 1 /\ DOMAIN r = 1 .. n - 1
  <2>1. r \in Seq(T) /\ Len(r) = Len(A) + Len(B) /\ DOMAIN r = 1 .. Len(r)
    <3>1. A \in Seq(T) /\ B \in Seq(T)
      BY <1>2, <1>3
    <3>2. A \o B \in Seq(T)
      BY <3>1
    <3>3. Len(A \o B) = Len(A) + Len(B)
      BY <3>1
    <3>4. DOMAIN (A \o B) = 1 .. Len(A \o B)
      BY <3>2
    <3> QED
      BY <3>2, <3>3, <3>4
  <2>2. (k - 1) + (n - k) = n - 1
    BY <1>1
  <2> HIDE DEF r
  <2> QED
    BY <1>2, <1>3, <2>1, <2>2
<1>6. \A i \in 1 .. k - 1 : r[i] = q[i]
  BY <1>1, <1>2, <1>3
<1>7. \A i \in k .. n - 1 : r[i] = q[i + 1]
  <2> SUFFICES ASSUME NEW i \in k .. n - 1 PROVE r[i] = q[i + 1]
    OBVIOUS
  <2>1. r[i] = B[i - (k - 1)] /\ i - (k - 1) \in 1 .. n - k /\ k + (i - (k - 1)) = i + 1
    BY <1>1, <1>2, <1>3
  <2> QED
    BY <1>3, <2>1
<1> HIDE DEF r
<1>8. \A i \in DOMAIN r : \E j \in DOMAIN q : r[i] = q[j]
  <2> SUFFICES ASSUME NEW i \in 1 .. n - 1 PROVE \E j \in 1 .. n : r[i] = q[j]
    BY <1>1, <1>5
  <2>1. i \in 1 .. k - 1 \/ i \in k .. n - 1
    BY <1>1
  <2>2. i \in 1 .. n /\ i + 1 \in 1 .. n
    BY <1>1
  <2> QED
    BY <1>6, <1>7, <2>1, <2>2
<1> QED
  BY <1>4, <1>5, <1>6, <1>7, <1>8 DEF n

(* A datagram arrives: it makes the peer go on in its life or creates one. *)
LEMMA DeliverTurns ==
    ASSUME Sound, Tagged, NEW s \in Sides, NEW m \in Datagram, NEW accept \in BOOLEAN,
           NEW c \in OnPacket(peer[s], m, accept)
    PROVE  /\ Good(c) /\ Turns(peer[s], c, lives[s])
           /\ \A x \in LivesOf(c) : x \in LivesOf(peer[s]) \/ (m.kind = "Data" /\ x = m.life)
           /\ m = ConnMsg(0) => LivesOf(c) = {}
<1> DEFINE h == peer[s]
<1>1. Good(h) /\ Marked(h, lives[s])
  BY DEF Sound, Tagged
<1>2. Good(c)
  BY <1>1, GoodRecv
<1>3. CASE h.status # "None"
  BY <1>1, <1>2, <1>3, BearsRecv DEF Turns
<1>4. CASE h.status = "None"
  <2>1. c = IF m.kind = "Conn" THEN DoConn(NewPeer) ELSE h
    BY <1>4 DEF OnPacket
  <2>2. LivesOf(DoConn(NewPeer)) = {}
    BY NewConn
  <2>3. m = ConnMsg(0) => m.kind = "Conn"
    BY DEF ConnMsg
  <2> QED
    BY <1>2, <1>4, <2>1, <2>2, <2>3 DEF Turns
<1> QED
  BY <1>3, <1>4

(* What an application sends is of the life the peer is in.                *)
LEMMA BearsSend ==
    ASSUME Sound, Tagged, NEW s \in Sides, NEW c \in Sizes, NEW e, e = Sent(s, c),
           Outgoing(s, c) \in OPacket, Fragments(Outgoing(s, c)) \in Seq(Datagram)
    PROVE  Bears(peer[s], e, lives[s])
<1> DEFINE h == peer[s]
           p == Outgoing(s, c)
           K == Kept(h.opackets, p)
           ms == Fragments(p)
<1>1. h \in Peer /\ h.opackets \in Seq(OPacket) /\ Marked(h, lives[s])
  BY DEF Sound, Peer, Tagged
<1>2. p.life = lives[s]
  BY DEF Outgoing
<1>3. \A k \in DOMAIN ms : ms[k].life = lives[s]
  BY <1>2 DEF GetFragment, Fragments
<1>4. \A k \in DOMAIN K : K[k].life = lives[s]
  <2>1. \A k \in DOMAIN K : K[k] = p \/ \E j \in DOMAIN h.opackets : K[k] = h.opackets[j]
    BY <1>1, KeptPackets
  <2> HIDE DEF K, p, h
  <2> QED
    BY <1>1, <1>2, <2>1 DEF Marked
<1>5. e.opackets = K /\ e.got = h.got /\ e.ipackets = h.ipackets /\ e.send = ms
  BY <1>1 DEF Sent, Peer
<1> HIDE DEF p, K, ms
<1>6. Marked(e, lives[s])
  BY <1>1, <1>3, <1>4, <1>5 DEF Marked
<1> QED
  BY <1>5, <1>6 DEF Bears, LivesOf

(* Steps that take no datagram go on in the life of the peer, too.         *)
LEMMA OwnTurns ==
    ASSUME Sound, Tagged, NEW s \in Sides,
           Connect(s) \/ Send(s) \/ DoCheck(s) \/ ReCheckDue(s) \/ OnTimeout(s) \/ Restart(s) \/ CloseAddr(s)
    PROVE  \E H : /\ Becomes(s, H, net[s])
                  /\ \A c \in H : /\ Good(c) /\ Turns(peer[s], c, lives[s])
                                   /\ LivesOf(c) \subseteq LivesOf(peer[s])
<1> DEFINE h == peer[s]
           l == lives[s]
<1>1. Good(h) /\ h \in Peer /\ Marked(h, l)
  BY DEF Sound, Tagged
<1>2. ASSUME NEW H, Becomes(s, H, net[s]), h.status # "None", \A c \in H : Good(c) /\ Bears(h, c, l)
      PROVE  \E D : /\ Becomes(s, D, net[s])
                    /\ \A c \in D : Good(c) /\ Turns(h, c, l) /\ LivesOf(c) \subseteq LivesOf(h)
  BY <1>2 DEF Bears, Turns
<1>3. CASE Connect(s)
  <2>1. Becomes(s, {DoConn(NewPeer)}, net[s]) /\ h.status = "None"
    BY <1>3 DEF Connect
  <2>2. LivesOf(DoConn(NewPeer)) = {} /\ Good(DoConn(NewPeer))
    <3>1. NewPeer.status # "None" /\ NewPeer.got = <<>>
      BY DEF NewPeer
    <3> QED
      BY <3>1, GoodNew, GoodDoConn, NewConn
  <2> QED
    BY <2>1, <2>2 DEF Turns
<1>4. CASE Send(s)
  <2>1. PICK c \in Sizes : /\ h.status = "Works" /\ Good(Sent(s, c)) /\ Becomes(s, {Sent(s, c)}, net[s])
                           /\ Outgoing(s, c) \in OPacket /\ Fragments(Outgoing(s, c)) \in Seq(Datagram)
    BY <1>4, SendParts
  <2>2. Bears(h, Sent(s, c), l)
    BY <2>1, BearsSend
  <2> QED
    BY <1>2, <2>1, <2>2
<1>5. CASE DoCheck(s)
  <2>1. Becomes(s, Check(h, TRUE), net[s]) /\ h.status # "None"
    BY <1>5 DEF DoCheck
  <2>2. \A c \in Check(h, TRUE) : Good(c) /\ Bears(h, c, l)
    BY <1>1, <2>1, GoodCheck, BearsCheck
  <2> QED
    BY <1>2, <2>1, <2>2
<1>6. CASE ReCheckDue(s)
  <2> DEFINE c == [h EXCEPT !.timer = FALSE]
  <2>1. /\ c \in Peer /\ c.status = h.status /\ c.o = h.o /\ c.opackets = h.opackets /\ c.send = h.send
        /\ c.i = h.i /\ c.ipackets = h.ipackets /\ c.got = h.got /\ c.first = h.first
    BY <1>1 DEF Peer
  <2>2. h.status # "None" /\ Becomes(s, {c}, net[s])
    BY <1>1, <1>6, TimerPeer DEF ReCheckDue
  <2> HIDE DEF c
  <2>3. Good(c)
    BY <1>1, <2>1, <2>2, GoodLike
  <2>4. Bears(h, c, l)
    BY <1>1, <2>1 DEF Bears, Marked, LivesOf
  <2> QED
    BY <1>2, <2>2, <2>3, <2>4
<1>7. CASE OnTimeout(s)
  <2>1. h.status = "Conn" /\ h.got = <<>> /\ h.status # "None"
    BY <1>1, <1>7 DEF OnTimeout, Good, Waits
  <2>2. CASE h.retries > 0
    <3> DEFINE c == [DoConn(h) EXCEPT !.retries = h.retries - 1]
    <3>1. Becomes(s, {c}, net[s])
      BY <1>7, <2>2 DEF OnTimeout
    <3>2. Good(c) /\ c.opackets = h.opackets /\ c.got = h.got /\ c.ipackets = h.ipackets
          /\ c.send = h.send \o <<ConnMsg(h.o)>>
      BY <1>1, <2>1, <2>2, RetryPeer
    <3> HIDE DEF c
    <3>3. ConnMsg(h.o) \in Datagram /\ ConnMsg(h.o).kind # "Data"
      BY <1>1 DEF ConnMsg, Datagram, Greeting, Peer
    <3>4. /\ <<ConnMsg(h.o)>> \in Seq(Datagram)
          /\ \A k \in DOMAIN <<ConnMsg(h.o)>> : <<ConnMsg(h.o)>>[k].kind = "Data" => <<ConnMsg(h.o)>>[k].life = l
      BY <3>3, NoData
    <3>5. Marked(c, l)
      BY <1>1, <3>2, <3>4, MarkedLike
    <3>6. Bears(h, c, l)
      BY <3>2, <3>5 DEF Bears, LivesOf
    <3> QED
      BY <1>2, <2>1, <3>1, <3>2, <3>6
  <2>3. CASE ~(h.retries > 0)
    <3>1. Becomes(s, {Close(h)}, net[s])
      BY <1>7, <2>3 DEF OnTimeout
    <3>2. Good(Close(h)) /\ Bears(h, Close(h), l)
      BY <1>1, <2>1, GoodClose, BearsClose DEF Bears
    <3> QED
      BY <1>2, <2>1, <3>1, <3>2
  <2> QED
    BY <2>2, <2>3
<1>8. CASE Restart(s)
  <2>1. Becomes(s, {NoPeer}, net[s]) /\ h.status # "None"
    BY <1>8 DEF Restart
  <2>2. NoPeer.opackets = <<>> /\ NoPeer.got = <<>> /\ NoPeer.send = <<>> /\ NoPeer.ipackets = {}
    BY DEF NoPeer, NewPeer
  <2>3. LivesOf(NoPeer) = {} /\ Marked(NoPeer, l)
    <3>1. DOMAIN NoPeer.opackets = {} /\ DOMAIN NoPeer.got = {} /\ DOMAIN NoPeer.send = {}
      BY <2>2
    <3> QED
      BY <2>2, <3>1, NoLives DEF Marked
  <2>4. Good(NoPeer) /\ Bears(h, NoPeer, l)
    BY <2>3, GoodNew DEF Bears
  <2> QED
    BY <1>2, <2>1, <2>4
<1>9. CASE CloseAddr(s)
  <2>1. Becomes(s, {Close(h)}, net[s]) /\ h.status # "None"
    BY <1>9 DEF CloseAddr
  <2>2. Good(Close(h)) /\ Bears(h, Close(h), l)
    BY <1>1, <2>1, GoodClose, BearsClose DEF Bears
  <2> QED
    BY <1>2, <2>1, <2>2
<1> QED
  BY <1>3, <1>4, <1>5, <1>6, <1>7, <1>8, <1>9

(* Every step leaves the data with their lives.                            *)
LEMMA NextTagged == Sound /\ Tagged /\ [Next]_vars => Tagged'
<1> SUFFICES ASSUME Sound, Tagged, [Next]_vars PROVE Tagged'
  OBVIOUS
<1>1. CASE UNCHANGED vars
  BY <1>1 DEF Tagged, vars
<1>2. ASSUME NEW s \in Sides, Step(s) PROVE Tagged'
  <2> DEFINE t == Other(s)
  <2>1. net[s] \in Seq(Datagram) /\ LivesOf(peer[s]) \subseteq 1 .. lives[t] /\ Carries(net[s], lives[t])
    BY DEF Sound, Tagged
  <2>2. ASSUME NEW m \in Datagram, NEW q \in Seq(Datagram), Deliver(s, m, q), Carries(q, lives[t]),
               \E k \in DOMAIN net[s] : m = net[s][k]
        PROVE  Tagged'
    <3>1. PICK accept \in BOOLEAN : Becomes(s, OnPacket(peer[s], m, accept), q)
      BY <2>2 DEF Deliver
    <3>2. m.kind = "Data" => m.life \in 1 .. lives[t]
      BY <2>1, <2>2 DEF Carries
    <3>3. \A c \in OnPacket(peer[s], m, accept) :
             Good(c) /\ Turns(peer[s], c, lives[s]) /\ LivesOf(c) \subseteq 1 .. lives[t]
      <4> SUFFICES ASSUME NEW c \in OnPacket(peer[s], m, accept)
                   PROVE  Good(c) /\ Turns(peer[s], c, lives[s]) /\ LivesOf(c) \subseteq 1 .. lives[t]
        OBVIOUS
      <4>1. /\ Good(c) /\ Turns(peer[s], c, lives[s])
            /\ \A x \in LivesOf(c) : x \in LivesOf(peer[s]) \/ (m.kind = "Data" /\ x = m.life)
        BY DeliverTurns
      <4> HIDE DEF t
      <4> QED
        BY <2>1, <3>2, <4>1
    <3> QED
      BY <2>2, <3>1, <3>3, BecomesTagged
  <2>3. CASE Receive(s)
    <3>1. /\ Head(net[s]) \in Datagram /\ Tail(net[s]) \in Seq(Datagram) /\ 1 \in DOMAIN net[s]
          /\ Head(net[s]) = net[s][1] /\ Deliver(s, Head(net[s]), Tail(net[s]))
      BY <2>1, <2>3 DEF Receive
    <3>2. Carries(Tail(net[s]), lives[t])
      BY <2>1, <2>3 DEF Receive, Carries
    <3> QED
      BY <2>2, <3>1, <3>2
  <2>4. CASE Duplicate(s)
    <3>1. /\ Head(net[s]) \in Datagram /\ Tail(net[s]) \in Seq(Datagram) /\ 1 \in DOMAIN net[s]
          /\ Append(Tail(net[s]), Head(net[s])) \in Seq(Datagram)
          /\ Head(net[s]) = net[s][1] /\ Deliver(s, Head(net[s]), Append(Tail(net[s]), Head(net[s])))
      BY <2>1, <2>4 DEF Duplicate
    <3>2. Carries(Append(Tail(net[s]), Head(net[s])), lives[t])
      BY <2>1, <2>4 DEF Duplicate, Carries
    <3> QED
      BY <2>2, <3>1, <3>2
  <2>5. CASE Overtake(s)
    <3>1. PICK k \in DOMAIN net[s] : Deliver(s, net[s][k], RemoveAt(net[s], k))
      BY <2>5 DEF Overtake
    <3>2. net[s][k] \in Datagram /\ RemoveAt(net[s], k) \in Seq(Datagram)
      BY <2>1 DEF RemoveAt
    <3>3. Carries(RemoveAt(net[s], k), lives[t])
      <4>1. \A i \in DOMAIN RemoveAt(net[s], k) : \E j \in DOMAIN net[s] : RemoveAt(net[s], k)[i] = net[s][j]
        BY <2>1, RemovedAt
      <4> QED
        BY <2>1, <4>1 DEF Carries
    <3> QED
      BY <2>2, <3>1, <3>2, <3>3
  <2>6. CASE Lose(s)
    <3>1. PICK k \in DOMAIN net[s] : net' = [net EXCEPT ![s] = RemoveAt(net[s], k)]
      BY <2>6 DEF Lose, Sound
    <3>2. Carries(RemoveAt(net[s], k), lives[t])
      <4>1. \A i \in DOMAIN RemoveAt(net[s], k) : \E j \in DOMAIN net[s] : RemoveAt(net[s], k)[i] = net[s][j]
        BY <2>1, RemovedAt
      <4> QED
        BY <2>1, <4>1 DEF Carries
    <3>3. \A u \in Sides : u # s => net'[u] = net[u]
      BY <3>1 DEF Sound
    <3>4. net'[s] = RemoveAt(net[s], k)
      BY <3>1 DEF Sound
    <3>5. UNCHANGED <<peer, lives>>
      BY <2>6 DEF Lose
    <3> QED
      BY <3>2, <3>3, <3>4, <3>5 DEF Tagged
  <2>7. CASE Connect(s) \/ Send(s) \/ DoCheck(s) \/ ReCheckDue(s) \/ OnTimeout(s) \/ Restart(s) \/ CloseAddr(s)
    <3>1. PICK H : /\ Becomes(s, H, net[s])
                   /\ \A c \in H : /\ Good(c) /\ Turns(peer[s], c, lives[s])
                                   /\ LivesOf(c) \subseteq LivesOf(peer[s])
      BY <2>7, OwnTurns
    <3>2. \A c \in H : LivesOf(c) \subseteq 1 .. lives[t]
      BY <2>1, <3>1
    <3> QED
      BY <2>1, <3>1, <3>2, BecomesTagged
  <2> QED
    BY <1>2, <2>3, <2>4, <2>5, <2>6, <2>7 DEF Step
<1> QED
  BY <1>1, <1>2 DEF Next

(* Where nothing is lost, doubled or overtaken, lives stay parted.         *)
Sequential == allowed \cap {"Lose", "Duplicate", "Overtake"} = {}

(* Every step leaves the lives parted there.                               *)
LEMMA NextTrail == Sequential /\ Sound /\ Tagged /\ Trail /\ [Next]_vars => Trail'
<1> SUFFICES ASSUME Sequential, Sound, Tagged, Trail, [Next]_vars PROVE Trail'
  OBVIOUS
<1>1. CASE UNCHANGED vars
  BY <1>1 DEF Trail, Says, vars
<1>2. ASSUME NEW s \in Sides, Step(s) PROVE Trail'
  <2> DEFINE t == Other(s)
  <2>1. net[s] \in Seq(Datagram) /\ Parted(LivesOf(peer[s]), net[s], Says(t))
    BY DEF Sound, Trail
  <2>2. ~Lose(s) /\ ~Duplicate(s) /\ ~Overtake(s)
    BY DEF Sequential, Lose, Duplicate, Overtake, Fault
  <2>3. CASE Receive(s)
    <3> DEFINE m == Head(net[s])
               q == Tail(net[s])
    <3>1. m \in Datagram /\ q \in Seq(Datagram) /\ net[s] # <<>>
      BY <2>1, <2>3 DEF Receive
    <3>2. PICK accept \in BOOLEAN : Becomes(s, OnPacket(peer[s], m, accept), q)
      BY <2>3 DEF Receive, Deliver
    <3>3. \A c \in OnPacket(peer[s], m, accept) :
             Good(c) /\ Turns(peer[s], c, lives[s]) /\ Parted(LivesOf(c), q, Says(t))
      <4> SUFFICES ASSUME NEW c \in OnPacket(peer[s], m, accept)
                   PROVE  Good(c) /\ Turns(peer[s], c, lives[s]) /\ Parted(LivesOf(c), q, Says(t))
        OBVIOUS
      <4>1. /\ Good(c) /\ Turns(peer[s], c, lives[s])
            /\ \A x \in LivesOf(c) : x \in LivesOf(peer[s]) \/ (m.kind = "Data" /\ x = m.life)
            /\ m = ConnMsg(0) => LivesOf(c) = {}
        BY <3>1, DeliverTurns
      <4> QED
        BY <2>1, <3>1, <4>1, PartedTail
    <3> HIDE DEF q
    <3> QED
      BY <3>1, <3>2, <3>3, BecomesTrail
  <2>4. CASE Connect(s) \/ Send(s) \/ DoCheck(s) \/ ReCheckDue(s) \/ OnTimeout(s) \/ Restart(s) \/ CloseAddr(s)
    <3>1. PICK H : /\ Becomes(s, H, net[s])
                   /\ \A c \in H : /\ Good(c) /\ Turns(peer[s], c, lives[s])
                                   /\ LivesOf(c) \subseteq LivesOf(peer[s])
      BY <2>4, OwnTurns
    <3>2. \A c \in H : Parted(LivesOf(c), net[s], Says(t))
      BY <2>1, <3>1, PartedLess
    <3> QED
      BY <2>1, <3>1, <3>2, BecomesTrail
  <2> QED
    BY <1>2, <2>2, <2>3, <2>4 DEF Step
<1> QED
  BY <1>1, <1>2 DEF Next

-----------------------------------------------------------------------------
(* What two peers know of each other where datagrams are only lost         *)

(* A number that lies between packets of g, and from which on g has kept   *)
(* everything it did not throw away because its list ran over.             *)
Between(x, g) ==
    /\ x \in 0 .. g.o
    /\ \A k \in DOMAIN g.opackets :
          x <= g.opackets[k].nr \/ g.opackets[k].nr + g.opackets[k].cnt <= x
KeptFrom(x, g) == \A n \in x .. g.o - 1 : n < g.thrown \/ HasFragment(g.opackets, n)
Mark(x, g) == Between(x, g) /\ KeptFrom(x, g)

(* Before it works a peer has sent nothing; packets do not overlap.        *)
Packed(g) ==
    /\ g.status # "Works" => g.o = 0 /\ g.opackets = <<>>
    /\ \A k \in DOMAIN g.opackets : Between(g.opackets[k].nr + g.opackets[k].cnt, g)

(* What h has of g. *)
Knows(h, g) ==
    /\ h.r <= g.o /\ Mark(h.i, g)
    /\ \A f \in h.ipackets : Between(End(f), g)

(* A datagram from g to h: a Conn finds nothing received, and a Check      *)
(* neither acknowledges nor asks for what h does not have.                 *)
Passes(m, h, g) ==
    /\ m.kind # "Close" /\ m.nr <= g.o
    /\ m.kind = "Conn" => m.nr = 0 /\ h.i = 0 /\ h.ipackets = {}
    /\ m.kind = "Data" => Between(End(m), g)
    /\ m.kind = "Check" => m.ack <= g.i /\ Mark(m.ack, h) /\ m.ask \subseteq m.ack .. h.o - 1

(* Datagrams come in the order in which they were said.                    *)
Precedes(l, m) ==
    /\ ~(l.kind = "Data" /\ m.kind = "Conn")
    /\ l.kind = "Check" /\ m.kind = "Check" => l.ack <= m.ack

Way(q, h, g) ==
    /\ \A k \in DOMAIN q : Passes(q[k], h, g)
    /\ \A j, k \in DOMAIN q : j < k => Precedes(q[j], q[k])

(* Two peers, and what is under way to the first and to the second one.    *)
Linked(h, g, q, b) ==
    /\ Packed(h) /\ Packed(g) /\ Knows(h, g) /\ Knows(g, h)
    /\ Way(q, h, g) /\ Way(b, g, h)

(* A change that neither touches what was sent nor what was received.      *)
LEMMA LinkedLike ==
    ASSUME NEW h, NEW g, NEW q, NEW b, Linked(h, g, q, b), NEW c,
           c.o = h.o, c.opackets = h.opackets, c.thrown = h.thrown, c.i = h.i, c.ipackets = h.ipackets,
           c.r <= g.o, c.status = "Works" \/ (c.o = 0 /\ c.opackets = <<>>)
    PROVE  Linked(c, g, q, b)
<1>1. \A x : (Between(x, c) <=> Between(x, h)) /\ (KeptFrom(x, c) <=> KeptFrom(x, h))
  BY DEF Between, KeptFrom
<1>2. \A x : Mark(x, c) <=> Mark(x, h)
  BY <1>1 DEF Mark
<1>3. \A m : (Passes(m, c, g) <=> Passes(m, h, g)) /\ (Passes(m, g, c) <=> Passes(m, g, h))
  BY <1>1, <1>2 DEF Passes
<1>4. Packed(c)
  BY <1>1 DEF Packed, Linked
<1>5. Knows(c, g) /\ Knows(g, c)
  BY <1>1, <1>2 DEF Knows, Linked
<1>6. Way(q, c, g) /\ Way(b, g, c)
  BY <1>3 DEF Way, Linked
<1> QED
  BY <1>4, <1>5, <1>6 DEF Linked

(* The first one says ms. *)
LEMMA LinkedSays ==
    ASSUME NEW h, NEW g, NEW q, NEW b \in Seq(Datagram), Linked(h, g, q, b), NEW ms \in Seq(Datagram),
           \A k \in DOMAIN ms : Passes(ms[k], g, h),
           \A j, k \in DOMAIN ms : j < k => Precedes(ms[j], ms[k]),
           \A j \in DOMAIN b : \A k \in DOMAIN ms : Precedes(b[j], ms[k])
    PROVE  Linked(h, g, q, b \o ms)
<1> DEFINE r == b \o ms
           n == Len(b)
           m == Len(ms)
<1>1. /\ n \in Nat /\ m \in Nat /\ DOMAIN r = 1 .. n + m /\ DOMAIN b = 1 .. n /\ DOMAIN ms = 1 .. m
      /\ \A k \in 1 .. n : r[k] = b[k]
      /\ \A k \in 1 .. n + m : k \notin 1 .. n => r[k] = ms[k - n] /\ k - n \in 1 .. m
  OBVIOUS
<1> HIDE DEF r, n, m
<1>2. \A k \in DOMAIN b : Passes(b[k], g, h)
  BY DEF Linked, Way
<1>3. \A j, k \in DOMAIN b : j < k => Precedes(b[j], b[k])
  BY DEF Linked, Way
<1>4. \A k \in DOMAIN r : Passes(r[k], g, h)
  BY <1>1, <1>2
<1>5. ASSUME NEW j \in 1 .. n + m, NEW k \in 1 .. n + m, j < k
      PROVE  Precedes(r[j], r[k])
  <2>1. CASE k \in 1 .. n
    <3>1. j \in 1 .. n
      BY <1>1, <1>5, <2>1
    <3> QED
      BY <1>1, <1>3, <1>5, <2>1, <3>1
  <2>2. CASE k \notin 1 .. n /\ j \in 1 .. n
    BY <1>1, <2>2
  <2>3. CASE k \notin 1 .. n /\ j \notin 1 .. n
    <3>1. j - n < k - n
      BY <1>1, <1>5
    <3> QED
      BY <1>1, <2>3, <3>1
  <2> QED
    BY <2>1, <2>2, <2>3
<1>6. Way(r, g, h)
  BY <1>1, <1>4, <1>5 DEF Way
<1> QED
  BY <1>6 DEF Linked, r

(* A datagram leaves the way.                                              *)
LEMMA LinkedDrop ==
    ASSUME NEW h, NEW g, NEW q \in Seq(Datagram), NEW b, Linked(h, g, q, b), NEW k \in DOMAIN q,
           NEW r \in Seq(Datagram), Len(r) = Len(q) - 1,
           \A i \in 1 .. k - 1 : r[i] = q[i],
           \A i \in k .. Len(q) - 1 : r[i] = q[i + 1]
    PROVE  Linked(h, g, r, b)
<1> DEFINE n == Len(q)
           at(i) == IF i < k THEN i ELSE i + 1
<1>1. n \in Nat /\ DOMAIN q = 1 .. n /\ k \in 1 .. n /\ DOMAIN r = 1 .. n - 1
  OBVIOUS
<1> HIDE DEF n
<1>2. \A i \in 1 .. n - 1 : at(i) \in 1 .. n /\ r[i] = q[at(i)]
  <2> SUFFICES ASSUME NEW i \in 1 .. n - 1 PROVE at(i) \in 1 .. n /\ r[i] = q[at(i)]
    OBVIOUS
  <2>1. CASE i < k
    <3>1. i \in 1 .. k - 1 /\ at(i) = i
      BY <1>1, <2>1
    <3> QED
      BY <1>1, <3>1
  <2>2. CASE ~(i < k)
    <3>1. i \in k .. n - 1 /\ at(i) = i + 1
      BY <1>1, <2>2
    <3> QED
      BY <1>1, <3>1 DEF n
  <2> QED
    BY <2>1, <2>2
<1>3. \A i, j \in 1 .. n - 1 : i < j => at(i) < at(j)
  BY <1>1
<1> HIDE DEF at
<1>4. \A i \in DOMAIN r : Passes(r[i], h, g)
  BY <1>1, <1>2 DEF Linked, Way
<1>5. \A i, j \in DOMAIN r : i < j => Precedes(r[i], r[j])
  BY <1>1, <1>2, <1>3 DEF Linked, Way
<1> QED
  BY <1>4, <1>5 DEF Linked, Way

(* More was received, or handed over.                                      *)
LEMMA LinkedTakes ==
    ASSUME NEW h \in Peer, NEW g \in Peer, NEW q, NEW b \in Seq(Datagram), Linked(h, g, q, b), NEW c,
           c.o = h.o, c.opackets = h.opackets, c.thrown = h.thrown, c.r = h.r, c.status = h.status,
           c.i \in Nat, c.i >= h.i, Between(c.i, g), \A f \in c.ipackets : Between(End(f), g),
           \A k \in DOMAIN q : q[k].kind = "Conn" => c.i = h.i /\ c.ipackets = h.ipackets
    PROVE  Linked(c, g, q, b)
<1>0. h.i \in Nat /\ g.o \in Nat
  BY DEF Peer
<1>1. \A x : (Between(x, c) <=> Between(x, h)) /\ (KeptFrom(x, c) <=> KeptFrom(x, h))
  BY DEF Between, KeptFrom
<1>2. \A x : Mark(x, c) <=> Mark(x, h)
  BY <1>1 DEF Mark
<1>3. Packed(c)
  BY <1>1 DEF Packed, Linked
<1>4. Knows(g, c)
  BY <1>1, <1>2 DEF Knows, Linked
<1>5. Knows(c, g)
  <2>1. KeptFrom(h.i, g) /\ h.r <= g.o
    BY DEF Linked, Knows, Mark
  <2>2. c.i .. g.o - 1 \subseteq h.i .. g.o - 1
    BY <1>0
  <2>3. KeptFrom(c.i, g)
    BY <2>1, <2>2 DEF KeptFrom
  <2> QED
    BY <2>1, <2>3 DEF Knows, Mark
<1>6. Way(q, c, g)
  <2>1. \A k \in DOMAIN q : Passes(q[k], h, g)
    BY DEF Linked, Way
  <2>2. \A k \in DOMAIN q : Passes(q[k], c, g)
    BY <1>2, <2>1 DEF Passes
  <2> QED
    BY <2>2 DEF Linked, Way
<1>7. Way(b, g, c)
  <2>1. \A k \in DOMAIN b : Passes(b[k], g, h) /\ b[k] \in Datagram
    BY DEF Linked, Way
  <2>2. \A m \in Datagram : m.kind = "Check" => m.ack \in Nat
    BY DEF Datagram, Fragment, Question, Greeting
  <2>3. \A k \in DOMAIN b : Passes(b[k], g, c)
    <3> SUFFICES ASSUME NEW k \in DOMAIN b PROVE Passes(b[k], g, c)
      OBVIOUS
    <3> DEFINE m == b[k]
    <3>1. Passes(m, g, h) /\ m \in Datagram
      BY <2>1
    <3> HIDE DEF m
    <3>2. m.kind = "Check" => m.ack <= c.i
      BY <1>0, <2>2, <3>1 DEF Passes
    <3>3. Passes(m, g, c)
      BY <1>1, <3>1, <3>2 DEF Passes
    <3> QED
      BY <3>3 DEF m
  <2> QED
    BY <2>3 DEF Linked, Way
<1> QED
  BY <1>3, <1>4, <1>5, <1>6, <1>7 DEF Linked

(* Handing over. *)
LEMMA LinkedComplete ==
    ASSUME NEW h, Good(h), NEW g \in Peer, NEW q, NEW b \in Seq(Datagram), Linked(h, g, q, b)
    PROVE  Linked(CheckCompleteIPackets(h), g, q, b)
<1> DEFINE c == CheckCompleteIPackets(h)
<1>1. /\ c = [h EXCEPT !.got = c.got, !.i = c.i, !.ipackets = c.ipackets]
      /\ c.i >= h.i /\ c.ipackets \subseteq h.ipackets
      /\ c.i = h.i \/ \E f \in h.ipackets : c.i = End(f)
  BY Completed
<1>2. h \in Peer /\ h.i \in Nat /\ h.ipackets \in SUBSET Fragment
  BY DEF Good, Peer
<1> HIDE DEF c
<1>3. c.o = h.o /\ c.opackets = h.opackets /\ c.thrown = h.thrown /\ c.r = h.r /\ c.status = h.status
  BY <1>1, <1>2 DEF Peer
<1>4. Between(h.i, g) /\ \A f \in h.ipackets : Between(End(f), g)
  BY DEF Linked, Knows, Mark
<1>5. c.i \in Nat
  BY <1>1, <1>2, FragmentNumbers
<1>6. Between(c.i, g) /\ \A f \in c.ipackets : Between(End(f), g)
  BY <1>1, <1>4
<1>7. \A k \in DOMAIN q : q[k].kind = "Conn" => c.i = h.i /\ c.ipackets = h.ipackets
  <2>1. \A k \in DOMAIN q : q[k].kind = "Conn" => h.ipackets = {}
    BY DEF Linked, Way, Passes
  <2> QED
    BY <1>1, <2>1
<1> QED
  BY <1>1, <1>2, <1>3, <1>5, <1>6, <1>7, LinkedTakes DEF c

(* What is acknowledged is a beginning of what was kept: from the number   *)
(* on everything stays.                                                    *)
LEMMA ClearedKeeps ==
    ASSUME NEW P \in Seq(OPacket), NEW ack \in Nat,
           \A k \in DOMAIN P : ack <= P[k].nr \/ P[k].nr + P[k].cnt <= ack
    PROVE  LET Q == ClearPackets(P, ack) IN
           /\ Len(Q) <= Len(P)
           /\ \A n \in Nat : n >= ack /\ HasFragment(P, n) => HasFragment(Q, n)
<1> DEFINE K == {k \in DOMAIN P : \A j \in 1..k : P[j].nr < ack}
           n == Cardinality(K)
           Q == SubSeq(P, n + 1, Len(P))
<1>1. Len(P) \in Nat /\ DOMAIN P = 1 .. Len(P)
  OBVIOUS
<1>2. \A m \in Nat : IsFiniteSet(1 .. m) /\ Cardinality(1 .. m) = m
  BY FS_Interval
<1>3. K \in SUBSET (1 .. Len(P))
  BY <1>1
<1>4. \A m \in 1 .. Len(P) : m \notin K => K \in SUBSET (1 .. m - 1)
  BY <1>1
<1>5. \A k \in DOMAIN P : k \in K => P[k].nr < ack
  BY <1>1
<1>6. ClearPackets(P, ack) = Q
  BY DEF ClearPackets, From
<1> HIDE DEF K
<1>7. n \in Nat /\ n <= Len(P)
  <2>1. IsFiniteSet(1 .. Len(P)) /\ Cardinality(1 .. Len(P)) = Len(P)
    BY <1>1, <1>2
  <2>2. IsFiniteSet(K) /\ Cardinality(K) <= Cardinality(1 .. Len(P))
    BY <1>3, <2>1, FS_Subset
  <2>3. Cardinality(K) \in Nat
    BY <2>2, FS_CardinalityType
  <2> QED
    BY <2>1, <2>2, <2>3
<1>8. ASSUME NEW m \in 1 .. Len(P), m \notin K PROVE n < m
  <2>1. m - 1 \in Nat /\ K \in SUBSET (1 .. m - 1)
    BY <1>4, <1>8
  <2>2. IsFiniteSet(1 .. m - 1) /\ Cardinality(1 .. m - 1) = m - 1
    BY <1>2, <2>1
  <2>3. n <= m - 1
    BY <2>1, <2>2, FS_Subset
  <2> QED
    BY <1>7, <2>1, <2>3
<1> HIDE DEF n
<1>9. Len(Q) = Len(P) - n /\ DOMAIN Q = 1 .. Len(P) - n /\ \A k \in 1 .. Len(P) - n : Q[k] = P[k + n]
  <2>1. n + 1 \in 1 .. Len(P) + 1 /\ Len(P) \in Nat
    BY <1>1, <1>7
  <2>2. Q \in Seq(OPacket) /\ Len(Q) = Len(P) - n
    BY <1>7, <2>1
  <2>3. \A k \in 1 .. Len(P) - n : Q[k] = P[k + n]
    BY <1>7, <2>1
  <2> HIDE DEF Q
  <2> QED
    BY <2>2, <2>3
<1> HIDE DEF Q
<1>10. ASSUME NEW x \in Nat, x >= ack, HasFragment(P, x) PROVE HasFragment(Q, x)
  <2>1. PICK k \in DOMAIN P : x \in Numbers(P[k])
    BY <1>10 DEF HasFragment
  <2>2. P[k] \in OPacket
    BY <2>1
  <2>3. P[k].nr \in Nat /\ P[k].cnt \in Nat
    BY <2>2, SizesAssumption DEF OPacket
  <2>4. x \in P[k].nr .. P[k].nr + P[k].cnt - 1
    BY <2>1 DEF Numbers
  <2>5. k \notin K
    BY <1>5, <1>10, <2>1, <2>3, <2>4
  <2>6. k - n \in DOMAIN Q /\ Q[k - n] = P[k]
    BY <1>1, <1>7, <1>8, <1>9, <2>5
  <2> QED
    BY <2>1, <2>6 DEF HasFragment
<1>11. Len(Q) <= Len(P)
  BY <1>1, <1>7, <1>9
<1> QED
  BY <1>6, <1>10, <1>11

(* The second one acknowledges what the first one has sent.                *)
LEMMA LinkedClears ==
    ASSUME NEW h \in Peer, NEW g \in Peer, NEW q \in Seq(Datagram), NEW b, Linked(h, g, q, b),
           NEW ack \in Nat, Mark(ack, h), ack <= g.i,
           \A k \in DOMAIN q : q[k].kind = "Check" => ack <= q[k].ack,
           NEW c, c.opackets = ClearPackets(h.opackets, ack), c.thrown = h.thrown,
           c.o = h.o, c.r = h.r, c.i = h.i, c.ipackets = h.ipackets, c.status = h.status
    PROVE  Linked(c, g, q, b) /\ KeptFrom(ack, c)
<1> DEFINE P == h.opackets
           Q == c.opackets
<1>0. h.o \in Nat /\ P \in Seq(OPacket) /\ g.i \in Nat /\ Len(P) \in Nat
  BY DEF Peer
<1>1. Q \in Seq(OPacket) /\ Len(Q) \in Nat /\ \A k \in DOMAIN Q : \E j \in DOMAIN P : Q[k] = P[j]
  <2>1. Q = ClearPackets(P, ack)
    OBVIOUS
  <2> HIDE DEF P, Q
  <2>2. Q \in Seq(OPacket) /\ \A k \in DOMAIN Q : \E j \in DOMAIN P : Q[k] = P[j]
    BY <1>0, <2>1, ClearedPackets
  <2> QED
    BY <2>2
<1>2. Len(Q) <= Len(P) /\ \A n \in Nat : n >= ack /\ HasFragment(P, n) => HasFragment(Q, n)
  <2>1. \A k \in DOMAIN P : ack <= P[k].nr \/ P[k].nr + P[k].cnt <= ack
    BY DEF Mark, Between
  <2> QED
    BY <1>0, <2>1, ClearedKeeps
<1>3. \A x : Between(x, h) => Between(x, c)
  BY <1>1 DEF Between
<1>4. \A x \in Nat : x >= ack /\ KeptFrom(x, h) => KeptFrom(x, c)
  <2> SUFFICES ASSUME NEW x \in Nat, x >= ack, KeptFrom(x, h), NEW n \in x .. h.o - 1
               PROVE  n < c.thrown \/ HasFragment(Q, n)
    BY DEF KeptFrom
  <2>1. n \in Nat /\ n >= ack
    BY <1>0
  <2> QED
    BY <1>2, <2>1 DEF KeptFrom
<1>5. \A x : Mark(x, h) => x \in Nat
  BY DEF Mark, Between
<1>6. \A x : Mark(x, h) /\ x >= ack => Mark(x, c)
  BY <1>3, <1>4, <1>5 DEF Mark
<1>7. Packed(c)
  <2>1. Packed(h)
    BY DEF Linked
  <2>2. c.status # "Works" => Q = <<>>
    <3> SUFFICES ASSUME P = <<>> PROVE Q = <<>>
      BY <2>1 DEF Packed
    <3>1. Len(Q) <= 0
      BY <1>2
    <3> QED
      BY <1>1, <3>1
  <2>4. \A k \in DOMAIN Q : Between(Q[k].nr + Q[k].cnt, c)
    BY <1>1, <1>3, <2>1 DEF Packed
  <2> QED
    BY <2>1, <2>2, <2>4 DEF Packed
<1>8. Knows(c, g)
  BY DEF Knows, Linked
<1>9. Knows(g, c)
  BY <1>3, <1>6 DEF Knows, Linked
<1>10. Way(q, c, g)
  <2>1. \A k \in DOMAIN q : Passes(q[k], h, g)
    BY DEF Linked, Way
  <2>2. \A k \in DOMAIN q : Passes(q[k], c, g)
    BY <1>6, <2>1 DEF Passes
  <2> QED
    BY <2>2 DEF Linked, Way
<1>11. Way(b, g, c)
  <2>1. \A k \in DOMAIN b : Passes(b[k], g, h)
    BY DEF Linked, Way
  <2>2. \A k \in DOMAIN b : Passes(b[k], g, c)
    BY <1>3, <2>1 DEF Passes
  <2> QED
    BY <2>2 DEF Linked, Way
<1>12. KeptFrom(ack, c)
  BY <1>4 DEF Mark
<1> QED
  BY <1>7, <1>8, <1>9, <1>10, <1>11, <1>12 DEF Linked

(* The first one says one datagram. *)
LEMMA LinkedSaysOne ==
    ASSUME NEW h, NEW g, NEW q, NEW b \in Seq(Datagram), Linked(h, g, q, b), NEW m \in Datagram,
           Passes(m, g, h), \A j \in DOMAIN b : Precedes(b[j], m)
    PROVE  Linked(h, g, q, b \o <<m>>)
<1> DEFINE ms == <<m>>
<1>1. ms \in Seq(Datagram) /\ \A k \in DOMAIN ms : ms[k] = m
  OBVIOUS
<1>2. \A j, k \in DOMAIN ms : ~(j < k)
  OBVIOUS
<1> HIDE DEF ms
<1>3. \A k \in DOMAIN ms : Passes(ms[k], g, h) /\ \A j \in DOMAIN b : Precedes(b[j], ms[k])
  BY <1>1
<1>4. Linked(h, g, q, b \o ms)
  BY <1>1, <1>2, <1>3, LinkedSays
<1> QED
  BY <1>4 DEF ms

(* A ConnOK. *)
LEMMA LinkedConnOK ==
    ASSUME NEW h \in Peer, NEW g, NEW q, NEW b \in Seq(Datagram), Linked(h, g, q, b)
    PROVE  Linked(h, g, q, b \o <<ConnOKMsg(h.o)>>)
<1> DEFINE m == ConnOKMsg(h.o)
<1>1. h.o \in Nat
  BY DEF Peer
<1>2. m \in Datagram /\ m.kind = "ConnOK" /\ m.nr = h.o
  BY <1>1 DEF ConnOKMsg, Datagram, Greeting
<1> HIDE DEF m
<1>3. Passes(m, g, h) /\ \A j \in DOMAIN b : Precedes(b[j], m)
  BY <1>1, <1>2 DEF Passes, Precedes
<1> QED
  BY <1>2, <1>3, LinkedSaysOne DEF m

(* A Conn: who has sent nothing yet was not heard.                         *)
LEMMA LinkedConn ==
    ASSUME NEW h \in Peer, NEW g \in Peer, NEW q, NEW b \in Seq(Datagram), Linked(h, g, q, b), h.o = 0
    PROVE  Linked(h, g, q, b \o <<ConnMsg(h.o)>>)
<1> DEFINE m == ConnMsg(h.o)
<1>1. m \in Datagram /\ m.kind = "Conn" /\ m.nr = 0
  BY DEF ConnMsg, Datagram, Greeting
<1>2. \A f \in Fragment : ~Between(End(f), h)
  <2> SUFFICES ASSUME NEW f \in Fragment, Between(End(f), h) PROVE FALSE
    OBVIOUS
  <2>1. End(f) \in Nat /\ f.fnr \in Nat /\ f.fnr < End(f)
    BY FragmentNumbers
  <2>2. End(f) \in 0 .. 0
    BY DEF Between
  <2> QED
    BY <2>1, <2>2
<1>3. g.i = 0
  BY DEF Linked, Knows, Mark, Between
<1>4. g.ipackets = {}
  BY <1>2 DEF Linked, Knows, Peer
<1>5. \A j \in DOMAIN b : b[j].kind # "Data"
  <2> SUFFICES ASSUME NEW j \in DOMAIN b, b[j].kind = "Data" PROVE FALSE
    OBVIOUS
  <2>1. b[j] \in Datagram
    OBVIOUS
  <2>2. b[j] \in Fragment
    BY <2>1 DEF Datagram, Question, Greeting
  <2> QED
    BY <1>2, <2>2 DEF Linked, Way, Passes
<1> HIDE DEF m
<1>6. Passes(m, g, h) /\ \A j \in DOMAIN b : Precedes(b[j], m)
  BY <1>1, <1>3, <1>4, <1>5 DEF Passes, Precedes
<1> QED
  BY <1>1, <1>6, LinkedSaysOne DEF m

(* What is said adds to what was said. *)
LEMMA Joined ==
    ASSUME NEW b \in Seq(Datagram), NEW x \in Seq(Datagram), NEW y \in Seq(Datagram)
    PROVE  b \o (x \o y) = (b \o x) \o y
OBVIOUS

(* A Check. *)
LEMMA LinkedCheck ==
    ASSUME NEW h, Good(h), NEW g \in Peer, NEW q, NEW b \in Seq(Datagram), Linked(h, g, q, b \o h.send),
           NEW force \in BOOLEAN, NEW c \in Check(h, force)
    PROVE  Linked(c, g, q, b \o c.send)
<1>1. h \in Peer /\ h.i \in Nat /\ h.o \in Nat /\ h.r \in Nat /\ g.o \in Nat /\ h.send \in Seq(Datagram)
  BY DEF Good, Peer
<1>2. CASE c = h
  BY <1>2
<1>3. ASSUME NEW ask \in SUBSET (h.i .. h.r - 1), NEW ms \in Seq(Datagram), NEW a, NEW t, Inquires(h, c, ask, ms, a, t)
      PROVE  Linked(c, g, q, b \o c.send)
  <2> DEFINE m == CheckMsg(h.o, h.i, ask)
             d == b \o h.send
  <2>1. /\ c.o = h.o /\ c.opackets = h.opackets /\ c.thrown = h.thrown /\ c.i = h.i /\ c.ipackets = h.ipackets /\ c.r = h.r
        /\ c.status = h.status /\ c.send = h.send \o ms
    BY <1>1, <1>3 DEF Inquires, Peer
  <2>2. m \in Datagram /\ m.kind = "Check" /\ m.nr = h.o /\ m.ack = h.i /\ m.ask = ask
    BY <1>3 DEF Inquires, CheckMsg
  <2>3. ms = <<>> \/ ms = <<m>>
    BY <1>3 DEF Inquires
  <2>4. d \in Seq(Datagram)
    BY <1>1
  <2>13. b \o c.send = d \o ms
    <3>1. b \o (h.send \o ms) = (b \o h.send) \o ms
      BY <1>1, Joined
    <3> QED
      BY <2>1, <3>1
  <2>5. Linked(h, g, q, d)
    OBVIOUS
  <2> HIDE DEF d, m
  <2>6. Mark(h.i, g) /\ h.r <= g.o
    BY <2>5 DEF Linked, Knows
  <2>7. ask \subseteq h.i .. g.o - 1
    <3>1. h.i .. h.r - 1 \subseteq h.i .. g.o - 1
      BY <1>1, <2>6
    <3> QED
      BY <3>1
  <2>8. Passes(m, g, h)
    BY <1>1, <2>2, <2>6, <2>7 DEF Passes
  <2>9. \A j \in DOMAIN d : Precedes(d[j], m)
    BY <2>2, <2>5 DEF Precedes, Linked, Way, Passes
  <2>10. Linked(h, g, q, d \o ms)
    <3>1. CASE ms = <<>>
      BY <2>4, <2>5, <3>1
    <3>2. CASE ms = <<m>>
      BY <2>2, <2>4, <2>5, <2>8, <2>9, <3>2, LinkedSaysOne
    <3> QED
      BY <2>3, <3>1, <3>2
  <2>11. c.r <= g.o /\ (c.status = "Works" \/ (c.o = 0 /\ c.opackets = <<>>))
    BY <2>1, <2>5, <2>6 DEF Linked, Packed
  <2>12. Linked(c, g, q, d \o ms)
    BY <2>1, <2>10, <2>11, LinkedLike
  <2> QED
    BY <2>12, <2>13
<1> QED
  BY <1>2, <1>3, Checked

(* A packet is sent. *)
LEMMA LinkedSends ==
    ASSUME NEW h, Good(h), NEW g \in Peer, NEW q, NEW b \in Seq(Datagram), Linked(h, g, q, b),
           h.status = "Works", NEW p \in OPacket, p.nr = h.o,
           NEW ms \in Seq(Datagram), ms = Fragments(p),
           NEW c, c.o = h.o + p.cnt, c.opackets = Kept(h.opackets, p), c.thrown = ThrownAway(h, p),
           c.r = h.r, c.i = h.i, c.ipackets = h.ipackets, c.status = h.status
    PROVE  Linked(c, g, q, b \o ms)
<1> DEFINE P == h.opackets
           Q == Append(P, p)
           R == c.opackets
           n == Len(P)
           o == h.o
<1>1. h \in Peer /\ o \in Nat /\ P \in Seq(OPacket) /\ n \in Nat /\ Backlog \in Nat /\ g.i \in Nat /\ g.o \in Nat
  <2>1. h \in Peer /\ o \in Nat /\ P \in Seq(OPacket) /\ g.i \in Nat /\ g.o \in Nat
    BY DEF Good, Peer
  <2>2. Backlog \in Nat
    BY OptionsAssumption
  <2> HIDE DEF P
  <2>3. n \in Nat
    BY <2>1
  <2> QED
    BY <2>1, <2>2, <2>3
<1>2. p.nr = o /\ p.cnt \in Nat /\ p.cnt > 0
  <2>1. p.cnt \in Nat \ {0}
    BY SizesAssumption DEF OPacket
  <2> QED
    BY <2>1
<1>3. /\ Q \in Seq(OPacket) /\ Len(Q) = n + 1 /\ DOMAIN Q = 1 .. n + 1 /\ DOMAIN P = 1 .. n
      /\ \A k \in 1 .. n : Q[k] = P[k]
      /\ Q[n + 1] = p
  BY <1>1
<1>4. /\ DOMAIN R \subseteq 1 .. n + 1 /\ \A k \in DOMAIN R : \E j \in 1 .. n + 1 : R[k] = Q[j]
      /\ \A y \in Nat : HasFragment(Q, y) => y < c.thrown \/ HasFragment(R, y)
      /\ c.thrown \in Nat /\ h.thrown \in Nat /\ c.thrown >= h.thrown
  <2>0. c.thrown \in Nat /\ h.thrown \in Nat /\ c.thrown >= h.thrown
    <3>1. h.thrown \in Nat
      BY <1>1 DEF Peer
    <3>2. ThrownAway(h, p) \in Nat /\ ThrownAway(h, p) >= h.thrown
      BY <1>1, ThrownPackets
    <3> QED
      BY <3>1, <3>2
  <2>1. CASE Len(Q) > Backlog
    <3>1. R = Tail(Q) /\ c.thrown = larger(h.thrown, Head(Q).nr + Head(Q).cnt)
      BY <2>1 DEF Kept, ThrownAway
    <3> HIDE DEF P, R
    <3>2. /\ Head(Q) = Q[1] /\ DOMAIN Tail(Q) = 1 .. n /\ \A k \in 1 .. n : Tail(Q)[k] = Q[k + 1]
          /\ Q[1] \in OPacket
      BY <1>1, <1>3
    <3> HIDE DEF Q, n
    <3>3. DOMAIN R = 1 .. n /\ \A k \in 1 .. n : R[k] = Q[k + 1] /\ k + 1 \in 1 .. n + 1
      BY <1>1, <3>1, <3>2
    <3>4. Q[1].nr \in Nat /\ Q[1].cnt \in Nat
      BY <3>2, SizesAssumption DEF OPacket
    <3>5. Q[1].nr + Q[1].cnt <= c.thrown
      BY <2>0, <3>1, <3>2, <3>4 DEF larger
    <3>6. ASSUME NEW y \in Nat, HasFragment(Q, y) PROVE y < c.thrown \/ HasFragment(R, y)
      <4>1. PICK k \in 1 .. n + 1 : y \in Numbers(Q[k])
        BY <1>3, <3>6 DEF HasFragment
      <4>2. CASE k = 1
        <5>1. y \in Q[1].nr .. Q[1].nr + Q[1].cnt - 1
          BY <4>1, <4>2 DEF Numbers
        <5> QED
          BY <2>0, <3>4, <3>5, <5>1
      <4>3. CASE k # 1
        <5>1. k - 1 \in 1 .. n /\ (k - 1) + 1 = k
          BY <1>1, <4>1, <4>3
        <5>2. k - 1 \in DOMAIN R /\ R[k - 1] = Q[k]
          BY <3>3, <5>1
        <5> QED
          BY <4>1, <5>2 DEF HasFragment
      <4> QED
        BY <4>2, <4>3
    <3>7. 1 .. n \subseteq 1 .. n + 1
      BY <1>1
    <3> QED
      BY <2>0, <3>3, <3>6, <3>7
  <2>2. CASE ~(Len(Q) > Backlog)
    <3>1. R = Q
      BY <2>2 DEF Kept
    <3> HIDE DEF P, Q, R, n
    <3> QED
      BY <1>3, <2>0, <3>1
  <2> QED
    BY <2>1, <2>2
<1>5. \A k \in 1 .. n : P[k].nr + P[k].cnt <= o /\ P[k].nr \in Nat /\ P[k].cnt \in Nat
  <2> SUFFICES ASSUME NEW k \in 1 .. n PROVE P[k].nr + P[k].cnt <= o /\ P[k].nr \in Nat /\ P[k].cnt \in Nat
    OBVIOUS
  <2>1. k \in DOMAIN P
    BY <1>3
  <2>2. P[k].nr + P[k].cnt <= o
    BY <2>1 DEF Good, Own
  <2>3. P[k] \in OPacket
    BY <1>1, <2>1
  <2> HIDE DEF P, o
  <2> QED
    BY <2>2, <2>3, SizesAssumption DEF OPacket
<1>6. Packed(h)
  BY DEF Linked
<1> HIDE DEF P, Q, R, n, o
<1>7. c.o = o + p.cnt /\ c.o \in Nat
  BY <1>1, <1>2 DEF o
<1>8. \A x : Between(x, h) => Between(x, c)
  <2> SUFFICES ASSUME NEW x, Between(x, h) PROVE Between(x, c)
    OBVIOUS
  <2>1. x \in 0 .. o /\ \A k \in 1 .. n : x <= P[k].nr \/ P[k].nr + P[k].cnt <= x
    BY <1>3 DEF Between, o, P
  <2>2. x \in 0 .. c.o /\ x <= p.nr
    BY <1>1, <1>2, <1>7, <2>1
  <2>3. \A k \in 1 .. n + 1 : x <= Q[k].nr \/ Q[k].nr + Q[k].cnt <= x
    <3> SUFFICES ASSUME NEW k \in 1 .. n + 1 PROVE x <= Q[k].nr \/ Q[k].nr + Q[k].cnt <= x
      OBVIOUS
    <3>1. k \in 1 .. n \/ k = n + 1
      BY <1>1
    <3> QED
      BY <1>3, <2>1, <2>2, <3>1
  <2> QED
    BY <1>4, <2>2, <2>3 DEF Between, R
<1>9. Between(o + p.cnt, c)
  <2>1. o + p.cnt \in 0 .. c.o
    BY <1>7
  <2>2. \A k \in 1 .. n + 1 : Q[k].nr + Q[k].cnt <= o + p.cnt
    <3> SUFFICES ASSUME NEW k \in 1 .. n + 1 PROVE Q[k].nr + Q[k].cnt <= o + p.cnt
      OBVIOUS
    <3>1. CASE k \in 1 .. n
      <4>1. Q[k] = P[k] /\ P[k].nr + P[k].cnt <= o /\ P[k].nr \in Nat /\ P[k].cnt \in Nat
        BY <1>3, <1>5, <3>1
      <4>2. Q[k].nr + Q[k].cnt = P[k].nr + P[k].cnt
        BY <4>1
      <4>3. P[k].nr + P[k].cnt <= o + p.cnt
        <5>1. \A x, y \in Nat : x + y <= o => x + y <= o + p.cnt
          BY <1>1, <1>2
        <5> QED
          BY <4>1, <5>1
      <4> QED
        BY <4>2, <4>3
    <3>2. CASE k = n + 1
      <4>1. Q[k].nr + Q[k].cnt = o + p.cnt
        BY <1>2, <1>3, <3>2
      <4> QED
        BY <1>1, <1>2, <4>1
    <3> QED
      BY <1>1, <3>1, <3>2
  <2> QED
    BY <1>4, <2>1, <2>2 DEF Between, R
<1>10. \A x : Mark(x, h) => Mark(x, c)
  <2> SUFFICES ASSUME NEW x, Mark(x, h), NEW y \in x .. c.o - 1 PROVE y < c.thrown \/ HasFragment(R, y)
    BY <1>8 DEF Mark, KeptFrom, R
  <2>1. x \in Nat /\ y \in Nat
    BY <1>1, <1>7 DEF Mark, Between, o
  <2>4. SUFFICES ASSUME ~(y < h.thrown) PROVE HasFragment(Q, y)
    BY <1>4, <2>1
  <2>2. CASE y < o
    <3>1. y \in x .. o - 1
      BY <1>1, <2>1, <2>2
    <3>2. HasFragment(P, y)
      BY <2>4, <3>1 DEF Mark, KeptFrom, P, o
    <3>3. PICK k \in 1 .. n : y \in Numbers(P[k])
      BY <1>3, <3>2 DEF HasFragment
    <3>4. k \in DOMAIN Q /\ Q[k] = P[k]
      BY <1>1, <1>3, <3>3
    <3> QED
      BY <3>3, <3>4 DEF HasFragment
  <2>3. CASE ~(y < o)
    <3>1. y \in p.nr .. p.nr + p.cnt - 1
      BY <1>1, <1>2, <1>7, <2>1, <2>3
    <3>2. n + 1 \in DOMAIN Q /\ Q[n + 1] = p
      BY <1>1, <1>3
    <3> QED
      BY <3>1, <3>2 DEF HasFragment, Numbers
  <2> QED
    BY <2>2, <2>3
<1>11. Packed(c)
  <2>2. \A k \in 1 .. n + 1 : Between(Q[k].nr + Q[k].cnt, c)
    <3> SUFFICES ASSUME NEW k \in 1 .. n + 1 PROVE Between(Q[k].nr + Q[k].cnt, c)
      OBVIOUS
    <3>1. CASE k \in 1 .. n
      BY <1>3, <1>6, <1>8, <3>1 DEF Packed, P
    <3>2. CASE k = n + 1
      BY <1>2, <1>3, <1>9, <3>2
    <3> QED
      BY <1>1, <3>1, <3>2
  <2> QED
    BY <1>4, <2>2 DEF Packed, R
<1>12. Knows(c, g)
  BY DEF Linked, Knows
<1>13. Knows(g, c)
  <2>1. g.r <= h.o /\ g.r \in Nat
    BY DEF Linked, Knows, Peer
  <2>2. g.r <= c.o
    BY <1>1, <1>2, <1>7, <2>1 DEF o
  <2> QED
    BY <1>8, <1>10, <2>2 DEF Linked, Knows
<1>14. Way(q, c, g)
  <2>1. \A k \in DOMAIN q : Passes(q[k], h, g)
    BY DEF Linked, Way
  <2>2. \A S : S \subseteq S
    OBVIOUS
  <2>3. \A k \in DOMAIN q : Passes(q[k], c, g)
    <3> SUFFICES ASSUME NEW m, Passes(m, h, g) PROVE Passes(m, c, g)
      BY <2>1
    <3>1. m.kind = "Check" => m.ack .. h.o - 1 \subseteq m.ack .. c.o - 1
      <4>1. m.kind = "Check" => m.ack \in Nat
        BY DEF Passes, Mark, Between
      <4> QED
        BY <1>1, <1>2, <1>7, <4>1 DEF o
    <3> QED
      BY <1>10, <3>1 DEF Passes
  <2> QED
    BY <2>3 DEF Linked, Way
<1>15. Way(b, g, c)
  <2>1. \A k \in DOMAIN b : Passes(b[k], g, h) /\ b[k] \in Datagram
    BY DEF Linked, Way
  <2>2. \A k \in DOMAIN b : Passes(b[k], g, c)
    <3> SUFFICES ASSUME NEW m \in Datagram, Passes(m, g, h) PROVE Passes(m, g, c)
      BY <2>1
    <3>1. m.nr \in Nat
      BY DEF Datagram, Fragment, Question, Greeting
    <3>2. m.nr <= c.o
      BY <1>1, <1>2, <1>7, <3>1 DEF Passes, o
    <3> QED
      BY <1>8, <3>2 DEF Passes
  <2> QED
    BY <2>2 DEF Linked, Way
<1>16. Linked(c, g, q, b)
  BY <1>11, <1>12, <1>13, <1>14, <1>15 DEF Linked
<1>17. \A k \in DOMAIN ms : ms[k].kind = "Data" /\ ms[k].nr <= c.o /\ End(ms[k]) = o + p.cnt
  <2> SUFFICES ASSUME NEW k \in 1 .. p.cnt
               PROVE  LET m == GetFragment(p, p.nr + k - 1) IN
                      m.kind = "Data" /\ m.nr <= c.o /\ End(m) = o + p.cnt
    BY DEF Fragments
  <2>1. p.nr + k - 1 <= c.o
    BY <1>1, <1>2, <1>7
  <2> QED
    BY <1>2, <2>1 DEF GetFragment, End
<1>18. \A k \in DOMAIN ms : Passes(ms[k], g, c)
  BY <1>9, <1>17 DEF Passes
<1>19. /\ \A j, k \in DOMAIN ms : j < k => Precedes(ms[j], ms[k])
       /\ \A j \in DOMAIN b : \A k \in DOMAIN ms : Precedes(b[j], ms[k])
  BY <1>17 DEF Precedes
<1> QED
  BY <1>16, <1>18, <1>19, LinkedSays

(* The first datagram of the way is m, and r is left of it.                *)
Comes(m, h, g, r) == Passes(m, h, g) /\ \A k \in DOMAIN r : Precedes(m, r[k])

(* A datagram arrives. *)
LEMMA LinkedHead ==
    ASSUME NEW h, NEW g, NEW q \in Seq(Datagram), q # <<>>, NEW b, Linked(h, g, q, b)
    PROVE  Linked(h, g, Tail(q), b) /\ Comes(Head(q), h, g, Tail(q))
<1> DEFINE r == Tail(q)
<1>1. /\ r \in Seq(Datagram) /\ Len(r) = Len(q) - 1 /\ 1 \in DOMAIN q /\ Head(q) = q[1]
      /\ \A i \in 1 .. Len(q) - 1 : r[i] = q[i + 1]
      /\ \A i \in DOMAIN r : r[i] = q[i + 1] /\ i + 1 \in DOMAIN q /\ 1 < i + 1
  OBVIOUS
<1> HIDE DEF r
<1>2. Linked(h, g, r, b)
  <2>1. \A i \in 1 .. 1 - 1 : r[i] = q[i]
    OBVIOUS
  <2> QED
    BY <1>1, <2>1, LinkedDrop
<1>3. Passes(q[1], h, g) /\ \A k \in DOMAIN q : 1 < k => Precedes(q[1], q[k])
  BY <1>1 DEF Linked, Way
<1> QED
  BY <1>1, <1>2, <1>3 DEF Comes, r

(* A fragment. *)
LEMMA LinkedData ==
    ASSUME NEW h, Good(h), h.status # "None", NEW g \in Peer, NEW r, NEW b \in Seq(Datagram),
           Linked(h, g, r, b), NEW m \in Fragment, Comes(m, h, g, r)
    PROVE  LET c == HandleData(h, m) IN
           /\ Linked(c, g, r, b) /\ c.status = h.status /\ c.retries = h.retries
           /\ c.send = h.send /\ c.starved = h.starved
<1> DEFINE a == AddFragment(h, m)
           d == CheckCompleteIPackets(a)
<1>1. h \in Peer /\ h.i \in Nat
  BY DEF Good, Peer
<1>2. CASE m.nr < h.i
  <2>1. HandleData(h, m) = h
    BY <1>2 DEF HandleData
  <2> QED
    BY <2>1
<1>3. CASE ~(m.nr < h.i)
  <2>1. a = h \/ a = [h EXCEPT !.ipackets = h.ipackets \cup {m}]
    BY DEF AddFragment
  <2>2. Good(a)
    BY <1>3, GoodAdd
  <2> HIDE DEF a
  <2>3. /\ a.o = h.o /\ a.opackets = h.opackets /\ a.thrown = h.thrown /\ a.r = h.r /\ a.i = h.i /\ a.status = h.status
        /\ a.retries = h.retries /\ a.send = h.send /\ a.starved = h.starved
        /\ \A f \in a.ipackets : f \in h.ipackets \/ f = m
    <3>1. CASE a = h
      BY <3>1
    <3>2. CASE a = [h EXCEPT !.ipackets = h.ipackets \cup {m}]
      BY <1>1, <3>2 DEF Peer
    <3> QED
      BY <2>1, <3>1, <3>2
  <2>4. Between(h.i, g) /\ \A f \in h.ipackets : Between(End(f), g)
    BY DEF Linked, Knows, Mark
  <2>5. m.kind = "Data"
    BY DEF Fragment
  <2>6. Between(End(m), g) /\ \A k \in DOMAIN r : r[k].kind # "Conn"
    BY <2>5 DEF Comes, Passes, Precedes
  <2>7. \A f \in a.ipackets : Between(End(f), g)
    BY <2>3, <2>4, <2>6
  <2>8. Linked(a, g, r, b)
    BY <1>1, <2>3, <2>4, <2>6, <2>7, LinkedTakes
  <2>9. Linked(d, g, r, b)
    BY <2>2, <2>8, LinkedComplete
  <2>10. d = [a EXCEPT !.got = d.got, !.i = d.i, !.ipackets = d.ipackets]
    BY <2>2, Completed
  <2>11. HandleData(h, m) = d
    BY <1>3 DEF HandleData, a
  <2>12. a \in Peer
    BY <2>2 DEF Good
  <2> HIDE DEF d
  <2>13. d.status = a.status /\ d.retries = a.retries /\ d.send = a.send /\ d.starved = a.starved
    BY <2>10, <2>12 DEF Peer
  <2> QED
    BY <2>3, <2>9, <2>11, <2>13
<1> QED
  BY <1>2, <1>3

(* The application hears of the connection. *)
LEMMA LinkedOnConn ==
    ASSUME NEW h, Good(h), h.status # "None", NEW g \in Peer, NEW r, NEW b \in Seq(Datagram),
           Linked(h, g, r, b)
    PROVE  LET c == OnConn(h, TRUE) IN
           Linked(c, g, r, b) /\ c.status = "Works" /\ c.send = h.send /\ c.starved = h.starved
<1> DEFINE a == [h EXCEPT !.status = "Works"]
           d == CheckCompleteIPackets(a)
<1>1. h \in Peer
  BY DEF Good
<1>2. /\ a \in Peer /\ a.status = "Works" /\ a.opackets = h.opackets /\ a.thrown = h.thrown /\ a.o = h.o /\ a.i = h.i /\ a.r = h.r
      /\ a.ipackets = h.ipackets /\ a.got = h.got /\ a.first = h.first /\ a.send = h.send
      /\ a.starved = h.starved
  BY <1>1 DEF Peer
<1>3. OnConn(h, TRUE) = d
  BY DEF OnConn
<1> HIDE DEF a
<1>4. Good(a)
  BY <1>2 DEF Good, Fits, Own, HandedOver, Waits, Rests
<1>5. h.r <= g.o
  BY DEF Linked, Knows
<1>6. Linked(a, g, r, b)
  BY <1>2, <1>5, LinkedLike
<1>7. Linked(d, g, r, b)
  BY <1>4, <1>6, LinkedComplete
<1>8. d = [a EXCEPT !.got = d.got, !.i = d.i, !.ipackets = d.ipackets]
  BY <1>4, Completed
<1> HIDE DEF d
<1>9. d.status = a.status /\ d.send = a.send /\ d.starved = a.starved
  BY <1>2, <1>8 DEF Peer
<1> QED
  BY <1>2, <1>3, <1>7, <1>9

(* A Conn: nothing was received before, and the connection goes on.        *)
LEMMA LinkedGreets ==
    ASSUME NEW h, Good(h), h.status # "None", NEW g \in Peer, NEW r, NEW b \in Seq(Datagram),
           Linked(h, g, r, b \o h.send), NEW m \in Greeting, m.kind = "Conn", Comes(m, h, g, r)
    PROVE  LET c == HandleConn(h, m, TRUE) IN
           /\ Linked(c, g, r, b \o c.send) /\ c.status = "Works" /\ c.starved = h.starved
           /\ c.send = h.send \o <<ConnOKMsg(h.o)>>
<1> DEFINE first == IF h.got = <<>> THEN 0 ELSE h.first
           new == [h EXCEPT !.r = 0, !.i = 0, !.ipackets = {}, !.timer = FALSE, !.asked = 0, !.first = first]
           ms == <<ConnOKMsg(h.o)>>
           a == SendDirect(new, ms)
           c == OnConn(a, TRUE)
           sent == b \o h.send
<1>1. /\ h \in Peer /\ h.o \in Nat /\ h.i \in Nat /\ h.send \in Seq(Datagram) /\ h.first \in Nat
      /\ g.o \in Nat
  BY DEF Good, Peer
<1>2. m.nr = 0 /\ h.i = 0 /\ h.ipackets = {}
  BY DEF Comes, Passes
<1>3. HandleConn(h, m, TRUE) = OnConn(SendDirect(new, <<ConnOKMsg(new.o)>>), TRUE)
  BY <1>2 DEF HandleConn
<1>4. first \in Nat
  BY <1>1
<1>5. ms \in Seq(Datagram)
  <2>1. ConnOKMsg(h.o) \in Datagram
    BY <1>1 DEF ConnOKMsg, Datagram, Greeting
  <2> QED
    BY <2>1
<1>6. sent \in Seq(Datagram)
  BY <1>1
<1> HIDE DEF ms
<1>7. /\ new \in Peer /\ new.status = h.status /\ new.o = h.o /\ new.opackets = h.opackets /\ new.thrown = h.thrown /\ new.i = h.i
      /\ new.r = 0 /\ new.ipackets = h.ipackets /\ new.got = h.got /\ new.first = first
      /\ new.send = h.send /\ new.starved = h.starved
  BY <1>1, <1>2, <1>4 DEF Peer
<1> HIDE DEF new
<1>8. Good(new)
  <2>1. Fits(new) /\ Own(new) /\ Waits(new) /\ Rests(new)
    BY <1>7 DEF Good, Fits, Own, Waits, Rests
  <2>2. HandedOver(new)
    <3>1. Follow(h.got, h.first) /\ Reach(h.got, h.first) = 0
      BY <1>2 DEF Good, HandedOver
    <3>2. CASE h.got = <<>>
      BY <1>2, <1>7, <3>2 DEF HandedOver, Follow, Reach
    <3>3. CASE h.got # <<>>
      BY <1>2, <1>7, <3>1, <3>3 DEF HandedOver
    <3> QED
      BY <3>2, <3>3
  <2> QED
    BY <1>7, <2>1, <2>2 DEF Good
<1>9. Linked(h, g, r, sent \o ms)
  BY <1>1, <1>6, LinkedConnOK DEF ms
<1>10. sent \o ms \in Seq(Datagram)
  BY <1>5, <1>6
<1>11. /\ a \in Peer /\ a.status = h.status /\ a.o = h.o /\ a.opackets = h.opackets /\ a.thrown = h.thrown /\ a.i = h.i
       /\ a.r = 0 /\ a.ipackets = h.ipackets /\ a.send = h.send \o ms /\ a.starved = h.starved
  <2>1. h.send \o ms \in Seq(Datagram)
    BY <1>1, <1>5
  <2>2. a = [new EXCEPT !.send = h.send \o ms]
    BY <1>7 DEF SendDirect
  <2> QED
    BY <1>7, <2>1, <2>2 DEF Peer
<1>12. Good(a)
  BY <1>5, <1>7, <1>8, GoodSend
<1> HIDE DEF a
<1>13. a.status = "Works" \/ (a.o = 0 /\ a.opackets = <<>>)
  BY <1>9, <1>11 DEF Linked, Packed
<1> HIDE DEF sent
<1>14. Linked(a, g, r, sent \o ms)
  BY <1>1, <1>9, <1>11, <1>13, LinkedLike
<1>15. Linked(c, g, r, sent \o ms) /\ c.status = "Works" /\ c.send = a.send /\ c.starved = a.starved
  BY <1>10, <1>11, <1>12, <1>14, LinkedOnConn
<1>16. b \o (h.send \o ms) = sent \o ms
  BY <1>1, <1>5, Joined DEF sent
<1>17. HandleConn(h, m, TRUE) = c
  BY <1>3, <1>7 DEF a, ms
<1> HIDE DEF c
<1>18. c.send = h.send \o ms
  BY <1>11, <1>15
<1> QED
  BY <1>11, <1>15, <1>16, <1>17, <1>18 DEF ms

(* A Check: what it asks for is kept. *)
LEMMA LinkedAnswer ==
    ASSUME NEW h, Good(h), h.status # "None", NEW g \in Peer, NEW r \in Seq(Datagram),
           NEW b \in Seq(Datagram), Linked(h, g, r, b \o h.send), NEW m \in Question, Comes(m, h, g, r)
    PROVE  LET c == HandleCheck(h, m) IN
           \/ /\ Linked(c, g, r, b \o c.send) /\ c.status = h.status /\ c.retries = h.retries
              /\ c.starved = h.starved
           \/ c.starved = {"Thrown"}
<1> DEFINE P == ClearPackets(h.opackets, m.ack)
           found == {n \in m.ask : \A k \in m.ask : k <= n => HasFragment(P, k)}
           N == Sorted(found)
           resend == [k \in DOMAIN N |-> GetFragment(GetPacketFrgm(P, N[k]), N[k])]
           a == [h EXCEPT !.opackets = P]
           c == SendDirect(a, resend)
           sent == b \o h.send
           Excused(n) == n < h.thrown \/ HasFragment(P, n)
           x == {IF \A n \in m.ask : Excused(n) THEN "Thrown" ELSE "Cleared"}
           d == [c EXCEPT !.starved = x]
<1>1. /\ h \in Peer /\ h.o \in Nat /\ h.send \in Seq(Datagram) /\ h.opackets \in Seq(OPacket)
      /\ m.ack \in Nat /\ m.ask \in SUBSET Nat /\ IsFiniteSet(m.ask) /\ m.kind = "Check"
  BY DEF Good, Peer, Question
<1>2. /\ Mark(m.ack, h) /\ m.ack <= g.i /\ m.ask \subseteq m.ack .. h.o - 1
      /\ \A k \in DOMAIN r : r[k].kind = "Check" => m.ack <= r[k].ack
  BY <1>1 DEF Comes, Passes, Precedes
<1>3. resend \in Seq(Datagram) /\ d \in Peer
  <2>1. x \in SUBSET Reasons
    BY DEF Reasons
  <2> HIDE DEF x
  <2>2. resend \in Seq(Datagram) /\ Good(d)
    BY <2>1, AnswerParts
  <2> QED
    BY <2>2 DEF Good
<1>4. P \in Seq(OPacket)
  BY <1>1, ClearedPackets
<1>5. /\ a \in Peer /\ a.opackets = P /\ a.thrown = h.thrown /\ a.o = h.o /\ a.r = h.r /\ a.i = h.i /\ a.ipackets = h.ipackets
      /\ a.status = h.status /\ a.retries = h.retries /\ a.send = h.send /\ a.starved = h.starved
  <2> HIDE DEF P
  <2> QED
    BY <1>1, <1>4 DEF Peer
<1>6. HandleCheck(h, m) = IF found = m.ask THEN c ELSE Close(d)
  BY DEF HandleCheck
<1> HIDE DEF a, x, d
<1>7. Linked(a, g, r, sent) /\ KeptFrom(m.ack, a)
  BY <1>1, <1>2, <1>5, LinkedClears
<1>22. \A n \in m.ask : n < h.thrown \/ HasFragment(P, n)
  <2>1. \A n \in m.ack .. a.o - 1 : n < a.thrown \/ HasFragment(a.opackets, n)
    BY <1>7 DEF KeptFrom
  <2> QED
    BY <1>2, <1>5, <2>1
<1>23. ASSUME found # m.ask PROVE HandleCheck(h, m).starved = {"Thrown"}
  <2>1. x = {"Thrown"}
    BY <1>22 DEF x
  <2>2. HandleCheck(h, m) = Close(d)
    BY <1>6, <1>23
  <2> HIDE DEF c, found
  <2>3. d.starved = x
    <3>1. DOMAIN d = DOMAIN c /\ d \in Peer
      BY <1>3 DEF d
    <3>2. "starved" \in DOMAIN c
      BY <3>1 DEF Peer
    <3> QED
      BY <3>2 DEF d
  <2>4. Close(d).starved = d.starved
    <3>1. SendDirect(d, <<CloseMsg>>).starved = d.starved
      BY <1>3 DEF SendDirect, Peer
    <3> QED
      BY <3>1 DEF Close, OnClose, NoPeer, NewPeer
  <2> QED
    BY <2>1, <2>2, <2>3, <2>4
<1>24. SUFFICES ASSUME found = m.ask
                PROVE  LET e == HandleCheck(h, m) IN
                       /\ Linked(e, g, r, b \o e.send) /\ e.status = h.status /\ e.retries = h.retries
                       /\ e.starved = h.starved
  BY <1>23
<1>9. found = m.ask
  BY <1>24
<1>8. \A n \in m.ask : HasFragment(P, n)
  <2> HIDE DEF P
  <2>1. \A n \in m.ask : n \in found /\ n <= n
    BY <1>1, <1>9
  <2> QED
    BY <2>1
<1>10. \A k \in DOMAIN N : N[k] \in m.ask
  BY <1>1, <1>9, SortedNumbers
<1> HIDE DEF N, P, found
<1>11. ASSUME NEW k \in DOMAIN N
       PROVE  /\ resend[k].kind = "Data" /\ resend[k].nr = N[k] /\ N[k] \in m.ask
              /\ Between(End(resend[k]), a)
  <2> DEFINE j == CHOOSE j \in DOMAIN P : N[k] \in Numbers(P[j])
  <2>1. N[k] \in m.ask /\ HasFragment(P, N[k])
    BY <1>8, <1>10, <1>11
  <2>2. j \in DOMAIN P
    BY <2>1 DEF HasFragment
  <2>3. GetPacketFrgm(P, N[k]) = P[j]
    BY DEF GetPacketFrgm
  <2> HIDE DEF j
  <2>4. Between(P[j].nr + P[j].cnt, a)
    BY <1>5, <1>7, <2>2 DEF Linked, Packed
  <2>5. resend[k] = GetFragment(P[j], N[k])
    BY <1>11, <2>3
  <2> HIDE DEF resend
  <2> QED
    BY <2>1, <2>4, <2>5 DEF GetFragment, End
<1>12. DOMAIN resend = DOMAIN N
  OBVIOUS
<1> HIDE DEF resend
<1>13. \A k \in DOMAIN resend : Passes(resend[k], g, a)
  <2> SUFFICES ASSUME NEW k \in DOMAIN resend PROVE Passes(resend[k], g, a)
    OBVIOUS
  <2>1. /\ resend[k].kind = "Data" /\ resend[k].nr = N[k] /\ N[k] \in m.ask
        /\ Between(End(resend[k]), a)
    BY <1>11, <1>12
  <2>2. N[k] \in m.ack .. h.o - 1
    BY <1>2, <2>1
  <2>3. N[k] <= a.o
    BY <1>1, <1>5, <2>2
  <2> QED
    BY <2>1, <2>3 DEF Passes
<1>14. /\ \A j, k \in DOMAIN resend : j < k => Precedes(resend[j], resend[k])
       /\ \A j \in DOMAIN sent : \A k \in DOMAIN resend : Precedes(sent[j], resend[k])
  <2>1. \A k \in DOMAIN resend : resend[k].kind = "Data"
    BY <1>11, <1>12
  <2> HIDE DEF sent
  <2> QED
    BY <2>1 DEF Precedes
<1>15. sent \in Seq(Datagram)
  BY <1>1
<1> HIDE DEF sent
<1>16. Linked(a, g, r, sent \o resend)
  BY <1>3, <1>7, <1>13, <1>14, <1>15, LinkedSays
<1>17. c = [a EXCEPT !.send = h.send \o resend] /\ h.send \o resend \in Seq(Datagram)
  BY <1>1, <1>3, <1>5 DEF SendDirect
<1> HIDE DEF c
<1>18. /\ c.opackets = a.opackets /\ c.thrown = a.thrown /\ c.o = a.o /\ c.r = a.r /\ c.i = a.i /\ c.ipackets = a.ipackets
       /\ c.status = h.status /\ c.retries = h.retries /\ c.send = h.send \o resend
       /\ c.starved = h.starved
  BY <1>5, <1>17 DEF Peer
<1>19. c.r <= g.o /\ (c.status = "Works" \/ (c.o = 0 /\ c.opackets = <<>>))
  BY <1>5, <1>16, <1>18 DEF Linked, Knows, Packed
<1>20. Linked(c, g, r, sent \o resend)
  BY <1>16, <1>18, <1>19, LinkedLike
<1>21. b \o c.send = sent \o resend
  <2>1. b \o (h.send \o resend) = (b \o h.send) \o resend
    BY <1>1, <1>3, Joined
  <2> QED
    BY <1>18, <2>1 DEF sent
<1> QED
  BY <1>6, <1>9, <1>18, <1>20, <1>21

(* What a step of a peer must do for the connection, to be set up in the   *)
(* end: c comes of h and says ms, where it got a datagram of the kinds K.  *)
Connects(h, c, ms, K) ==
    /\ h.status # "None" => c.status # "None"
    /\ c.status = "Conn" /\ h.status = "Conn" => c.retries = h.retries /\ K \cap {"Conn", "ConnOK"} = {}
    /\ c.status = "Conn" /\ h.status # "Conn" =>
          c.retries = MaxRetries /\ \E k \in DOMAIN ms : ms[k].kind = "Conn"
    /\ "Conn" \in K => \E k \in DOMAIN ms : ms[k].kind \in {"Conn", "ConnOK"}

(* A peer is created. *)
LEMMA LinkedNew ==
    ASSUME NEW h, Good(h), h.status = "None", h.send = <<>>, h.starved = {},
           NEW g \in Peer, NEW r, NEW b \in Seq(Datagram), Linked(h, g, r, b), NEW K
    PROVE  LET c == DoConn(NewPeer) IN
           Linked(c, g, r, b \o c.send) /\ Connects(h, c, c.send, K) /\ c.starved = {}
<1> DEFINE ms == <<ConnMsg(0)>>
           c == DoConn(NewPeer)
<1>1. h \in Peer /\ h.status = NoPeer.status /\ h.o = 0 /\ h.opackets = <<>> /\ h.thrown = 0 /\ h.i = 0 /\ h.ipackets = {}
  BY DEF Good, Rests, Peer, NoPeer, NewPeer
<1>2. /\ c.status = "Conn" /\ c.o = 0 /\ c.opackets = <<>> /\ c.thrown = 0 /\ c.i = 0 /\ c.ipackets = {} /\ c.r = 0
      /\ c.retries = MaxRetries /\ c.send = <<>> \o ms /\ c.starved = {}
  BY DEF DoConn, SendDirect, NewPeer
<1>3. ms[1].kind = "Conn" /\ 1 \in DOMAIN ms /\ <<>> \o ms = ms
  BY DEF ConnMsg
<1>4. b \o <<ConnMsg(h.o)>> = b \o ms
  BY <1>1
<1> HIDE DEF c, ms
<1>5. Linked(h, g, r, b \o ms)
  BY <1>1, <1>4, LinkedConn
<1>6. c.r <= g.o
  BY <1>2 DEF Peer
<1>7. Linked(c, g, r, b \o ms)
  BY <1>1, <1>2, <1>5, <1>6, LinkedLike
<1> QED
  BY <1>2, <1>3, <1>7 DEF c, Connects

(* A Check leaves alone what is not about it.                              *)
LEMMA CheckedLike ==
    ASSUME NEW h, Good(h), NEW force \in BOOLEAN, NEW c \in Check(h, force)
    PROVE  /\ c.status = h.status /\ c.retries = h.retries /\ c.starved = h.starved
           /\ c.o = h.o /\ c.opackets = h.opackets /\ c.thrown = h.thrown /\ c.i = h.i /\ c.ipackets = h.ipackets
<1>1. CASE c = h
  BY <1>1
<1>2. ASSUME NEW ask, NEW ms, NEW x, NEW t, Inquires(h, c, ask, ms, x, t)
      PROVE  /\ c.status = h.status /\ c.retries = h.retries /\ c.starved = h.starved
             /\ c.o = h.o /\ c.opackets = h.opackets /\ c.thrown = h.thrown /\ c.i = h.i /\ c.ipackets = h.ipackets
  BY <1>2 DEF Inquires, Good, Peer
<1> QED
  BY <1>1, <1>2, Checked

(* A datagram is received. *)
LEMMA LinkedRecv ==
    ASSUME NEW h, Good(h), h.send = <<>>, h.starved = {}, NEW g \in Peer, NEW r \in Seq(Datagram),
           NEW b \in Seq(Datagram), Linked(h, g, r, b), NEW m \in Datagram, Comes(m, h, g, r),
           NEW c \in OnPacket(h, m, TRUE)
    PROVE  \/ Linked(c, g, r, b \o c.send) /\ Connects(h, c, c.send, {m.kind}) /\ c.starved = {}
           \/ c.starved = {"Thrown"}
<1>1. h \in Peer /\ h.r \in Nat /\ m.nr \in Nat
  BY DEF Good, Peer, Datagram, Fragment, Question, Greeting
<1>2. CASE h.status = "None"
  <2>1. CASE m.kind = "Conn"
    <3>1. c = DoConn(NewPeer)
      BY <1>2, <2>1 DEF OnPacket
    <3> QED
      BY <1>2, <3>1, LinkedNew
  <2>2. CASE m.kind # "Conn"
    <3>1. c = h
      BY <1>2, <2>2 DEF OnPacket
    <3>2. b \o <<>> = b
      OBVIOUS
    <3> QED
      BY <1>2, <2>2, <3>1, <3>2 DEF Connects
  <2> QED
    BY <2>1, <2>2
<1>3. CASE h.status # "None"
  <2> DEFINE a == [h EXCEPT !.r = larger(@, m.nr)]
  <2>1. PICK d \in Check(a, FALSE) : c = Handle(d, m, TRUE)
    BY <1>3 DEF OnPacket, OnRecv
  <2>2. larger(h.r, m.nr) \in Nat /\ larger(h.r, m.nr) <= g.o
    BY <1>1 DEF Comes, Passes, Linked, Knows, larger
  <2>3. /\ a \in Peer /\ a.status = h.status /\ a.o = h.o /\ a.opackets = h.opackets /\ a.thrown = h.thrown /\ a.i = h.i
        /\ a.ipackets = h.ipackets /\ a.got = h.got /\ a.first = h.first /\ a.send = <<>>
        /\ a.retries = h.retries /\ a.starved = {} /\ a.r = larger(h.r, m.nr)
    BY <1>1, <2>2 DEF Peer
  <2> HIDE DEF a
  <2>4. Good(a)
    BY <1>3, <2>3, GoodLike
  <2>5. a.status = "Works" \/ (a.o = 0 /\ a.opackets = <<>>)
    BY <2>3 DEF Linked, Packed
  <2>6. Linked(a, g, r, b)
    BY <2>2, <2>3, <2>5, LinkedLike
  <2>7. b \o a.send = b
    BY <2>3
  <2>8. Linked(d, g, r, b \o d.send)
    BY <2>1, <2>4, <2>6, <2>7, LinkedCheck
  <2>9. Good(d)
    BY <1>3, <2>1, <2>3, <2>4, GoodCheck
  <2>10. /\ d.status = h.status /\ d.retries = h.retries /\ d.starved = {}
         /\ d.o = h.o /\ d.opackets = h.opackets /\ d.thrown = h.thrown /\ d.i = h.i /\ d.ipackets = h.ipackets
    BY <2>1, <2>3, <2>4, CheckedLike
  <2>11. Comes(m, d, g, r)
    <3>1. \A x : (Between(x, d) <=> Between(x, h)) /\ (KeptFrom(x, d) <=> KeptFrom(x, h))
      BY <2>10 DEF Between, KeptFrom
    <3> QED
      BY <2>10, <3>1 DEF Comes, Passes, Mark
  <2>12. d.send \in Seq(Datagram) /\ d \in Peer
    BY <2>9 DEF Good, Peer
  <2>13. b \o d.send \in Seq(Datagram)
    BY <2>12
  <2>14. CASE m.kind = "Conn"
    <3>1. m \in Greeting /\ c = HandleConn(d, m, TRUE)
      BY <2>1, <2>14 DEF Handle, Datagram, Fragment, Question
    <3>2. /\ Linked(c, g, r, b \o c.send) /\ c.status = "Works" /\ c.starved = d.starved
          /\ c.send = d.send \o <<ConnOKMsg(d.o)>>
      BY <1>3, <2>8, <2>9, <2>10, <2>11, <2>14, <3>1, LinkedGreets
    <3>3. \E k \in DOMAIN c.send : c.send[k] = ConnOKMsg(d.o)
      <4> DEFINE k == Len(d.send) + 1
      <4>1. k \in DOMAIN (d.send \o <<ConnOKMsg(d.o)>>) /\ (d.send \o <<ConnOKMsg(d.o)>>)[k] = ConnOKMsg(d.o)
        BY <2>12
      <4> QED
        BY <3>2, <4>1
    <3>4. \E k \in DOMAIN c.send : c.send[k].kind \in {"Conn", "ConnOK"}
      BY <3>3 DEF ConnOKMsg
    <3> QED
      BY <2>10, <2>14, <3>2, <3>4 DEF Connects
  <2>15. CASE m.kind = "ConnOK"
    <3>1. c = IF d.status = "Conn" THEN OnConn(d, TRUE) ELSE d
      BY <2>1, <2>15 DEF Handle, HandleConnOK
    <3>2. CASE d.status = "Conn"
      <4>1. /\ Linked(c, g, r, b \o d.send) /\ c.status = "Works" /\ c.send = d.send
            /\ c.starved = d.starved
        BY <1>3, <2>8, <2>9, <2>10, <2>13, <3>1, <3>2, LinkedOnConn
      <4> QED
        BY <2>10, <2>15, <4>1 DEF Connects
    <3>3. CASE d.status # "Conn"
      BY <1>3, <2>8, <2>10, <2>15, <3>1, <3>3 DEF Connects
    <3> QED
      BY <3>2, <3>3
  <2>16. CASE m.kind = "Data"
    <3>1. m \in Fragment /\ c = HandleData(d, m)
      BY <2>1, <2>16 DEF Handle, Datagram, Question, Greeting
    <3>2. /\ Linked(c, g, r, b \o d.send) /\ c.status = d.status /\ c.retries = d.retries
          /\ c.send = d.send /\ c.starved = d.starved
      <4>1. d.status # "None"
        BY <1>3, <2>10
      <4> QED
        BY <2>8, <2>9, <2>11, <2>13, <3>1, <4>1, LinkedData, ZenonT(60)
    <3> QED
      BY <1>3, <2>10, <2>16, <3>2 DEF Connects
  <2>17. CASE m.kind = "Check"
    <3>1. m \in Question /\ c = HandleCheck(d, m)
      BY <2>1, <2>17 DEF Handle, Datagram, Fragment, Greeting
    <3>2. \/ /\ Linked(c, g, r, b \o c.send) /\ c.status = d.status /\ c.retries = d.retries
             /\ c.starved = d.starved
          \/ c.starved = {"Thrown"}
      BY <1>3, <2>8, <2>9, <2>10, <2>11, <3>1, LinkedAnswer
    <3> QED
      BY <1>3, <2>10, <2>17, <3>2 DEF Connects
  <2>18. m.kind # "Close"
    BY DEF Comes, Passes
  <2>19. m.kind \in {"Conn", "ConnOK", "Close", "Data", "Check"}
    BY DEF Datagram, Fragment, Question, Greeting
  <2> QED
    BY <2>14, <2>15, <2>16, <2>17, <2>18, <2>19
<1> QED
  BY <1>2, <1>3

(* A side that is not connected yet has lost a datagram for each try, but  *)
(* for the last one while its answer, or another's Conn, may still come.   *)
Kinds(q, K) == \E k \in DOMAIN q : q[k].kind \in K
Waiting(h, q, b, n) ==
    h.status = "Conn" =>
        /\ MaxRetries - h.retries <= n
        /\ MaxRetries - h.retries < n \/ Kinds(b, {"Conn"}) \/ Kinds(q, {"Conn", "ConnOK"})

(* More under way. *)
LEMMA KindsMore ==
    ASSUME NEW q \in Seq(Datagram), NEW ms \in Seq(Datagram), NEW K, Kinds(q, K) \/ Kinds(ms, K)
    PROVE  Kinds(q \o ms, K)
<1> DEFINE r == q \o ms
<1>1. /\ \A k \in DOMAIN q : k \in DOMAIN r /\ r[k] = q[k]
      /\ \A k \in DOMAIN ms : k + Len(q) \in DOMAIN r /\ r[k + Len(q)] = ms[k]
  OBVIOUS
<1> HIDE DEF r
<1>2. Kinds(r, K)
  BY <1>1 DEF Kinds
<1> QED
  BY <1>2 DEF r

(* The first one has arrived. *)
LEMMA KindsTail ==
    ASSUME NEW q \in Seq(Datagram), q # <<>>, NEW K, Head(q).kind \notin K, Kinds(q, K)
    PROVE  Kinds(Tail(q), K)
<1> DEFINE r == Tail(q)
<1>1. PICK k \in DOMAIN q : q[k].kind \in K
  BY DEF Kinds
<1>2. k # 1
  BY <1>1
<1>3. k - 1 \in DOMAIN r /\ r[k - 1] = q[k]
  BY <1>1, <1>2
<1> HIDE DEF r
<1>4. Kinds(r, K)
  BY <1>1, <1>3 DEF Kinds
<1> QED
  BY <1>4 DEF r

(* Both sides can go on waiting after a step.                              *)
LEMMA WaitingOn ==
    ASSUME NEW h \in Peer, NEW g, NEW c, NEW q \in Seq(Datagram), NEW b \in Seq(Datagram), NEW n \in Nat,
           NEW ms \in Seq(Datagram), NEW r, NEW K,
           (r = q /\ K = {}) \/ (q # <<>> /\ r = Tail(q) /\ K = {Head(q).kind}),
           Connects(h, c, ms, K), Waiting(h, q, b, n), Waiting(g, b, q, n)
    PROVE  Waiting(c, r, b \o ms, n) /\ Waiting(g, b \o ms, r, n)
<1>1. MaxRetries \in Nat
  BY OptionsAssumption
<1>2. Waiting(c, r, b \o ms, n)
  <2> SUFFICES ASSUME c.status = "Conn"
               PROVE  /\ MaxRetries - c.retries <= n
                      /\ \/ MaxRetries - c.retries < n
                         \/ Kinds(b \o ms, {"Conn"}) \/ Kinds(r, {"Conn", "ConnOK"})
    BY DEF Waiting
  <2>1. CASE h.status = "Conn"
    <3>1. c.retries = h.retries /\ K \cap {"Conn", "ConnOK"} = {}
      BY <2>1 DEF Connects
    <3>2. Kinds(b, {"Conn"}) => Kinds(b \o ms, {"Conn"})
      BY KindsMore
    <3>3. Kinds(q, {"Conn", "ConnOK"}) => Kinds(r, {"Conn", "ConnOK"})
      <4>1. CASE r = q
        BY <4>1
      <4>2. CASE q # <<>> /\ r = Tail(q) /\ K = {Head(q).kind}
        <5>1. Head(q).kind \notin {"Conn", "ConnOK"}
          BY <3>1, <4>2
        <5> QED
          BY <4>2, <5>1, KindsTail
      <4> QED
        BY <4>1, <4>2
    <3> QED
      BY <2>1, <3>1, <3>2, <3>3 DEF Waiting
  <2>2. CASE h.status # "Conn"
    <3>1. c.retries = MaxRetries /\ Kinds(ms, {"Conn"})
      BY <2>2 DEF Connects, Kinds
    <3>2. Kinds(b \o ms, {"Conn"})
      BY <3>1, KindsMore
    <3> QED
      BY <1>1, <3>1, <3>2
  <2> QED
    BY <2>1, <2>2
<1>3. Waiting(g, b \o ms, r, n)
  <2> SUFFICES ASSUME Kinds(q, {"Conn"}) \/ Kinds(b, {"Conn", "ConnOK"})
               PROVE  Kinds(r, {"Conn"}) \/ Kinds(b \o ms, {"Conn", "ConnOK"})
    BY DEF Waiting
  <2>1. CASE Kinds(b, {"Conn", "ConnOK"})
    BY <2>1, KindsMore
  <2>2. CASE Kinds(q, {"Conn"}) /\ r = q
    BY <2>2
  <2>3. CASE Kinds(q, {"Conn"}) /\ q # <<>> /\ r = Tail(q) /\ K = {Head(q).kind}
    <3>1. CASE Head(q).kind = "Conn"
      <4>1. Kinds(ms, {"Conn", "ConnOK"})
        BY <2>3, <3>1 DEF Connects, Kinds
      <4> QED
        BY <4>1, KindsMore
    <3>2. CASE Head(q).kind # "Conn"
      BY <2>3, <3>2, KindsTail
    <3> QED
      BY <3>1, <3>2
  <2> QED
    BY <2>1, <2>2, <2>3
<1> QED
  BY <1>2, <1>3

(* The inductive invariant of a network that only loses datagrams: the     *)
(* peers are linked, wait for each other as long as they have tries left,  *)
(* and a side has had one peer.                                            *)
Steady ==
    /\ starved = {}
    /\ \A s \in Sides :
          /\ Linked(peer[s], peer[Other(s)], net[s], net[Other(s)])
          /\ Waiting(peer[s], net[s], net[Other(s)], faults)
          /\ lives[s] = IF peer[s].status = "None" THEN 0 ELSE 1

(* It does not matter which of the two is the first.                       *)
LEMMA LinkedBoth ==
    ASSUME NEW h, NEW g, NEW q, NEW b, Linked(h, g, q, b)
    PROVE  Linked(g, h, b, q)
BY DEF Linked

(* At first nothing is under way. *)
LEMMA InitSteady == Init => Steady
<1> SUFFICES ASSUME Init, NEW s \in Sides
             PROVE  /\ Linked(peer[s], peer[Other(s)], net[s], net[Other(s)])
                    /\ Waiting(peer[s], net[s], net[Other(s)], faults)
                    /\ lives[s] = IF peer[s].status = "None" THEN 0 ELSE 1
  BY DEF Init, Steady
<1>1. /\ peer[s] = NoPeer /\ peer[Other(s)] = NoPeer /\ net[s] = <<>> /\ net[Other(s)] = <<>>
      /\ lives[s] = 0
  BY TwoComputers DEF Init
<1>2. /\ NoPeer.status = "None" /\ NoPeer.o = 0 /\ NoPeer.opackets = <<>> /\ NoPeer.i = 0 /\ NoPeer.r = 0
      /\ NoPeer.ipackets = {}
  BY DEF NoPeer, NewPeer
<1>3. Linked(NoPeer, NoPeer, <<>>, <<>>)
  <2>1. Packed(NoPeer)
    BY <1>2 DEF Packed
  <2>2. Knows(NoPeer, NoPeer)
    BY <1>2 DEF Knows, Mark, Between, KeptFrom
  <2>3. Way(<<>>, NoPeer, NoPeer)
    BY DEF Way
  <2> QED
    BY <2>1, <2>2, <2>3 DEF Linked
<1> QED
  BY <1>1, <1>2, <1>3 DEF Waiting

(* A step of a side goes on so. *)
LEMMA BecomesSteady ==
    ASSUME Sound, Steady, NEW s \in Sides, NEW H, NEW q \in Seq(Datagram), Becomes(s, H, q), faults' = faults,
           \A c \in H : LET t == Other(s) IN
              Good(c) /\ (c.starved = {"Thrown"} \/
              /\ c.starved = {} /\ (peer[s].status # "None" => c.status # "None")
              /\ Linked(c, peer[t], q, net[t] \o c.send)
              /\ Waiting(c, q, net[t] \o c.send, faults)
              /\ Waiting(peer[t], net[t] \o c.send, q, faults))
    PROVE  Steady' \/ "Thrown" \in starved'
<1> DEFINE t == Other(s)
           h == peer[s]
<1>20. PICK c \in H : Turned(s, c, q)
  <2>1. \A c \in H : Good(c)
    OBVIOUS
  <2> QED
    BY <2>1, BecomesParts
<1>1. /\ peer'[s] = [c EXCEPT !.send = <<>>, !.starved = {}]
      /\ peer'[t] = peer[t]
      /\ net'[s] = q /\ net'[t] = net[t] \o c.send
      /\ lives'[s] = IF h.status = "None" /\ c.status # "None" THEN lives[s] + 1 ELSE lives[s]
      /\ lives'[t] = lives[t]
      /\ starved' = starved \cup c.starved
      /\ allowed' = allowed
  BY <1>20 DEF Turned
<1>14. SUFFICES ASSUME c.starved # {"Thrown"} PROVE Steady'
  BY <1>1
<1>2. t \in Sides /\ t # s /\ Other(t) = s /\ \A u \in Sides : u = s \/ u = t
  BY BothSides
<1>3. /\ Good(c) /\ c.starved = {} /\ (h.status # "None" => c.status # "None") /\ c \in Peer
      /\ Linked(c, peer[t], q, net[t] \o c.send)
      /\ Waiting(c, q, net[t] \o c.send, faults)
      /\ Waiting(peer[t], net[t] \o c.send, q, faults)
  BY <1>14 DEF Good
<1>4. /\ starved = {}
      /\ lives[s] = IF h.status = "None" THEN 0 ELSE 1
      /\ lives[t] = IF peer[t].status = "None" THEN 0 ELSE 1
  BY <1>2 DEF Steady
<1> DEFINE d == [c EXCEPT !.send = <<>>, !.starved = {}]
<1>5. /\ d.status = c.status /\ d.opackets = c.opackets /\ d.thrown = c.thrown /\ d.o = c.o /\ d.ipackets = c.ipackets
      /\ d.i = c.i /\ d.r = c.r /\ d.retries = c.retries
  BY <1>3 DEF Peer
<1>6. peer'[s] = d
  BY <1>1
<1> HIDE DEF d, t, h
<1>7. d.r <= peer[t].o /\ (d.status = "Works" \/ (d.o = 0 /\ d.opackets = <<>>))
  BY <1>3, <1>5 DEF Linked, Knows, Packed
<1>8. Linked(d, peer[t], q, net[t] \o c.send)
  BY <1>3, <1>5, <1>7, LinkedLike
<1>9. Waiting(d, q, net[t] \o c.send, faults)
  BY <1>3, <1>5 DEF Waiting
<1>10. starved' = {}
  BY <1>1, <1>3, <1>4
<1>11. lives'[s] = IF d.status = "None" THEN 0 ELSE 1
  BY <1>1, <1>3, <1>4, <1>5
<1>12. /\ Linked(peer'[s], peer'[t], net'[s], net'[t])
       /\ Waiting(peer'[s], net'[s], net'[t], faults')
       /\ lives'[s] = IF peer'[s].status = "None" THEN 0 ELSE 1
  BY <1>1, <1>6, <1>8, <1>9, <1>11
<1>13. /\ Linked(peer'[t], peer'[s], net'[t], net'[s])
       /\ Waiting(peer'[t], net'[t], net'[s], faults')
       /\ lives'[t] = IF peer'[t].status = "None" THEN 0 ELSE 1
  BY <1>1, <1>3, <1>4, <1>12, LinkedBoth
<1> QED
  BY <1>2, <1>10, <1>12, <1>13 DEF Steady, t

(* Where nothing but losing happens, and there are tries enough for it.    *)
Calm == LossyOnly /\ Networks[allowed] <= MaxRetries

(* A side receives. *)
LEMMA ReceiveSteady ==
    ASSUME Sound, Steady, Calm, NEW s \in Sides, Receive(s)
    PROVE  Steady' \/ "Thrown" \in starved'
<1> DEFINE t == Other(s)
           h == peer[s]
           g == peer[t]
           b == net[t]
           m == Head(net[s])
           q == Tail(net[s])
<1>1. t \in Sides /\ Other(t) = s
  BY BothSides
<1>2. /\ Good(h) /\ h \in Peer /\ g \in Peer /\ h.send = <<>> /\ h.starved = {}
      /\ net[s] \in Seq(Datagram) /\ b \in Seq(Datagram) /\ faults \in Nat
  <2>1. faults \in 0 .. Networks[allowed]
    BY DEF Sound
  <2>2. faults \in Nat
    BY <2>1
  <2> QED
    BY <1>1, <2>2 DEF Sound
<1>3. net[s] # <<>> /\ Deliver(s, m, q) /\ faults' = faults
  BY DEF Receive
<1>4. m \in Datagram /\ q \in Seq(Datagram)
  BY <1>2, <1>3
<1>5. Becomes(s, OnPacket(h, m, TRUE), q)
  <2>1. "Refuse" \notin allowed
    BY DEF Calm, LossyOnly
  <2> QED
    BY <1>3, <2>1 DEF Deliver
<1>6. Linked(h, g, net[s], b) /\ Waiting(h, net[s], b, faults) /\ Waiting(g, b, net[s], faults)
  BY <1>1 DEF Steady
<1>7. Linked(h, g, q, b) /\ Comes(m, h, g, q)
  BY <1>2, <1>3, <1>6, LinkedHead
<1> HIDE DEF h, g, b
<1>8. ASSUME NEW c \in OnPacket(h, m, TRUE)
      PROVE  Good(c) /\ (c.starved = {"Thrown"} \/
             /\ c.starved = {} /\ (h.status # "None" => c.status # "None")
             /\ Linked(c, g, q, b \o c.send)
             /\ Waiting(c, q, b \o c.send, faults)
             /\ Waiting(g, b \o c.send, q, faults))
  <2>1. Good(c)
    BY <1>2, <1>4, GoodRecv
  <2>2. c.send \in Seq(Datagram)
    BY <2>1 DEF Good, Peer
  <2> HIDE DEF q, m
  <2>5. SUFFICES ASSUME c.starved # {"Thrown"}
                 PROVE  /\ c.starved = {} /\ (h.status # "None" => c.status # "None")
                        /\ Linked(c, g, q, b \o c.send)
                        /\ Waiting(c, q, b \o c.send, faults)
                        /\ Waiting(g, b \o c.send, q, faults)
    BY <2>1
  <2>3. Linked(c, g, q, b \o c.send) /\ Connects(h, c, c.send, {m.kind}) /\ c.starved = {}
    BY <1>2, <1>4, <1>7, <2>5, LinkedRecv
  <2>4. Waiting(c, q, b \o c.send, faults) /\ Waiting(g, b \o c.send, q, faults)
    <3>1. net[s] # <<>> /\ q = Tail(net[s]) /\ {m.kind} = {Head(net[s]).kind}
      BY <1>3 DEF q, m
    <3> QED
      BY <1>2, <1>6, <2>2, <2>3, <3>1, WaitingOn
  <2> QED
    BY <2>1, <2>3, <2>4 DEF Connects
<1> HIDE DEF q, m
<1> QED
  BY <1>3, <1>4, <1>5, <1>8, BecomesSteady DEF h, g, b, t

(* A datagram is lost. *)
LEMMA LoseSteady ==
    ASSUME Sound, Steady, NEW s \in Sides, Lose(s)
    PROVE  Steady'
<1> DEFINE t == Other(s)
<1>1. t \in Sides /\ t # s /\ Other(t) = s /\ \A u \in Sides : u = s \/ u = t
  BY BothSides
<1>2. /\ net \in [Sides -> Seq(Datagram)] /\ faults \in Nat
      /\ peer \in [Sides -> Peer]
  <2>1. faults \in 0 .. Networks[allowed]
    BY DEF Sound
  <2>2. faults \in Nat
    BY <2>1
  <2> QED
    BY <2>2 DEF Sound
<1>3. PICK k \in DOMAIN net[s] : net' = [net EXCEPT ![s] = RemoveAt(net[s], k)]
  BY DEF Lose
<1>4. /\ faults' = faults + 1 /\ UNCHANGED <<peer, lives, starved, allowed>>
  BY DEF Lose, Fault
<1> DEFINE r == RemoveAt(net[s], k)
<1>5. /\ r \in Seq(Datagram) /\ Len(r) = Len(net[s]) - 1
      /\ \A i \in 1 .. k - 1 : r[i] = net[s][i]
      /\ \A i \in k .. Len(net[s]) - 1 : r[i] = net[s][i + 1]
  <2>1. net[s] \in Seq(Datagram)
    BY <1>2
  <2> QED
    BY <2>1, RemovedAt
<1> HIDE DEF r, t
<1>6. net'[s] = r /\ net'[t] = net[t]
  BY <1>1, <1>2, <1>3 DEF r
<1>7. Linked(peer[s], peer[t], net[s], net[t])
  BY DEF Steady, t
<1>8. Linked(peer[s], peer[t], r, net[t])
  <2>1. net[s] \in Seq(Datagram)
    BY <1>2
  <2> QED
    BY <1>5, <1>7, <2>1, LinkedDrop
<1>9. ASSUME NEW u \in Sides PROVE Waiting(peer[u], net'[u], net'[Other(u)], faults')
  <2>1. peer[u].status = "Conn" => MaxRetries - peer[u].retries <= faults
    BY DEF Steady, Waiting
  <2>2. peer[u].retries \in Nat /\ MaxRetries \in Nat
    <3>1. peer[u].retries \in 0 .. MaxRetries
      BY <1>2 DEF Peer
    <3> QED
      BY <3>1, OptionsAssumption
  <2>3. peer[u].status = "Conn" =>
           MaxRetries - peer[u].retries <= faults' /\ MaxRetries - peer[u].retries < faults'
    BY <1>2, <1>4, <2>1, <2>2
  <2> QED
    BY <2>3 DEF Waiting
<1>10. \A u \in Sides : Linked(peer[u], peer[Other(u)], net'[u], net'[Other(u)])
  <2>1. Linked(peer[t], peer[s], net[t], r)
    BY <1>8, LinkedBoth
  <2> QED
    BY <1>1, <1>6, <1>8, <2>1 DEF t
<1> QED
  BY <1>4, <1>9, <1>10 DEF Steady

(* A side sends. *)
LEMMA SendSteady ==
    ASSUME Sound, Steady, NEW s \in Sides, Send(s)
    PROVE  Steady' \/ "Thrown" \in starved'
<1> DEFINE t == Other(s)
           h == peer[s]
           g == peer[t]
           b == net[t]
<1>1. t \in Sides /\ Other(t) = s
  BY BothSides
<1>2. /\ Good(h) /\ h \in Peer /\ g \in Peer /\ h.send = <<>> /\ h.starved = {}
      /\ net[s] \in Seq(Datagram) /\ b \in Seq(Datagram) /\ faults \in Nat
  <2>1. faults \in 0 .. Networks[allowed]
    BY DEF Sound
  <2>2. faults \in Nat
    BY <2>1
  <2> QED
    BY <1>1, <2>2 DEF Sound, Good
<1>3. Linked(h, g, net[s], b) /\ Waiting(h, net[s], b, faults) /\ Waiting(g, b, net[s], faults)
  BY <1>1 DEF Steady
<1>4. PICK n \in Sizes :
         /\ h.status = "Works" /\ h.o + n <= MaxO[s] /\ n \in Nat /\ n > 0
         /\ Outgoing(s, n) \in OPacket /\ Fragments(Outgoing(s, n)) \in Seq(Datagram)
         /\ Kept(h.opackets, Outgoing(s, n)) \in Seq(OPacket)
         /\ Good(Sent(s, n)) /\ Becomes(s, {Sent(s, n)}, net[s])
  BY SendParts
<1> DEFINE p == Outgoing(s, n)
           ms == Fragments(p)
           K == Kept(h.opackets, p)
           T == ThrownAway(h, p)
           c == Sent(s, n)
<1>5. p.nr = h.o /\ p.cnt = n
  BY DEF Outgoing
<1>6. c = [h EXCEPT !.o = h.o + n, !.opackets = K, !.thrown = T, !.send = ms]
  BY DEF Sent
<1>7. Good(c) /\ p \in OPacket /\ ms \in Seq(Datagram) /\ faults' = faults
  BY <1>4 DEF Send
<1> HIDE DEF h, g, b, p, ms, K, T, c
<1>8. /\ c.o = h.o + p.cnt /\ c.opackets = Kept(h.opackets, p) /\ c.thrown = ThrownAway(h, p) /\ c.send = ms /\ c.r = h.r /\ c.i = h.i
      /\ c.ipackets = h.ipackets /\ c.status = h.status /\ c.starved = h.starved /\ c.retries = h.retries
  BY <1>2, <1>5, <1>6 DEF Peer, K, T
<1>10. Linked(c, g, net[s], b \o ms)
  BY <1>2, <1>3, <1>4, <1>5, <1>7, <1>8, LinkedSends DEF ms
<1>11. Connects(h, c, ms, {})
  BY <1>4, <1>8 DEF Connects
<1>12. Waiting(c, net[s], b \o ms, faults) /\ Waiting(g, b \o ms, net[s], faults)
  BY <1>2, <1>3, <1>7, <1>11, WaitingOn
<1>13. \A x \in {c} :
          /\ Good(x) /\ x.starved = {} /\ (h.status # "None" => x.status # "None")
          /\ Linked(x, g, net[s], b \o x.send)
          /\ Waiting(x, net[s], b \o x.send, faults)
          /\ Waiting(g, b \o x.send, net[s], faults)
  BY <1>2, <1>7, <1>8, <1>10, <1>12
<1>14. Becomes(s, {c}, net[s])
  BY <1>4 DEF c
<1> QED
  BY <1>2, <1>7, <1>13, <1>14, BecomesSteady DEF h, g, b, t

(* A side does something else of its own. *)
LEMMA OwnSteady ==
    ASSUME Sound, Steady, Calm, NEW s \in Sides,
           Connect(s) \/ DoCheck(s) \/ ReCheckDue(s) \/ OnTimeout(s)
    PROVE  Steady' \/ "Thrown" \in starved'
<1> DEFINE t == Other(s)
           h == peer[s]
           g == peer[t]
           b == net[t]
<1>1. t \in Sides /\ Other(t) = s
  BY BothSides
<1>2. /\ Good(h) /\ h \in Peer /\ g \in Peer /\ h.send = <<>> /\ h.starved = {}
      /\ net[s] \in Seq(Datagram) /\ b \in Seq(Datagram) /\ faults \in Nat
  <2>1. faults \in 0 .. Networks[allowed]
    BY DEF Sound
  <2>2. faults \in Nat
    BY <2>1
  <2> QED
    BY <1>1, <2>2 DEF Sound, Good
<1>3. Linked(h, g, net[s], b) /\ Waiting(h, net[s], b, faults) /\ Waiting(g, b, net[s], faults)
  BY <1>1 DEF Steady
<1>4. faults' = faults
  BY DEF Connect, DoCheck, ReCheckDue, OnTimeout
<1> DEFINE Fine(c) ==
              /\ Good(c) /\ c.starved = {} /\ (h.status # "None" => c.status # "None")
              /\ Linked(c, g, net[s], b \o c.send)
              /\ Waiting(c, net[s], b \o c.send, faults)
              /\ Waiting(g, b \o c.send, net[s], faults)
<1>5. ASSUME NEW H, Becomes(s, H, net[s]), \A c \in H : Fine(c) PROVE Steady' \/ "Thrown" \in starved'
  <2>1. net[s] \in Seq(Datagram)
    BY <1>2
  <2> QED
    BY <1>4, <1>5, <2>1, BecomesSteady
<1> HIDE DEF h, g, b
<1>6. ASSUME NEW c, Good(c), c.starved = {}, Linked(c, g, net[s], b \o c.send), Connects(h, c, c.send, {})
      PROVE  Fine(c)
  <2>1. c.send \in Seq(Datagram)
    BY <1>6 DEF Good, Peer
  <2>2. Waiting(c, net[s], b \o c.send, faults) /\ Waiting(g, b \o c.send, net[s], faults)
    BY <1>2, <1>3, <1>6, <2>1, WaitingOn
  <2> QED
    BY <1>6, <2>2 DEF Connects
<1> HIDE DEF Fine
<1>7. CASE Connect(s)
  <2>1. h.status = "None" /\ Becomes(s, {DoConn(NewPeer)}, net[s])
    BY <1>7 DEF Connect, h
  <2>2. Good(DoConn(NewPeer))
    <3>1. NewPeer.status # "None" /\ NewPeer.got = <<>>
      BY DEF NewPeer
    <3> QED
      BY <3>1, GoodNew, GoodDoConn
  <2>3. /\ Linked(DoConn(NewPeer), g, net[s], b \o DoConn(NewPeer).send)
        /\ Connects(h, DoConn(NewPeer), DoConn(NewPeer).send, {}) /\ DoConn(NewPeer).starved = {}
    BY <1>2, <1>3, <2>1, LinkedNew
  <2> QED
    BY <1>5, <1>6, <2>1, <2>2, <2>3
<1>8. CASE DoCheck(s)
  <2>1. h.status = "Works" /\ Becomes(s, Check(h, TRUE), net[s])
    BY <1>8 DEF DoCheck, h
  <2>2. b \o h.send = b
    BY <1>2
  <2>3. ASSUME NEW c \in Check(h, TRUE) PROVE Fine(c)
    <3>1. Good(c)
      BY <1>2, <2>1, GoodCheck
    <3>2. c.status = h.status /\ c.retries = h.retries /\ c.starved = h.starved
      BY <1>2, CheckedLike
    <3>3. Linked(c, g, net[s], b \o c.send)
      BY <1>2, <1>3, <2>2, LinkedCheck
    <3>4. Connects(h, c, c.send, {})
      BY <2>1, <3>2 DEF Connects
    <3> QED
      BY <1>2, <1>6, <3>1, <3>2, <3>3, <3>4
  <2> QED
    BY <1>5, <2>1, <2>3
<1>9. CASE ReCheckDue(s)
  <2> DEFINE c == [h EXCEPT !.timer = FALSE]
  <2>1. /\ c \in Peer /\ c.status = h.status /\ c.o = h.o /\ c.opackets = h.opackets /\ c.thrown = h.thrown /\ c.send = h.send
        /\ c.i = h.i /\ c.ipackets = h.ipackets /\ c.got = h.got /\ c.first = h.first /\ c.r = h.r
        /\ c.retries = h.retries /\ c.starved = h.starved
    BY <1>2 DEF Peer
  <2>2. h.timer /\ Becomes(s, {c}, net[s])
    BY <1>9 DEF ReCheckDue, h
  <2>3. h.status # "None"
    BY <1>2, <2>2, TimerPeer
  <2> HIDE DEF c
  <2>4. Good(c)
    BY <1>2, <2>1, <2>3, GoodLike
  <2>5. c.r <= g.o /\ (c.status = "Works" \/ (c.o = 0 /\ c.opackets = <<>>))
    BY <1>3, <2>1 DEF Linked, Knows, Packed
  <2>6. b \o c.send = b
    BY <1>2, <2>1
  <2>7. Linked(c, g, net[s], b)
    BY <1>3, <2>1, <2>5, LinkedLike
  <2>8. Connects(h, c, c.send, {})
    BY <2>1 DEF Connects
  <2>9. Linked(c, g, net[s], b \o c.send) /\ c.starved = {}
    BY <1>2, <2>1, <2>6, <2>7
  <2>10. Fine(c)
    BY <1>6, <2>4, <2>8, <2>9
  <2>11. \A x \in {c} : Fine(x)
    BY <2>10
  <2> HIDE DEF Fine
  <2> QED
    BY <1>5, <2>2, <2>11
<1>10. CASE OnTimeout(s)
  <2>1. h.status = "Conn" /\ \A u \in Sides : ~UnderWay(u, {"Conn", "ConnOK"})
    BY <1>10 DEF OnTimeout, Calm, LossyOnly, h
  <2>2. ~Kinds(b, {"Conn"}) /\ ~Kinds(net[s], {"Conn", "ConnOK"})
    BY <1>1, <2>1 DEF UnderWay, Kinds, b
  <2>3. MaxRetries - h.retries < faults
    BY <1>3, <2>1, <2>2 DEF Waiting
  <2>4. /\ h.retries \in Nat /\ MaxRetries \in Nat /\ faults <= MaxRetries
    <3>1. h.retries \in 0 .. MaxRetries
      BY <1>2 DEF Peer
    <3>2. faults \in 0 .. Networks[allowed] /\ Networks[allowed] \in Nat
      BY NetworksAssumption DEF Sound
    <3> QED
      BY <3>1, <3>2, OptionsAssumption DEF Calm
  <2>5. h.retries > 0
    BY <1>2, <2>3, <2>4
  <2> DEFINE c == [DoConn(h) EXCEPT !.retries = h.retries - 1]
             ms == <<ConnMsg(h.o)>>
  <2>6. Becomes(s, {c}, net[s])
    BY <1>10, <2>5 DEF OnTimeout, h
  <2>7. Good(c) /\ c = [h EXCEPT !.retries = h.retries - 1, !.send = h.send \o ms]
    BY <1>2, <2>1, <2>5, RetryPeer
  <2>8. h.send \o ms = ms /\ ms[1] = ConnMsg(h.o) /\ 1 \in DOMAIN ms
    BY <1>2
  <2>9. ms \in Seq(Datagram)
    <3>1. ConnMsg(h.o) \in Datagram
      BY <1>2 DEF ConnMsg, Datagram, Greeting, Peer
    <3> QED
      BY <3>1
  <2>10. h.o = 0
    BY <1>3, <2>1 DEF Linked, Packed
  <2>11. Linked(h, g, net[s], b \o ms)
    BY <1>2, <1>3, <2>10, LinkedConn
  <2> HIDE DEF c, ms
  <2>12. /\ c.status = h.status /\ c.o = h.o /\ c.opackets = h.opackets /\ c.thrown = h.thrown /\ c.send = ms
         /\ c.i = h.i /\ c.ipackets = h.ipackets /\ c.r = h.r
         /\ c.retries = h.retries - 1 /\ c.starved = h.starved
    BY <1>2, <2>7, <2>8 DEF Peer
  <2>13. c.r <= g.o /\ (c.status = "Works" \/ (c.o = 0 /\ c.opackets = <<>>))
    BY <2>11, <2>12 DEF Linked, Knows, Packed
  <2>14. Linked(c, g, net[s], b \o ms)
    BY <2>11, <2>12, <2>13, LinkedLike
  <2>15. Kinds(ms, {"Conn"}) /\ Kinds(ms, {"Conn", "ConnOK"})
    BY <2>8 DEF Kinds, ConnMsg
  <2>16. Kinds(b \o ms, {"Conn"}) /\ Kinds(b \o ms, {"Conn", "ConnOK"})
    BY <1>2, <2>9, <2>15, KindsMore
  <2>17. Waiting(c, net[s], b \o ms, faults)
    <3>1. MaxRetries - c.retries <= faults
      BY <1>2, <2>3, <2>4, <2>12
    <3> QED
      BY <2>16, <3>1 DEF Waiting
  <2>18. Waiting(g, b \o ms, net[s], faults)
    BY <1>3, <2>16 DEF Waiting
  <2>19. Fine(c)
    BY <1>2, <2>1, <2>7, <2>12, <2>14, <2>17, <2>18 DEF Fine
  <2> QED
    BY <1>5, <2>6, <2>19
<1> QED
  BY <1>7, <1>8, <1>9, <1>10

(* Every step of a network that only loses datagrams goes on so.           *)
LEMMA NextSteady ==
    ASSUME Sound, Steady, Calm, [Next]_vars
    PROVE  Steady' \/ "Thrown" \in starved'
<1>1. CASE UNCHANGED vars
  BY <1>1 DEF Steady, vars
<1>2. ASSUME NEW s \in Sides, Step(s) PROVE Steady' \/ "Thrown" \in starved'
  <2>1. ~Duplicate(s) /\ ~Overtake(s) /\ ~Restart(s) /\ ~CloseAddr(s)
    BY DEF Calm, LossyOnly, Duplicate, Overtake, Restart, CloseAddr, Fault
  <2>2. CASE Receive(s)
    BY <2>2, ReceiveSteady
  <2>3. CASE Send(s)
    BY <2>3, SendSteady
  <2>4. CASE Connect(s) \/ DoCheck(s) \/ ReCheckDue(s) \/ OnTimeout(s)
    BY <2>4, OwnSteady
  <2>5. CASE Lose(s)
    BY <2>5, LoseSteady
  <2> QED
    BY <1>2, <2>1, <2>2, <2>3, <2>4, <2>5 DEF Step
<1> QED
  BY <1>1, <1>2 DEF Next

-----------------------------------------------------------------------------
(* The properties *)

(* A side creates a peer only where it may, and the network stays what it  *)
(* is.                                                                     *)
LEMMA NextLives ==
    ASSUME Sound, [Next]_vars
    PROVE  /\ allowed' = allowed
           /\ \A u \in Sides : lives'[u] = lives[u] \/ (lives'[u] = lives[u] + 1 /\ MayCreate(u))
<1> DEFINE Creates == /\ allowed' = allowed
                      /\ \A u \in Sides : \/ lives'[u] = lives[u]
                                          \/ lives'[u] = lives[u] + 1 /\ MayCreate(u)
<1>1. CASE UNCHANGED vars
  BY <1>1 DEF vars
<1>2. ASSUME NEW s \in Sides, Step(s) PROVE Creates
  <2>1. lives \in [Sides -> Nat] /\ Good(peer[s])
    BY DEF Sound
  <2>2. ASSUME NEW H, NEW q, Becomes(s, H, q),
               peer[s].status = "None" => MayCreate(s) \/ \A c \in H : c.status = "None"
        PROVE  Creates
    <3>1. PICK c \in H :
             /\ allowed' = allowed
             /\ lives' = IF peer[s].status = "None" /\ c.status # "None"
                         THEN [lives EXCEPT ![s] = @ + 1] ELSE lives
      BY <2>2 DEF Becomes
    <3>2. CASE peer[s].status = "None" /\ c.status # "None"
      <4>1. lives' = [lives EXCEPT ![s] = @ + 1] /\ MayCreate(s)
        BY <2>2, <3>1, <3>2
      <4>2. \A u \in Sides : lives'[u] = IF u = s THEN lives[u] + 1 ELSE lives[u]
        BY <2>1, <4>1
      <4> QED
        BY <3>1, <4>1, <4>2
    <3>3. CASE ~(peer[s].status = "None" /\ c.status # "None")
      BY <3>1, <3>3
    <3> QED
      BY <3>2, <3>3
  <2> HIDE DEF Creates
  <2>3. ASSUME NEW m, NEW q, Deliver(s, m, q) PROVE Creates
    <3>1. PICK accept \in BOOLEAN : Becomes(s, OnPacket(peer[s], m, accept), q)
      BY <2>3 DEF Deliver
    <3>2. peer[s].status = "None" =>
             MayCreate(s) \/ \A c \in OnPacket(peer[s], m, accept) : c.status = "None"
      BY <2>3 DEF Deliver, OnPacket
    <3> QED
      BY <2>2, <3>1, <3>2
  <2>4. CASE Receive(s) \/ Duplicate(s) \/ Overtake(s)
    BY <2>3, <2>4 DEF Receive, Duplicate, Overtake
  <2>5. CASE Connect(s)
    BY <2>2, <2>5 DEF Connect
  <2>6. CASE Send(s)
    <3>1. peer[s].status # "None" /\ \E H : Becomes(s, H, net[s])
      BY <2>6 DEF Send
    <3> QED
      BY <2>2, <3>1
  <2>7. CASE DoCheck(s)
    <3>1. peer[s].status # "None" /\ \E H : Becomes(s, H, net[s])
      BY <2>7 DEF DoCheck
    <3> QED
      BY <2>2, <3>1
  <2>8. CASE ReCheckDue(s)
    <3>1. peer[s].status # "None" /\ \E H : Becomes(s, H, net[s])
      BY <2>1, <2>8, TimerPeer DEF ReCheckDue
    <3> QED
      BY <2>2, <3>1
  <2>9. CASE OnTimeout(s)
    <3>1. peer[s].status # "None" /\ \E H : Becomes(s, H, net[s])
      BY <2>9 DEF OnTimeout
    <3> QED
      BY <2>2, <3>1
  <2>10. CASE Restart(s)
    <3>1. peer[s].status # "None" /\ \E H : Becomes(s, H, net[s])
      BY <2>10 DEF Restart
    <3> QED
      BY <2>2, <3>1
  <2>11. CASE Lose(s)
    BY <2>11 DEF Lose, Creates
  <2>12. CASE CloseAddr(s)
    <3>1. peer[s].status # "None" /\ \E H : Becomes(s, H, net[s])
      BY <2>12 DEF CloseAddr
    <3> QED
      BY <2>2, <3>1
  <2> QED
    BY <1>2, <2>4, <2>5, <2>6, <2>7, <2>8, <2>9, <2>10, <2>11, <2>12 DEF Step
<1> QED
  BY <1>1, <1>2 DEF Next

(* What a connection was closed for is not forgotten.                      *)
LEMMA NextStarved ==
    ASSUME Sound, [Next]_vars
    PROVE  starved \subseteq starved'
<1>1. CASE UNCHANGED vars
  BY <1>1 DEF vars
<1>2. ASSUME NEW s \in Sides, Step(s) PROVE starved \subseteq starved'
  <2>1. ASSUME NEW H, NEW q, Becomes(s, H, q) PROVE starved \subseteq starved'
    BY <2>1 DEF Becomes
  <2>2. Lose(s) \/ \E H, q : Becomes(s, H, q)
    BY <1>2 DEF Step, Receive, Duplicate, Overtake, Deliver, Connect, CloseAddr, Send, DoCheck,
                ReCheckDue, OnTimeout, Restart
  <2> QED
    BY <2>1, <2>2 DEF Lose
<1> QED
  BY <1>1, <1>2 DEF Next

(* Where a side may not connect again, it has one peer at most.            *)
Once == "Reconnect" \notin allowed => \A s \in Sides : lives[s] <= 1

(* The inductive invariant: what is received is of one connection, for     *)
(* each of the three reasons there are; the third one holds until a list   *)
(* of sent packets has run over and a connection is closed for it.         *)
Connected ==
    /\ Sound /\ Tagged /\ Once
    /\ Sequential => Trail
    /\ Calm => Steady \/ "Thrown" \in starved

(* At first nothing was received. *)
LEMMA InitConnected == Init => Connected
<1> SUFFICES ASSUME Init PROVE Connected
  OBVIOUS
<1>1. Sound /\ Steady
  BY InitSound, InitSteady
<1>2. \A s \in Sides : peer[s] = NoPeer /\ net[s] = <<>> /\ lives[s] = 0
  BY DEF Init
<1>3. /\ NoPeer.status = "None" /\ NoPeer.opackets = <<>> /\ NoPeer.got = <<>> /\ NoPeer.send = <<>>
      /\ NoPeer.ipackets = {}
  BY DEF NoPeer, NewPeer
<1>4. LivesOf(NoPeer) = {} /\ \A l : Marked(NoPeer, l)
  <2>1. DOMAIN NoPeer.opackets = {} /\ DOMAIN NoPeer.got = {} /\ DOMAIN NoPeer.send = {}
    BY <1>3
  <2> QED
    BY <1>3, <2>1, NoLives DEF Marked
<1>5. \A l : Carries(<<>>, l)
  BY DEF Carries
<1>6. Tagged
  BY <1>2, <1>3, <1>4, <1>5 DEF Tagged
<1>7. Once
  BY <1>2 DEF Once
<1>8. Trail
  <2>1. Parted({}, <<>>, {})
    BY DEF Parted, Holds
  <2>2. \A s \in Sides : Says(Other(s)) = {}
    BY <1>2, <1>3, TwoComputers DEF Says
  <2> QED
    BY <1>2, <1>4, <2>1, <2>2 DEF Trail
<1> QED
  BY <1>1, <1>6, <1>7, <1>8 DEF Connected

(* Every step keeps the invariant. *)
LEMMA NextConnected == Connected /\ [Next]_vars => Connected'
<1> SUFFICES ASSUME Connected, [Next]_vars PROVE Connected'
  OBVIOUS
<1>1. Sound' /\ Tagged'
  BY NextSound, NextTagged DEF Connected
<1>2. /\ allowed' = allowed
      /\ \A u \in Sides : lives'[u] = lives[u] \/ (lives'[u] = lives[u] + 1 /\ MayCreate(u))
  BY NextLives DEF Connected
<1>3. Once'
  <2>1. \A u \in Sides : lives[u] \in Nat
    BY DEF Connected, Sound
  <2>2. "Reconnect" \notin allowed => \A u \in Sides : lives[u] <= 1 /\ (MayCreate(u) => lives[u] < 1)
    BY DEF Connected, Once, MayCreate
  <2>3. \A n \in Nat : n < 1 => n + 1 <= 1
    OBVIOUS
  <2> QED
    BY <1>2, <2>1, <2>2, <2>3 DEF Once
<1>4. Sequential' => Trail'
  BY <1>2, NextTrail DEF Connected, Sequential
<1>5. Calm' => Steady' \/ "Thrown" \in starved'
  <2>1. Calm' => Calm
    BY <1>2 DEF Calm, LossyOnly
  <2>2. starved \subseteq starved'
    BY NextStarved DEF Connected
  <2> QED
    BY <2>1, <2>2, NextSteady DEF Connected
<1> QED
  BY <1>1, <1>3, <1>4, <1>5 DEF Connected

(* What was received is of one connection. *)
LEMMA ConnectedInOrder ==
    ASSUME NeverMixes
    PROVE  Connected => InOrder \/ GivenUp
<1> SUFFICES ASSUME Connected, ~GivenUp PROVE OfOneConnection
  BY SoundInOrder DEF InOrder, Connected
<1>1. Sound /\ Tagged /\ allowed \in DOMAIN Networks
  BY DEF Connected, Sound
<1>2. ASSUME NEW s \in Sides PROVE \A x, y \in LivesOf(peer[s]) : x = y
  <2> DEFINE t == Other(s)
  <2>1. t \in Sides /\ lives[t] \in Nat /\ LivesOf(peer[s]) \subseteq 1 .. lives[t]
    BY <1>1, TwoComputers DEF Sound, Tagged
  <2>2. CASE lives[t] <= 1
    <3>1. 1 .. lives[t] \subseteq {1}
      BY <2>1, <2>2
    <3> QED
      BY <2>1, <3>1
  <2>3. CASE "Reconnect" \notin allowed
    BY <2>1, <2>2, <2>3 DEF Connected, Once
  <2>4. CASE allowed \cap {"Lose", "Duplicate", "Overtake"} = {}
    <3>1. Parted(LivesOf(peer[s]), net[s], Says(t)) /\ net[s] \in Seq(Datagram)
      BY <1>1, <2>4 DEF Connected, Sequential, Trail, Sound
    <3> QED
      BY <3>1, PartedLives
  <2>5. CASE /\ {"Lose", "Reconnect"} \subseteq allowed
             /\ allowed \subseteq {"Lose", "Reconnect"} /\ Networks[allowed] <= MaxRetries
    <3>1. Steady
      BY <2>5 DEF Connected, Calm, LossyOnly, GivenUp
    <3>2. lives[t] = 0 \/ lives[t] = 1
      BY <2>1, <3>1 DEF Steady
    <3> QED
      BY <2>2, <3>2
  <2> QED
    BY <1>1, <2>3, <2>4, <2>5 DEF NeverMixes
<1>3. ASSUME NEW s \in Sides, NEW j \in DOMAIN peer[s].got, NEW k \in DOMAIN peer[s].got
      PROVE  peer[s].got[j].lives = peer[s].got[k].lives /\ Cardinality(peer[s].got[k].lives) = 1
  <2> DEFINE got == peer[s].got
  <2>1. got[j].lives # {} /\ got[k].lives # {}
    BY <1>1 DEF Tagged, Marked
  <2>2. \A x : x \in got[j].lives \/ x \in got[k].lives => x \in LivesOf(peer[s])
    BY LivesMember
  <2>3. PICK x : x \in got[k].lives
    BY <2>1
  <2>4. got[j].lives = {x} /\ got[k].lives = {x}
    BY <1>2, <2>1, <2>2, <2>3
  <2> QED
    BY <2>4, FS_Singleton
<1> QED
  BY <1>3 DEF OfOneConnection

(* What the application receives over a connection is what the other side  *)
(* sent, of one connection of the sender, each packet once and in order    *)
(* (CheckCompleteIPackets), in every network that does not mix the         *)
(* datagrams of two connections; where a connection is set up again after  *)
(* datagrams were lost, until one is closed for "starvation".              *)
THEOREM InOrderHolds ==
    ASSUME NeverMixes
    PROVE  Spec => [](InOrder \/ GivenUp)
<1>1. Init => Connected
  BY InitConnected
<1>2. Connected /\ [Next]_vars => Connected'
  BY NextConnected
<1>3. Connected => InOrder \/ GivenUp
  BY ConnectedInOrder
<1> QED
  BY <1>1, <1>2, <1>3, PTL DEF Spec

(* Where datagrams are only lost, the first connection that is closed for  *)
(* "starvation" (C4NetIO.cpp:3504) is asked for what it has thrown away    *)
(* because more packets were not acknowledged than its list holds, however *)
(* short the list and however long the connection: ClearPackets forgets    *)
(* nothing that is asked for later.                                        *)
THEOREM NeverStarvesHolds ==
    ASSUME Patient
    PROVE  Spec => []NeverStarves
<1>1. Init => Connected
  BY InitConnected
<1>2. Connected /\ [Next]_vars => Connected'
  BY NextConnected
<1>3. Connected => NeverStarves
  <2>1. Connected /\ LossyOnly => Calm
    BY DEF Connected, Sound, LossyOnly, Calm, Patient
  <2> QED
    BY <2>1 DEF Connected, Steady, NeverStarves
<1> QED
  BY <1>1, <1>2, <1>3, PTL DEF Spec
=============================================================================
