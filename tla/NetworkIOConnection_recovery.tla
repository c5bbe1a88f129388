-------------------- MODULE NetworkIOConnection_recovery --------------------
(***************************************************************************)
(* Theorems about the message connection: the post mortem of an accepted   *)
(* connection leaves no message unhandled.                                 *)
(***************************************************************************)
EXTENDS NetworkIOConnection_proofs

-----------------------------------------------------------------------------
(* PID_Conn is the first packet; before it arrives, and in the main thread *)
(* is handled, nothing else can be known of the acceptance.                *)
Acceptances == {"Conn", "ConnRe", "SetHalfAccepted", "SetAccepted"}
HasConn(w) == \E i \in DOMAIN w : w[i].kind = "Conn"
Has(es, kinds) == \E i \in DOMAIN es : es[i].pkt.kind \in kinds
ConnFirst(w) == \A i \in DOMAIN w : w[i].kind = "Conn" => i = 1
NoneBefore(es) ==
    \A i, j \in DOMAIN es : es[i].pkt.kind = "Conn" /\ j < i => es[j].pkt.kind \notin Acceptances
First(w, c, es, trusted) ==
    /\ ConnFirst(w)
    /\ HasConn(w) => c.status = "Connected" /\ ~Has(es, Acceptances)
    /\ NoneBefore(es)
    /\ Has(es, {"Conn"}) /\ c.live => (trusted <=> c.status # "Connected")
    /\ trusted /\ Has(es, {"Conn"}) => c.status # "Connected"
    /\ trusted => ~Has(es, {"SetHalfAccepted"})
    /\ trusted /\ c.live /\ ~HasConn(w) =>
            c.status = "Accepted" \/ (c.status = "HalfAccepted" /\ c.auto)
Firsts == \A s \in Sides : First(wire[s], conn[s], events[s], setting.trusts[s])

(* When a side that takes the other one at once has sent its PID_Conn, the *)
(* other side has answered, unless that is left to its main thread; and it *)
(* has answered before any message.                                        *)
Told(w) == \E i \in DOMAIN w : w[i].kind = "ConnRe"
AfterAnswer(w, c) ==
    \A i \in DOMAIN w : w[i].kind = "Data" =>
        c.status = "Accepted" \/ \E j \in DOMAIN w : j < i /\ w[j].kind = "ConnRe"
Answered(w, c, back, d, es, trusted) ==
    /\ AfterAnswer(w, c)
    /\ d.live /\ ~HasConn(back) =>
            c.status = "Accepted" \/ Told(w) \/ (~trusted /\ Has(es, {"Conn"}))
Answers ==
    \A s \in Sides :
        LET o == Other(s) IN
        /\ setting.trusts[s] /\ conn[s].live =>
                Answered(wire[s], conn[s], wire[o], conn[o], events[o], setting.trusts[o])
        /\ msgConn[s] = "this" => ~HasConn(wire[s]) /\ ~Has(events[s], {"Conn"})

(* A side that has made its post mortem sends no more over the connection  *)
(* and makes no other.                                                     *)
Over(c, m, es) == ~c.live /\ m = "other" /\ ~Has(es, {"ConnRe", "SetAccepted", "Disconn"})

(* The post mortem that comes is the one the other side has made, and only *)
(* the first packet can be one that the network thread is in the middle of. *)
Queue(q, d) ==
    \A i \in DOMAIN q :
        /\ q[i].kind = "PostMortem" => d.postMortemSent /\ q[i] = PostMortem(d)
        /\ q[i].kind = "Recovery" => i = 1
PostMortems ==
    \A s \in Sides :
        LET o == Other(s) IN
        /\ conn[s].postMortemSent => Over(conn[s], msgConn[s], events[s])
        /\ Queue(other[s], conn[o])
        /\ Busy(s) => conn[s].listed
        /\ Busy(s) \/ recovered[s] # "no" => conn[o].postMortemSent
        /\ Busy(s) /\ setting.trusts[s] /\ recovered[s] = "Accepted" => conn[s].status = "Accepted"

(* What was sent over the connection is handled or still in the log.  The  *)
(* message n is one of the other side, to the network thread of s.         *)
HasNr(h, n) == \E i \in DOMAIN h : h[i].nr = n
IsHandled(s, n) == HasNr(handled[s], n)
Awaited(s, n) ==
    /\ sent[Other(s)][n] = "this" /\ ~setting.messages[Other(s)][n].main
    /\ ~IsHandled(s, n)
InLog(log, n, first) == \E k \in DOMAIN log : log[k].nr = n /\ log[k].number >= first
Kept ==
    \A s \in Sides : setting.trusts[s] =>
        \A n \in 1 .. Len(sent[Other(s)]) :
            Awaited(s, n) => InLog(conn[Other(s)].log, n, conn[s].in)

(* What the post mortem has brought. *)
Left(s) == IF Busy(s) THEN Range(Head(other[s]).packets) ELSE {}
Got(log, first, left, h) ==
    \A k \in DOMAIN log :
        log[k].number >= first /\ ~log[k].main /\ log[k] \notin left => HasNr(h, log[k].nr)
Brought ==
    \A s \in Sides :
        setting.trusts[s] /\ recovered[s] = "Accepted" =>
            Got(conn[Other(s)].log, conn[s].in, Left(s), handled[s])
-----------------------------------------------------------------------------
(* The acceptance *)

(* What the events tell when one comes, goes or makes way for another.     *)
LEMMA EventSteps ==
    ASSUME NEW es \in Seq(EventPacket), NEW e \in EventPacket
    PROVE  /\ \A K : Has(Append(es, e), K) <=> Has(es, K) \/ e.pkt.kind \in K
           /\ NoneBefore(es) /\ (e.pkt.kind = "Conn" => ~Has(es, Acceptances)) => NoneBefore(Append(es, e))
           /\ es # <<>> =>
                /\ \A K : es[1].pkt.kind \in K => Has(es, K)
                /\ \A K : Has(Tail(es), K) => Has(es, K)
                /\ \A K : Has(es, K) => Has(Tail(es), K) \/ es[1].pkt.kind \in K
                /\ NoneBefore(es) => NoneBefore(Tail(es))
                /\ NoneBefore(es) /\ es[1].pkt.kind \in Acceptances => ~Has(Tail(es), {"Conn"})
                /\ \A K : Has([es EXCEPT ![1] = e], K) => Has(es, K) \/ e.pkt.kind \in K
                /\ NoneBefore(es) /\ es[1].pkt.kind \in Acceptances /\ e.pkt.kind # "Conn" =>
                        ~Has([es EXCEPT ![1] = e], {"Conn"}) /\ NoneBefore([es EXCEPT ![1] = e])
<1> DEFINE long == Append(es, e)
           short == Tail(es)
           new == [es EXCEPT ![1] = e]
<1>1. /\ DOMAIN es = 1 .. Len(es) /\ DOMAIN long = 1 .. Len(es) + 1 /\ Len(es) \in Nat
      /\ long[Len(es) + 1] = e /\ \A i \in 1 .. Len(es) : long[i] = es[i]
  BY AtEnd
<1>2. es # <<>> => /\ DOMAIN short = 1 .. Len(es) - 1 /\ 1 \in DOMAIN es
                   /\ \A i \in 1 .. Len(es) - 1 : short[i] = es[i + 1]
                   /\ DOMAIN new = 1 .. Len(es) /\ new[1] = e
                   /\ \A i \in 1 .. Len(es) : i # 1 => new[i] = es[i]
  BY AtFront
<1> HIDE DEF long, short, new
<1>3. /\ \A i \in DOMAIN es : i \in DOMAIN long /\ long[i] = es[i]
      /\ Len(es) + 1 \in DOMAIN long
      /\ \A i \in DOMAIN long : (i \in DOMAIN es /\ long[i] = es[i]) \/ (i = Len(es) + 1 /\ long[i] = e)
  BY <1>1
<1>4. \A K : Has(long, K) <=> Has(es, K) \/ e.pkt.kind \in K
  BY <1>1, <1>3 DEF Has
<1>5. NoneBefore(es) /\ (e.pkt.kind = "Conn" => ~Has(es, Acceptances)) => NoneBefore(long)
  <2> SUFFICES ASSUME NoneBefore(es), e.pkt.kind = "Conn" => ~Has(es, Acceptances),
                      NEW i \in DOMAIN long, NEW j \in DOMAIN long, long[i].pkt.kind = "Conn", j < i
               PROVE  long[j].pkt.kind \notin Acceptances
    BY DEF NoneBefore
  <2>1. j \in DOMAIN es /\ long[j] = es[j]
    BY <1>1
  <2>2. CASE i \in DOMAIN es /\ long[i] = es[i]
    BY <2>1, <2>2 DEF NoneBefore
  <2>3. CASE long[i] = e
    BY <2>1, <2>3 DEF Has
  <2> QED
    BY <1>3, <2>2, <2>3
<1>6. ASSUME es # <<>>
      PROVE  /\ \A K : es[1].pkt.kind \in K => Has(es, K)
             /\ \A K : Has(short, K) => Has(es, K)
             /\ \A K : Has(es, K) => Has(short, K) \/ es[1].pkt.kind \in K
             /\ NoneBefore(es) => NoneBefore(short)
             /\ NoneBefore(es) /\ es[1].pkt.kind \in Acceptances => ~Has(short, {"Conn"})
  <2>1. \A i \in DOMAIN short : i + 1 \in DOMAIN es /\ short[i] = es[i + 1] /\ 1 < i + 1
    BY <1>1, <1>2, <1>6
  <2>2. \A i \in DOMAIN es : i # 1 => i - 1 \in DOMAIN short /\ short[i - 1] = es[i]
    BY <1>1, <1>2, <1>6
  <2>3. 1 \in DOMAIN es
    BY <1>2, <1>6
  <2>4. /\ \A K : es[1].pkt.kind \in K => Has(es, K)
        /\ \A K : Has(short, K) => Has(es, K)
    BY <2>1, <2>3 DEF Has
  <2>5. ASSUME NEW K, Has(es, K) PROVE Has(short, K) \/ es[1].pkt.kind \in K
    BY <2>2, <2>5 DEF Has
  <2>6. NoneBefore(es) => NoneBefore(short)
    <3> SUFFICES ASSUME NoneBefore(es),
                        NEW i \in DOMAIN short, NEW j \in DOMAIN short, short[i].pkt.kind = "Conn", j < i
                 PROVE  short[j].pkt.kind \notin Acceptances
      BY DEF NoneBefore
    <3>1. j + 1 < i + 1
      BY <1>1, <1>2, <1>6
    <3> QED
      BY <2>1, <3>1 DEF NoneBefore
  <2>7. NoneBefore(es) /\ es[1].pkt.kind \in Acceptances => ~Has(short, {"Conn"})
    BY <2>1, <2>3 DEF NoneBefore, Has
  <2> QED
    BY <2>4, <2>5, <2>6, <2>7
<1>7. ASSUME es # <<>>
      PROVE  /\ \A K : Has(new, K) => Has(es, K) \/ e.pkt.kind \in K
             /\ NoneBefore(es) /\ es[1].pkt.kind \in Acceptances /\ e.pkt.kind # "Conn" =>
                    ~Has(new, {"Conn"}) /\ NoneBefore(new)
  <2>1. /\ 1 \in DOMAIN es /\ DOMAIN new = DOMAIN es /\ new[1] = e
        /\ \A i \in DOMAIN es : i # 1 => new[i] = es[i] /\ 1 < i
    BY <1>1, <1>2, <1>7
  <2>2. \A K : Has(new, K) => Has(es, K) \/ e.pkt.kind \in K
    BY <2>1 DEF Has
  <2>3. NoneBefore(es) /\ es[1].pkt.kind \in Acceptances /\ e.pkt.kind # "Conn" => ~Has(new, {"Conn"})
    BY <2>1 DEF Has, NoneBefore
  <2>4. ~Has(new, {"Conn"}) => NoneBefore(new)
    BY DEF Has, NoneBefore
  <2> QED
    BY <2>2, <2>3, <2>4
<1> QED
  BY <1>4, <1>5, <1>6, <1>7 DEF long, short, new

(* The same for the wire. *)
LEMMA ConnSteps ==
    ASSUME NEW w \in Seq(WirePacket)
    PROVE  /\ \A p \in WirePacket : p.kind # "Conn" =>
                /\ HasConn(Append(w, p)) <=> HasConn(w)
                /\ ConnFirst(w) => ConnFirst(Append(w, p))
           /\ ~HasConn(<<>>) /\ ConnFirst(<<>>)
           /\ w # <<>> /\ ConnFirst(w) =>
                /\ ~HasConn(Tail(w)) /\ ConnFirst(Tail(w))
                /\ HasConn(w) <=> w[1].kind = "Conn"
<1>1. ASSUME NEW p \in WirePacket, p.kind # "Conn"
      PROVE  /\ HasConn(Append(w, p)) <=> HasConn(w)
             /\ ConnFirst(w) => ConnFirst(Append(w, p))
  <2> DEFINE long == Append(w, p)
  <2>1. /\ DOMAIN w = 1 .. Len(w) /\ DOMAIN long = 1 .. Len(w) + 1 /\ Len(w) \in Nat
        /\ long[Len(w) + 1] = p /\ \A i \in 1 .. Len(w) : long[i] = w[i]
    BY AtEnd
  <2> HIDE DEF long
  <2>2. /\ \A i \in DOMAIN w : i \in DOMAIN long /\ long[i] = w[i]
        /\ \A i \in DOMAIN long : (i \in DOMAIN w /\ long[i] = w[i]) \/ long[i] = p
    BY <2>1
  <2>3. (HasConn(long) <=> HasConn(w)) /\ (ConnFirst(w) => ConnFirst(long))
    BY <1>1, <2>2 DEF HasConn, ConnFirst
  <2> QED
    BY <2>3 DEF long
<1>2. ~HasConn(<<>>) /\ ConnFirst(<<>>)
  BY DEF HasConn, ConnFirst
<1>3. ASSUME w # <<>>, ConnFirst(w)
      PROVE  ~HasConn(Tail(w)) /\ ConnFirst(Tail(w)) /\ (HasConn(w) <=> w[1].kind = "Conn")
  <2> DEFINE t == Tail(w)
  <2>1. /\ DOMAIN w = 1 .. Len(w) /\ DOMAIN t = 1 .. Len(w) - 1 /\ Len(w) \in Nat /\ 1 \in DOMAIN w
        /\ \A i \in 1 .. Len(w) - 1 : t[i] = w[i + 1]
    BY <1>3, AtFront
  <2> HIDE DEF t
  <2>2. \A i \in DOMAIN t : i + 1 \in DOMAIN w /\ t[i] = w[i + 1] /\ i + 1 # 1
    BY <2>1
  <2>3. ~HasConn(t) /\ ConnFirst(t)
    BY <1>3, <2>2 DEF HasConn, ConnFirst
  <2>4. HasConn(w) <=> w[1].kind = "Conn"
    BY <1>3, <2>1 DEF HasConn, ConnFirst
  <2> QED
    BY <2>3, <2>4 DEF t
<1> QED
  BY <1>1, <1>2, <1>3

(* Steps that change neither the acceptance nor what is known of it, and   *)
(* the end of a connection.                                                *)
LEMMA FirstKept ==
    ASSUME NEW w, NEW c, NEW es, NEW trusted, First(w, c, es, trusted),
           NEW w1, NEW d, NEW new,
           ConnFirst(w1), NoneBefore(new), d.live => c.live, HasConn(w1) => HasConn(w),
           \A K \in {Acceptances, {"Conn"}, {"SetHalfAccepted"}} : Has(new, K) => Has(es, K),
           \/ Acceptance(d) = Acceptance(c) /\ (HasConn(w) => HasConn(w1))
           \/ isClosed(d) /\ ~d.live /\ ~HasConn(w1)
    PROVE  First(w1, d, new, trusted)
<1>1. CASE Acceptance(d) = Acceptance(c) /\ (HasConn(w) => HasConn(w1))
  BY <1>1 DEF First, Acceptance
<1>2. CASE isClosed(d) /\ ~d.live /\ ~HasConn(w1)
  BY <1>2 DEF First, isClosed
<1> QED
  BY <1>1, <1>2

(* Every step keeps PID_Conn before everything else of the acceptance, in  *)
(* the network thread and in the main thread.                              *)
LEMMA NextFirsts ==
    ASSUME Types, Types', Lives, Firsts, NEW s \in Sides, Action(s)
    PROVE  Firsts'
<1> DEFINE o == Other(s)
           c == conn[s]
           d == conn'[s]
           es == events[s]
           new == events'[s]
           in == wire[s]
           back == wire[o]
           trusted == setting.trusts[s]
<1>0. /\ o # s /\ o \in Sides /\ Other(o) = s /\ Sides = {s, o}
      /\ conn'[o] = conn[o] /\ events'[o] = events[o] /\ setting' = setting
  BY TwoSides, OwnSide
<1>t. /\ c \in Connection /\ d \in Connection /\ es \in Seq(EventPacket)
      /\ in \in Seq(WirePacket) /\ back \in Seq(WirePacket)
  BY <1>0 DEF Types
<1>f. First(in, c, es, trusted) /\ First(back, conn[o], events[o], setting.trusts[o])
  BY <1>0 DEF Firsts
<1>l. c.live => isOpen(c)
  BY DEF Lives, Living
<1>a. ASSUME wire'[o] = back \/ \E p \in WirePacket : p.kind # "Conn" /\ wire'[o] = Append(back, p),
             First(wire'[s], d, new, trusted)
      PROVE  Firsts'
  <2>1. (HasConn(wire'[o]) <=> HasConn(back)) /\ ConnFirst(wire'[o])
    <3>1. ConnFirst(back)
      BY <1>f DEF First
    <3>2. ASSUME NEW p \in WirePacket, p.kind # "Conn"
          PROVE  (HasConn(Append(back, p)) <=> HasConn(back)) /\ ConnFirst(Append(back, p))
      BY <1>t, <3>1, <3>2, ConnSteps
    <3> QED
      BY <1>a, <3>1, <3>2
  <2>2. First(wire'[o], conn'[o], events'[o], setting'.trusts[o])
    BY <1>0, <1>f, <2>1 DEF First
  <2> QED
    BY <1>0, <1>a, <2>2 DEF Firsts
<1> HIDE DEF c, d, es, new, in, back, trusted
<1>b. /\ Packet("ConnRe") \in WirePacket /\ Packet("ConnRe").kind # "Conn"
      /\ \A p \in MessagePacket : p \in WirePacket /\ p.kind # "Conn"
  BY Packets DEF Packet
<1>c. /\ ConnFirst(in) /\ NoneBefore(es) /\ ~HasConn(<<>>) /\ ConnFirst(<<>>)
      /\ in # <<>> => /\ ~HasConn(Tail(in)) /\ ConnFirst(Tail(in))
                      /\ HasConn(in) <=> in[1].kind = "Conn"
  BY <1>f, <1>t, ConnSteps DEF First
<1>d. /\ Event(Packet("Conn"), "this").pkt.kind = "Conn" /\ Event(Packet("Conn"), "this") \in EventPacket
      /\ Event(Packet("ConnRe"), "this").pkt.kind = "ConnRe" /\ Event(Packet("ConnRe"), "this") \in EventPacket
      /\ Event(Packet("SetHalfAccepted"), "this").pkt.kind = "SetHalfAccepted"
      /\ Event(Packet("SetHalfAccepted"), "this") \in EventPacket
      /\ Event(Packet("SetAccepted"), "this").pkt.kind = "SetAccepted"
      /\ Event(Packet("SetAccepted"), "this") \in EventPacket
      /\ Disconn.pkt.kind = "Disconn" /\ Disconn \in EventPacket
      /\ \A p \in MessagePacket, by \in {"this", "other"} :
            Event(p, by).pkt.kind = "Data" /\ Event(p, by) \in EventPacket
  BY Packets DEF Event, Packet, Disconn
<1>k. \A K \in {Acceptances, {"Conn"}, {"SetHalfAccepted"}} :
            /\ "Data" \notin K /\ "Disconn" \notin K
            /\ Has(es, K) => Has(es, Acceptances)
  BY DEF Acceptances, Has
(* What may be added to the events without consequence. *)
<1>e. ASSUME NEW e \in EventPacket, e.pkt.kind \in {"Data", "Disconn"}
      PROVE  /\ NoneBefore(Append(es, e))
             /\ \A K \in {Acceptances, {"Conn"}, {"SetHalfAccepted"}} : Has(Append(es, e), K) => Has(es, K)
  <2>1. NoneBefore(Append(es, e))
    BY <1>c, <1>e, <1>t, EventSteps
  <2>2. \A K : Has(Append(es, e), K) <=> Has(es, K) \/ e.pkt.kind \in K
    BY <1>t, EventSteps
  <2> QED
    BY <1>e, <1>k, <2>1, <2>2
<1>g. es # <<>> =>
        /\ NoneBefore(Tail(es))
        /\ \A K \in {Acceptances, {"Conn"}, {"SetHalfAccepted"}} : Has(Tail(es), K) => Has(es, K)
        /\ es[1].pkt.kind \in Acceptances => ~Has(Tail(es), {"Conn"}) /\ Has(es, Acceptances)
        /\ \A K : es[1].pkt.kind \in K => Has(es, K)
  BY <1>c, <1>t, EventSteps
<1>1. CASE SendMessage(s)
  <2> DEFINE on == Way(s)
             p == NewPacket(s)
  <2>1. /\ on # "none" => p \in MessagePacket
        /\ Being(d) = Being(c) /\ Acceptance(d) = Acceptance(c) /\ wire'[s] = in /\ new = es
        /\ wire'[o] = IF on = "this" /\ isOpen(c) /\ c.live THEN Append(back, p) ELSE back
    BY <1>1, SendMessageEffect DEF c, d, in, back, es, new
  <2> HIDE DEF on, p
  <2>2. First(in, d, es, trusted)
    BY <1>c, <1>f, <2>1, FirstKept DEF Being
  <2>3. wire'[o] = back \/ \E q \in WirePacket : q.kind # "Conn" /\ wire'[o] = Append(back, q)
    BY <1>b, <2>1
  <2> QED
    BY <1>a, <2>1, <2>2, <2>3 DEF c, d, es, new, in, back, trusted
<1>2. CASE SendPing(s)
  <2>1. /\ d = c /\ wire'[s] = in /\ new = es
        /\ \E p \in WirePacket : p.kind # "Conn" /\ wire'[o] = Append(back, p)
    <3>1. /\ d = c /\ wire'[s] = in /\ new = es /\ wire'[o] = Append(back, Ping(c.in))
          /\ Ping(c.in) \in WirePacket /\ Ping(c.in).kind = "Ping"
      BY <1>2, SendPingEffect DEF c, d, in, back, es, new
    <3> QED
      BY <3>1
  <2> QED
    BY <1>a, <1>f, <2>1
<1>3. CASE ReceiveConn(s)
  <2>1. /\ c.live /\ in # <<>> /\ in[1].kind = "Conn" /\ Being(d) = Being(c)
        /\ trusted => d.status = "HalfAccepted" /\ d.auto = TRUE
        /\ ~trusted => d = c
        /\ wire'[s] = Tail(in)
        /\ wire'[o] \in {back, Append(back, Packet("ConnRe"))}
        /\ new = Append(es, Event(Packet("Conn"), "this"))
    BY <1>3, <1>l, ReceiveConnEffect DEF c, d, in, back, es, new, trusted
  <2>2. c.status = "Connected" /\ ~Has(es, Acceptances)
    BY <1>c, <1>f, <2>1 DEF First
  <2>3. NoneBefore(new)
    BY <1>c, <1>d, <1>t, <2>1, <2>2, EventSteps
  <2>4. ~Has(new, {"SetHalfAccepted"})
    <3>1. \A e \in EventPacket : \A K : Has(Append(es, e), K) <=> Has(es, K) \/ e.pkt.kind \in K
      BY <1>t, EventSteps
    <3>2. Has(new, {"SetHalfAccepted"}) <=> Has(es, {"SetHalfAccepted"})
      BY <1>d, <2>1, <3>1
    <3> QED
      BY <1>k, <2>2, <3>2
  <2>5. First(Tail(in), d, new, trusted)
    BY <1>c, <2>1, <2>2, <2>3, <2>4 DEF First
  <2> QED
    BY <1>a, <1>b, <2>1, <2>5
<1>4. CASE ReceiveConnRe(s)
  <2>1. /\ in # <<>> /\ in[1].kind = "ConnRe" /\ Being(d) = Being(c) /\ d.auto = c.auto
        /\ d.status = IF isHalfAccepted(c) /\ c.auto THEN "Accepted" ELSE c.status
        /\ wire'[s] = Tail(in) /\ wire'[o] = back
        /\ new = Append(es, Event(Packet("ConnRe"), "this"))
    BY <1>4, ReceiveConnReEffect DEF c, d, in, back, es, new
  <2>2. ~HasConn(in) /\ ~HasConn(Tail(in)) /\ ConnFirst(Tail(in))
    BY <1>c, <2>1
  <2>3. NoneBefore(new)
    BY <1>c, <1>d, <1>t, <2>1, EventSteps
  <2>4. /\ Has(new, {"Conn"}) <=> Has(es, {"Conn"})
        /\ Has(new, {"SetHalfAccepted"}) <=> Has(es, {"SetHalfAccepted"})
    BY <1>d, <1>t, <2>1, EventSteps
  <2>5. \/ d.status = c.status
        \/ d.status = "Accepted" /\ c.status # "Connected"
    BY <2>1 DEF isHalfAccepted
  <2>6. First(Tail(in), d, new, trusted)
    BY <1>f, <2>1, <2>2, <2>3, <2>4, <2>5 DEF First, Being
  <2> QED
    BY <1>a, <2>1, <2>6
<1>5. CASE ReceivePing(s)
  <2>1. in # <<>> /\ in[1].kind = "Ping" /\ wire'[s] = Tail(in) /\ wire'[o] = back /\ new = es
    BY <1>5, ReceivePingEffect DEF in, back, es, new
  <2>2. Being(d) = Being(c) /\ Acceptance(d) = Acceptance(c)
    BY <1>5, <1>t, ReceivePingEffect, PingFields DEF c, d, in
  <2>3. First(Tail(in), d, es, trusted)
    BY <1>c, <1>f, <2>1, <2>2, FirstKept DEF Being
  <2> QED
    BY <1>a, <2>1, <2>3
<1>6. CASE ReceiveData(s)
  <2>1. /\ in # <<>> /\ in[1].kind = "Data" /\ wire'[s] = Tail(in) /\ wire'[o] = back
        /\ Being(d) = Being(c) /\ Acceptance(d) = Acceptance(c)
        /\ new = es \/ \E e \in EventPacket : e.pkt.kind = "Data" /\ new = Append(es, e)
    BY <1>6, <1>d, ReceiveDataEffect DEF c, d, in, back, es, new
  <2>2. NoneBefore(new) /\ \A K \in {Acceptances, {"Conn"}, {"SetHalfAccepted"}} : Has(new, K) => Has(es, K)
    BY <1>c, <1>e, <2>1
  <2>3. First(Tail(in), d, new, trusted)
    BY <1>c, <1>f, <2>1, <2>2, FirstKept DEF Being
  <2> QED
    BY <1>a, <2>1, <2>3
<1>7. CASE ReceiveOther(s) \/ RecoverPacket(s)
  <2>1. /\ d = c /\ wire'[s] = in /\ wire'[o] = back
        /\ new = es \/ \E e \in EventPacket : e.pkt.kind = "Data" /\ new = Append(es, e)
    BY <1>7, <1>d, ReceiveOtherEffect, RecoverPacketEffect DEF c, d, in, back, es, new
  <2>2. NoneBefore(new) /\ \A K \in {Acceptances, {"Conn"}, {"SetHalfAccepted"}} : Has(new, K) => Has(es, K)
    BY <1>c, <1>e, <2>1
  <2>3. First(in, d, new, trusted)
    BY <1>c, <1>f, <2>1, <2>2, FirstKept
  <2> QED
    BY <1>a, <2>1, <2>3
<1>8. CASE ReceivePostMortem(s)
  <2>1. d = c /\ new = es /\ wire'[s] = in /\ wire'[o] = back
    BY <1>8, ReceivePostMortemEffect DEF c, d, es, new, in, back
  <2> QED
    BY <1>a, <1>f, <2>1
<1>9. CASE RemoveConnection(s) \/ OnDisconn(s) \/ CheckTimeout(s)
  <2>1. /\ d.live = FALSE /\ isClosed(d) /\ wire'[s] = <<>> /\ wire'[o] = back
        /\ new = IF c.live THEN Append(es, Disconn) ELSE es
    BY <1>9, EndEffect DEF c, d, es, new, in, back
  <2>2. NoneBefore(new) /\ \A K \in {Acceptances, {"Conn"}, {"SetHalfAccepted"}} : Has(new, K) => Has(es, K)
    BY <1>c, <1>d, <1>e, <2>1
  <2>3. First(<<>>, d, new, trusted)
    BY <1>c, <1>f, <2>1, <2>2, FirstKept
  <2> QED
    BY <1>a, <2>1, <2>3
<1>10. CASE HandleConn(s)
  <2>1. /\ es # <<>> /\ es[1].pkt.kind = "Conn" /\ d = c /\ wire'[s] = in
        /\ wire'[o] \in {back, Append(back, Packet("ConnRe"))}
        /\ new = IF c.status = "Connected"
                 THEN [es EXCEPT ![1] = Event(Packet("SetHalfAccepted"), "this")] ELSE Tail(es)
    BY <1>10, HandleConnEffect DEF c, d, es, new, in, back
  <2>2. es[1].pkt.kind \in Acceptances /\ Has(es, {"Conn"})
    BY <1>g, <2>1 DEF Acceptances
  <2>3. ~HasConn(in) /\ (trusted => c.status # "Connected")
    BY <1>f, <1>g, <2>1, <2>2 DEF First
  <2>4. /\ ~Has(new, {"Conn"}) /\ NoneBefore(new)
        /\ trusted => ~Has(new, {"SetHalfAccepted"})
    <3>1. CASE c.status = "Connected"
      BY <1>c, <1>d, <1>t, <2>1, <2>2, <2>3, <3>1, EventSteps
    <3>2. CASE c.status # "Connected"
      BY <1>f, <1>g, <2>1, <2>2, <3>2 DEF First
    <3> QED
      BY <3>1, <3>2
  <2>5. First(in, d, new, trusted)
    BY <1>c, <1>f, <2>1, <2>3, <2>4 DEF First
  <2> QED
    BY <1>a, <1>b, <2>1, <2>5
<1>11. CASE SetHalfAccepted(s)
  <2>1. /\ es # <<>> /\ es[1].pkt.kind = "SetHalfAccepted" /\ Being(d) = Being(c)
        /\ wire'[s] = in /\ wire'[o] = back /\ new = Tail(es)
    BY <1>11, SetHalfAcceptedEffect DEF c, d, es, new, in, back
  <2>2. es[1].pkt.kind \in Acceptances /\ Has(es, {"SetHalfAccepted"})
    BY <1>g, <2>1 DEF Acceptances
  <2>3. ~trusted /\ ~HasConn(in)
    BY <1>f, <1>g, <2>1, <2>2 DEF First
  <2>4. First(in, d, new, trusted)
    BY <1>c, <1>g, <2>1, <2>2, <2>3 DEF First
  <2> QED
    BY <1>a, <2>1, <2>4
<1>12. CASE HandleConnRe(s)
  <2>1. /\ es # <<>> /\ es[1].pkt.kind = "ConnRe" /\ d = c
        /\ wire'[s] = in /\ wire'[o] = back
        /\ new \in {[es EXCEPT ![1] = Event(Packet("SetAccepted"), "this")], Tail(es)}
    BY <1>12, HandleConnReEffect DEF c, d, es, new, in, back
  <2>2. es[1].pkt.kind \in Acceptances
    BY <2>1 DEF Acceptances
  <2>3. ~HasConn(in)
    BY <1>f, <1>g, <2>1, <2>2 DEF First
  <2>4. /\ ~Has(new, {"Conn"}) /\ NoneBefore(new)
        /\ Has(new, {"SetHalfAccepted"}) => Has(es, {"SetHalfAccepted"})
    <3>1. CASE new = [es EXCEPT ![1] = Event(Packet("SetAccepted"), "this")]
      BY <1>c, <1>d, <1>t, <2>1, <2>2, <3>1, EventSteps
    <3>2. CASE new = Tail(es)
      BY <1>g, <2>1, <2>2, <3>2
    <3> QED
      BY <2>1, <3>1, <3>2
  <2>5. First(in, d, new, trusted)
    BY <1>c, <1>f, <2>1, <2>3, <2>4 DEF First
  <2> QED
    BY <1>a, <2>1, <2>5
<1>13. CASE SetAccepted(s)
  <2>1. /\ es # <<>> /\ es[1].pkt.kind = "SetAccepted" /\ d.status = "Accepted"
        /\ wire'[s] = in /\ wire'[o] = back /\ new = Tail(es)
    BY <1>13, SetAcceptedEffect DEF c, d, es, new, in, back
  <2>2. es[1].pkt.kind \in Acceptances
    BY <2>1 DEF Acceptances
  <2>3. ~HasConn(in)
    BY <1>f, <1>g, <2>1, <2>2 DEF First
  <2>4. First(in, d, new, trusted)
    BY <1>c, <1>f, <1>g, <2>1, <2>2, <2>3 DEF First
  <2> QED
    BY <1>a, <2>1, <2>4
<1>14. CASE HandlePacket(s)
  <2>1. es # <<>> /\ new = Tail(es) /\ d = c /\ wire'[s] = in /\ wire'[o] = back
    BY <1>14, HandlePacketEffect DEF c, d, es, new, in, back
  <2>2. First(in, d, new, trusted)
    BY <1>c, <1>f, <1>g, <2>1, FirstKept
  <2> QED
    BY <1>a, <2>1, <2>2
<1>15. CASE HandleDisconn(s)
  <2>1. /\ es # <<>> /\ new = Tail(es) /\ Being(d) = Being(c) /\ Acceptance(d) = Acceptance(c)
        /\ wire'[s] = in /\ wire'[o] = back
    BY <1>15, HandleDisconnEffect DEF c, d, es, new, in, back
  <2>2. First(in, d, new, trusted)
    BY <1>c, <1>f, <1>g, <2>1, FirstKept DEF Being
  <2> QED
    BY <1>a, <2>1, <2>2
<1> QED
  BY <1>1, <1>2, <1>3, <1>4, <1>5, <1>6, <1>7, <1>8, <1>9, <1>10, <1>11, <1>12, <1>13, <1>14,
     <1>15 DEF Action, NetworkThread, MainThread

(* What the wire tells when a packet comes or goes. *)
LEMMA AnswerSteps ==
    ASSUME NEW w \in Seq(WirePacket), NEW c, NEW d
    PROVE  /\ d.status = "Accepted" => AfterAnswer(w, d)
           /\ AfterAnswer(w, c) /\ (c.status = "Accepted" => d.status = "Accepted") => AfterAnswer(w, d)
           /\ \A p \in WirePacket :
                /\ Told(Append(w, p)) <=> Told(w) \/ p.kind = "ConnRe"
                /\ AfterAnswer(w, c) /\ (p.kind = "Data" => c.status = "Accepted" \/ Told(w)) =>
                        AfterAnswer(Append(w, p), c)
           /\ w # <<>> /\ w[1].kind # "ConnRe" =>
                /\ Told(w) => Told(Tail(w))
                /\ AfterAnswer(w, c) => AfterAnswer(Tail(w), c)
<1>1. d.status = "Accepted" => AfterAnswer(w, d)
  BY DEF AfterAnswer
<1>2. AfterAnswer(w, c) /\ (c.status = "Accepted" => d.status = "Accepted") => AfterAnswer(w, d)
  BY DEF AfterAnswer
<1>3. ASSUME NEW p \in WirePacket
      PROVE  /\ Told(Append(w, p)) <=> Told(w) \/ p.kind = "ConnRe"
             /\ AfterAnswer(w, c) /\ (p.kind = "Data" => c.status = "Accepted" \/ Told(w)) =>
                    AfterAnswer(Append(w, p), c)
  <2> DEFINE long == Append(w, p)
  <2>1. /\ DOMAIN w = 1 .. Len(w) /\ DOMAIN long = 1 .. Len(w) + 1 /\ Len(w) \in Nat
        /\ long[Len(w) + 1] = p /\ \A i \in 1 .. Len(w) : long[i] = w[i]
    BY AtEnd
  <2> HIDE DEF long
  <2>2. /\ \A i \in DOMAIN w : i \in DOMAIN long /\ long[i] = w[i] /\ i < Len(w) + 1
        /\ \A i \in DOMAIN long : (i \in DOMAIN w /\ long[i] = w[i]) \/ (i = Len(w) + 1 /\ long[i] = p)
        /\ Len(w) + 1 \in DOMAIN long
    BY <2>1
  <2>3. Told(long) <=> Told(w) \/ p.kind = "ConnRe"
    BY <2>1, <2>2 DEF Told
  <2>4. ASSUME AfterAnswer(w, c), p.kind = "Data" => c.status = "Accepted" \/ Told(w) PROVE AfterAnswer(long, c)
    BY <2>2, <2>4 DEF AfterAnswer, Told
  <2> QED
    BY <2>3, <2>4 DEF long
<1>4. ASSUME w # <<>>, w[1].kind # "ConnRe"
      PROVE  /\ Told(w) => Told(Tail(w))
             /\ AfterAnswer(w, c) => AfterAnswer(Tail(w), c)
  <2> DEFINE t == Tail(w)
  <2>1. /\ DOMAIN w = 1 .. Len(w) /\ DOMAIN t = 1 .. Len(w) - 1 /\ Len(w) \in Nat
        /\ \A i \in 1 .. Len(w) - 1 : t[i] = w[i + 1]
    BY <1>4, AtFront
  <2> HIDE DEF t
  <2>2. /\ \A i \in DOMAIN t : i + 1 \in DOMAIN w /\ t[i] = w[i + 1]
        /\ \A i \in DOMAIN w : i # 1 => i - 1 \in DOMAIN t /\ t[i - 1] = w[i]
        /\ \A i \in DOMAIN t, j \in DOMAIN w : j < i + 1 /\ j # 1 => j - 1 < i
    BY <2>1
  <2>3. Told(w) => Told(t)
    BY <1>4, <2>2 DEF Told
  <2>4. ASSUME AfterAnswer(w, c), NEW i \in DOMAIN t, t[i].kind = "Data", c.status # "Accepted"
        PROVE  \E j \in DOMAIN t : j < i /\ t[j].kind = "ConnRe"
    <3>1. PICK j \in DOMAIN w : j < i + 1 /\ w[j].kind = "ConnRe"
      BY <2>2, <2>4 DEF AfterAnswer
    <3>2. j - 1 \in DOMAIN t /\ t[j - 1].kind = "ConnRe" /\ j - 1 < i
      BY <1>4, <2>2, <3>1
    <3> QED
      BY <3>2
  <2> QED
    BY <2>3, <2>4 DEF t, AfterAnswer
<1> QED
  BY <1>1, <1>2, <1>3, <1>4

(* Every step keeps the answer to PID_Conn before the first message over   *)
(* the connection.                                                         *)
LEMMA NextAnswers ==
    ASSUME Types, Types', Lives, Firsts, Answers, NEW s \in Sides, Action(s)
    PROVE  Answers'
<1> DEFINE o == Other(s)
           c == conn[s]
           d == conn'[s]
           e == conn[o]
           es == events[s]
           new == events'[s]
           in == wire[s]
           back == wire[o]
           trusted == setting.trusts[s]
           m == msgConn[s]
<1>0. /\ o # s /\ o \in Sides /\ Other(o) = s /\ Sides = {s, o}
      /\ conn'[o] = e /\ events'[o] = events[o] /\ setting' = setting /\ msgConn'[o] = msgConn[o]
  BY TwoSides, OwnSide
<1>t. /\ c \in Connection /\ d \in Connection /\ es \in Seq(EventPacket)
      /\ in \in Seq(WirePacket) /\ back \in Seq(WirePacket)
      /\ wire'[s] \in Seq(WirePacket)
  BY <1>0 DEF Types
<1>f. First(in, c, es, trusted) /\ ConnFirst(back)
  BY <1>0 DEF Firsts, First
<1>l. c.live => isOpen(c)
  BY DEF Lives, Living
<1>m. /\ trusted /\ c.live => AfterAnswer(in, c)
      /\ m = "this" => ~HasConn(in) /\ ~Has(es, {"Conn"})
  BY DEF Answers, Answered
<1>a. ASSUME wire'[o] = back \/
                \E p \in WirePacket : /\ p.kind # "Conn" /\ (p.kind = "Data" => c.live /\ m = "this")
                                      /\ wire'[o] = Append(back, p),
             trusted /\ d.live =>
                /\ c.live /\ AfterAnswer(wire'[s], d)
                /\ c.status = "Accepted" \/ Told(in) => d.status = "Accepted" \/ Told(wire'[s]),
             d.live /\ ~HasConn(wire'[s]) =>
                \/ c.live /\ ~HasConn(in) /\ (~trusted /\ Has(es, {"Conn"}) => Has(new, {"Conn"}))
                \/ Told(wire'[o])
                \/ ~trusted /\ Has(new, {"Conn"}),
             msgConn'[s] = "this" => ~HasConn(wire'[s]) /\ ~Has(new, {"Conn"})
      PROVE  Answers'
  <2>1. /\ HasConn(wire'[o]) <=> HasConn(back)
        /\ Told(back) => Told(wire'[o])
    <3>1. ASSUME NEW p \in WirePacket, p.kind # "Conn"
          PROVE  (HasConn(Append(back, p)) <=> HasConn(back)) /\ (Told(back) => Told(Append(back, p)))
      BY <1>t, <3>1, ConnSteps, AnswerSteps
    <3> QED
      BY <1>a, <3>1
  <2>2. trusted /\ d.live => Answered(wire'[s], d, wire'[o], e, events[o], setting.trusts[o])
    <3>1. trusted /\ c.live => Answered(in, c, back, e, events[o], setting.trusts[o])
      BY DEF Answers
    <3> QED
      BY <1>a, <2>1, <3>1 DEF Answered
  <2>3. ASSUME setting.trusts[o], e.live PROVE Answered(wire'[o], e, wire'[s], d, new, trusted)
    <3>1. Answered(back, e, in, c, es, trusted)
      BY <1>0, <2>3 DEF Answers
    <3>2. AfterAnswer(wire'[o], e)
      <4>1. AfterAnswer(back, e)
        BY <3>1 DEF Answered
      <4>2. ASSUME NEW p \in WirePacket, p.kind = "Data" => c.live /\ m = "this"
            PROVE  AfterAnswer(Append(back, p), e)
        <5>1. p.kind = "Data" => e.status = "Accepted" \/ Told(back)
          BY <1>m, <3>1, <4>2 DEF Answered
        <5> QED
          BY <1>t, <4>1, <5>1, AnswerSteps
      <4> QED
        BY <1>a, <4>1, <4>2
    <3> QED
      BY <1>a, <2>1, <3>1, <3>2 DEF Answered
  <2>4. msgConn'[o] = "this" => ~HasConn(wire'[o]) /\ ~Has(events[o], {"Conn"})
    BY <1>0, <2>1 DEF Answers
  <2>5. /\ setting'.trusts[o] /\ conn'[o].live =>
                Answered(wire'[o], conn'[o], wire'[s], conn'[s], events'[s], setting'.trusts[s])
        /\ msgConn'[o] = "this" => ~HasConn(wire'[o]) /\ ~Has(events'[o], {"Conn"})
    BY <1>0, <2>3, <2>4
  <2>6. /\ setting'.trusts[s] /\ conn'[s].live =>
                Answered(wire'[s], conn'[s], wire'[o], conn'[o], events'[o], setting'.trusts[o])
        /\ msgConn'[s] = "this" => ~HasConn(wire'[s]) /\ ~Has(events'[s], {"Conn"})
    BY <1>0, <1>a, <2>2
  <2> QED
    BY <1>0, <2>5, <2>6 DEF Answers
<1> HIDE DEF c, d, e, es, new, in, back, trusted, m
<1>b. /\ Packet("ConnRe") \in WirePacket /\ Packet("ConnRe").kind = "ConnRe"
      /\ \A p \in MessagePacket : p \in WirePacket /\ p.kind = "Data"
  BY Packets DEF Packet
<1>c. /\ ~HasConn(<<>>)
      /\ in # <<>> => ~HasConn(Tail(in)) /\ (HasConn(in) <=> in[1].kind = "Conn")
  BY <1>f, <1>t, ConnSteps DEF First
<1>d. /\ Event(Packet("Conn"), "this").pkt.kind = "Conn" /\ Event(Packet("Conn"), "this") \in EventPacket
      /\ Event(Packet("ConnRe"), "this").pkt.kind = "ConnRe" /\ Event(Packet("ConnRe"), "this") \in EventPacket
      /\ Event(Packet("SetAccepted"), "this").pkt.kind = "SetAccepted"
      /\ Event(Packet("SetAccepted"), "this") \in EventPacket
      /\ Disconn.pkt.kind = "Disconn" /\ Disconn \in EventPacket
      /\ \A p \in MessagePacket, by \in {"this", "other"} :
            Event(p, by).pkt.kind = "Data" /\ Event(p, by) \in EventPacket
  BY Packets DEF Event, Packet, Disconn
<1>e. \A x \in EventPacket : Has(Append(es, x), {"Conn"}) <=> Has(es, {"Conn"}) \/ x.pkt.kind = "Conn"
  BY <1>t, EventSteps
<1>g. es # <<>> =>
        /\ Has(Tail(es), {"Conn"}) => Has(es, {"Conn"})
        /\ Has(es, {"Conn"}) => Has(Tail(es), {"Conn"}) \/ es[1].pkt.kind = "Conn"
        /\ es[1].pkt.kind \in Acceptances => ~Has(Tail(es), {"Conn"}) /\ ~HasConn(in)
        /\ es[1].pkt.kind = "Conn" => Has(es, {"Conn"})
  <2>1. es # <<>> =>
          /\ \A K : es[1].pkt.kind \in K => Has(es, K)
          /\ \A K : Has(Tail(es), K) => Has(es, K)
          /\ \A K : Has(es, K) => Has(Tail(es), K) \/ es[1].pkt.kind \in K
          /\ NoneBefore(es) /\ es[1].pkt.kind \in Acceptances => ~Has(Tail(es), {"Conn"})
    BY <1>t, EventSteps
  <2> QED
    BY <1>f, <2>1 DEF First
(* What the wire keeps when its first packet is not an answer. *)
<1>h. in # <<>> /\ in[1].kind # "ConnRe" =>
        /\ Told(in) => Told(Tail(in))
        /\ AfterAnswer(in, c) => AfterAnswer(Tail(in), c)
  BY <1>t, AnswerSteps
<1>i. Told(Append(back, Packet("ConnRe")))
  BY <1>b, <1>t, AnswerSteps
<1>k. ASSUME Acceptance(d) = Acceptance(c) PROVE \A w \in Seq(WirePacket) : AfterAnswer(w, c) => AfterAnswer(w, d)
  BY <1>k, AnswerSteps DEF Acceptance
<1>1. CASE SendMessage(s)
  <2> DEFINE on == Way(s)
             p == NewPacket(s)
  <2>1. /\ on # "none" => on = m /\ p \in MessagePacket
        /\ Being(d) = Being(c) /\ Acceptance(d) = Acceptance(c) /\ wire'[s] = in /\ new = es
        /\ wire'[o] = IF on = "this" /\ isOpen(c) /\ c.live THEN Append(back, p) ELSE back
        /\ msgConn'[s] = m
    BY <1>1, SendMessageEffect DEF c, d, in, back, es, new, m
  <2> HIDE DEF on, p
  <2>2. d.status = c.status /\ d.live = c.live
    BY <2>1 DEF Being, Acceptance
  <2>3. wire'[o] = back \/
            \E q \in WirePacket : /\ q.kind # "Conn" /\ (q.kind = "Data" => c.live /\ m = "this")
                                  /\ wire'[o] = Append(back, q)
    BY <1>b, <2>1
  <2> QED
    BY <1>a, <1>k, <1>m, <1>t, <2>1, <2>2, <2>3
<1>2. CASE SendPing(s)
  <2>1. /\ d = c /\ wire'[s] = in /\ new = es /\ msgConn'[s] = m
        /\ \E p \in WirePacket : p.kind = "Ping" /\ wire'[o] = Append(back, p)
    <3>1. /\ d = c /\ wire'[s] = in /\ new = es /\ wire'[o] = Append(back, Ping(c.in)) /\ msgConn'[s] = m
          /\ Ping(c.in) \in WirePacket /\ Ping(c.in).kind = "Ping"
      BY <1>2, SendPingEffect DEF c, d, in, back, es, new, m
    <3> QED
      BY <3>1
  <2> QED
    BY <1>a, <1>m, <2>1
<1>3. CASE ReceiveConn(s)
  <2>1. /\ c.live /\ in # <<>> /\ in[1].kind = "Conn" /\ Being(d) = Being(c)
        /\ trusted => wire'[o] = Append(back, Packet("ConnRe"))
        /\ ~trusted => wire'[o] = back
        /\ wire'[s] = Tail(in)
        /\ new = Append(es, Event(Packet("Conn"), "this")) /\ msgConn'[s] = m
    BY <1>3, <1>l, ReceiveConnEffect DEF c, d, in, back, es, new, trusted, m
  <2>2. c.status = "Connected" /\ msgConn'[s] # "this" /\ Has(new, {"Conn"})
    BY <1>c, <1>d, <1>e, <1>f, <1>m, <2>1 DEF First
  <2>3. trusted => AfterAnswer(Tail(in), d) /\ (Told(in) => Told(Tail(in)))
    <3>1. trusted => AfterAnswer(Tail(in), c)
      BY <1>h, <1>m, <2>1
    <3>2. Tail(in) \in Seq(WirePacket)
      BY <1>t, <2>1
    <3> QED
      BY <1>h, <2>1, <2>2, <3>1, <3>2, AnswerSteps
  <2>4. trusted => Told(wire'[o])
    BY <1>i, <2>1
  <2>5. wire'[o] = back \/
            \E q \in WirePacket : /\ q.kind # "Conn" /\ (q.kind = "Data" => c.live /\ m = "this")
                                  /\ wire'[o] = Append(back, q)
    BY <1>b, <2>1
  <2> QED
    BY <1>a, <2>1, <2>2, <2>3, <2>4, <2>5
<1>4. CASE ReceiveConnRe(s)
  <2>1. /\ c.live /\ in # <<>> /\ in[1].kind = "ConnRe" /\ Being(d) = Being(c)
        /\ d.status = IF isHalfAccepted(c) /\ c.auto THEN "Accepted" ELSE c.status
        /\ wire'[s] = Tail(in) /\ wire'[o] = back
        /\ new = Append(es, Event(Packet("ConnRe"), "this")) /\ msgConn'[s] = m
    BY <1>4, ReceiveConnReEffect DEF c, d, in, back, es, new, m
  <2>2. ~HasConn(in) /\ ~HasConn(Tail(in)) /\ (Has(new, {"Conn"}) <=> Has(es, {"Conn"}))
    BY <1>c, <1>d, <1>e, <2>1
  <2>3. trusted => d.status = "Accepted"
    BY <1>f, <2>1, <2>2 DEF First, isHalfAccepted
  <2>4. trusted => AfterAnswer(Tail(in), d)
    <3>1. Tail(in) \in Seq(WirePacket)
      BY <1>t, <2>1
    <3> QED
      BY <2>3, <3>1, AnswerSteps
  <2> QED
    BY <1>a, <1>m, <2>1, <2>2, <2>3, <2>4
<1>5. CASE ReceivePing(s)
  <2>1. /\ c.live /\ in # <<>> /\ in[1].kind = "Ping" /\ wire'[s] = Tail(in) /\ wire'[o] = back /\ new = es
        /\ msgConn'[s] = m
    BY <1>5, ReceivePingEffect DEF in, back, es, new, m, c
  <2>2. Acceptance(d) = Acceptance(c)
    BY <1>5, <1>t, ReceivePingEffect, PingFields DEF c, d, in
  <2>3. trusted => AfterAnswer(Tail(in), d) /\ (Told(in) => Told(Tail(in)))
    BY <1>h, <1>k, <1>m, <1>t, <2>1, <2>2
  <2> QED
    BY <1>a, <1>c, <1>m, <2>1, <2>2, <2>3 DEF Acceptance
<1>6. CASE ReceiveData(s)
  <2>1. /\ c.live /\ in # <<>> /\ in[1].kind = "Data" /\ wire'[s] = Tail(in) /\ wire'[o] = back
        /\ Acceptance(d) = Acceptance(c) /\ msgConn'[s] = m
        /\ new = es \/ \E x \in EventPacket : x.pkt.kind = "Data" /\ new = Append(es, x)
    BY <1>6, <1>d, ReceiveDataEffect DEF c, d, in, back, es, new, m
  <2>2. Has(new, {"Conn"}) <=> Has(es, {"Conn"})
    BY <1>e, <2>1
  <2>3. trusted => AfterAnswer(Tail(in), d) /\ (Told(in) => Told(Tail(in)))
    BY <1>h, <1>k, <1>m, <1>t, <2>1
  <2> QED
    BY <1>a, <1>c, <1>m, <2>1, <2>2, <2>3 DEF Acceptance
<1>7. CASE ReceiveOther(s) \/ RecoverPacket(s) \/ ReceivePostMortem(s)
  <2>1. /\ d = c /\ wire'[s] = in /\ wire'[o] = back /\ msgConn'[s] = m
        /\ new = es \/ \E x \in EventPacket : x.pkt.kind = "Data" /\ new = Append(es, x)
    BY <1>7, <1>d, ReceiveOtherEffect, RecoverPacketEffect, ReceivePostMortemEffect DEF c, d, in, back, es, new, m
  <2>2. Has(new, {"Conn"}) <=> Has(es, {"Conn"})
    BY <1>e, <2>1
  <2> QED
    BY <1>a, <1>m, <2>1, <2>2
<1>9. CASE RemoveConnection(s) \/ OnDisconn(s) \/ CheckTimeout(s)
  <2>1. /\ d.live = FALSE /\ wire'[s] = <<>> /\ wire'[o] = back /\ msgConn'[s] = m
        /\ new = IF c.live THEN Append(es, Disconn) ELSE es
    BY <1>9, EndEffect DEF c, d, es, new, in, back, m
  <2>2. Has(new, {"Conn"}) <=> Has(es, {"Conn"})
    BY <1>d, <1>e, <2>1
  <2> QED
    BY <1>a, <1>c, <1>m, <2>1, <2>2
<1>10. CASE HandleConn(s)
  <2>1. /\ es # <<>> /\ es[1].pkt.kind = "Conn" /\ d = c /\ wire'[s] = in /\ msgConn'[s] = m
        /\ wire'[o] = IF c.status = "Connected" /\ c.live THEN Append(back, Packet("ConnRe")) ELSE back
    BY <1>10, HandleConnEffect DEF c, d, es, new, in, back, m
  <2>2. Has(es, {"Conn"}) /\ ~HasConn(in) /\ m # "this"
    BY <1>g, <1>m, <2>1 DEF Acceptances
  <2>3. c.live /\ ~trusted => Told(wire'[o])
    <3>1. c.live /\ ~trusted => c.status = "Connected"
      BY <1>f, <2>2 DEF First
    <3> QED
      BY <1>b, <1>t, <2>1, <3>1, AnswerSteps
  <2>4. wire'[o] = back \/
            \E q \in WirePacket : /\ q.kind # "Conn" /\ (q.kind = "Data" => c.live /\ m = "this")
                                  /\ wire'[o] = Append(back, q)
    BY <1>b, <2>1
  <2> QED
    BY <1>a, <1>m, <2>1, <2>2, <2>3, <2>4
<1>11. CASE SetHalfAccepted(s)
  <2>1. /\ es # <<>> /\ es[1].pkt.kind = "SetHalfAccepted" /\ Being(d) = Being(c)
        /\ wire'[s] = in /\ wire'[o] = back /\ new = Tail(es) /\ msgConn'[s] = m
    BY <1>11, SetHalfAcceptedEffect DEF c, d, es, new, in, back, m
  <2>2. Has(es, {"SetHalfAccepted"})
    BY <1>t, <2>1, EventSteps
  <2>3. ~trusted /\ ~HasConn(in) /\ ~Has(es, {"Conn"}) /\ ~Has(new, {"Conn"})
    BY <1>f, <1>g, <2>1, <2>2 DEF First, Acceptances
  <2> QED
    BY <1>a, <2>1, <2>3 DEF Being
<1>12. CASE HandleConnRe(s)
  <2>1. /\ es # <<>> /\ es[1].pkt.kind = "ConnRe" /\ d = c
        /\ wire'[s] = in /\ wire'[o] = back /\ msgConn'[s] = m
        /\ new \in {[es EXCEPT ![1] = Event(Packet("SetAccepted"), "this")], Tail(es)}
    BY <1>12, HandleConnReEffect DEF c, d, es, new, in, back, m
  <2>2. ~HasConn(in) /\ ~Has(es, {"Conn"}) /\ ~Has(Tail(es), {"Conn"})
    BY <1>g, <2>1 DEF Acceptances
  <2>3. ~Has(new, {"Conn"})
    <3>1. \A x \in EventPacket : \A K : Has([es EXCEPT ![1] = x], K) => Has(es, K) \/ x.pkt.kind \in K
      BY <1>t, <2>1, EventSteps
    <3>2. Has([es EXCEPT ![1] = Event(Packet("SetAccepted"), "this")], {"Conn"}) => Has(es, {"Conn"})
      BY <1>d, <3>1
    <3> QED
      BY <2>1, <2>2, <3>2
  <2> QED
    BY <1>a, <1>m, <2>1, <2>2, <2>3
<1>13. CASE SetAccepted(s)
  <2>1. /\ es # <<>> /\ es[1].pkt.kind = "SetAccepted" /\ d.status = "Accepted" /\ Being(d) = Being(c)
        /\ wire'[s] = in /\ wire'[o] = back /\ new = Tail(es)
    BY <1>13, SetAcceptedEffect DEF c, d, es, new, in, back
  <2>2. ~HasConn(in) /\ ~Has(es, {"Conn"}) /\ ~Has(new, {"Conn"})
    BY <1>g, <2>1 DEF Acceptances
  <2>3. AfterAnswer(in, d)
    BY <1>t, <2>1, AnswerSteps
  <2> QED
    BY <1>a, <2>1, <2>2, <2>3 DEF Being
<1>14. CASE HandlePacket(s) \/ HandleDisconn(s)
  <2>1. /\ es # <<>> /\ new = Tail(es) /\ Being(d) = Being(c) /\ Acceptance(d) = Acceptance(c)
        /\ es[1].pkt.kind # "Conn" /\ msgConn'[s] \in {m, "other"}
        /\ wire'[s] = in /\ wire'[o] = back
    BY <1>14, HandlePacketEffect, HandleDisconnEffect DEF c, d, es, new, in, back, m
  <2>2. Has(new, {"Conn"}) <=> Has(es, {"Conn"})
    BY <1>g, <2>1
  <2>3. d.status = c.status /\ d.live = c.live
    BY <2>1 DEF Being, Acceptance
  <2> QED
    BY <1>a, <1>k, <1>m, <1>t, <2>1, <2>2, <2>3
<1> QED
  BY <1>1, <1>2, <1>3, <1>4, <1>5, <1>6, <1>7, <1>9, <1>10, <1>11, <1>12, <1>13, <1>14
     DEF Action, NetworkThread, MainThread
-----------------------------------------------------------------------------
(* The post mortem *)

(* What becomes of the queue of the other connection. *)
LEMMA QueueSteps ==
    ASSUME NEW q \in Seq(OtherPacket), NEW d, Queue(q, d)
    PROVE  /\ \A p : p.kind = "Data" \/ (p = PostMortem(d) /\ d.postMortemSent) => Queue(Append(q, p), d)
           /\ q # <<>> => /\ Queue(Tail(q), d)
                          /\ \A ps : Queue([q EXCEPT ![1] = Recovery(ps)], d)
                          /\ ~(Tail(q) # <<>> /\ Head(Tail(q)).kind = "Recovery")
           /\ \A e : (d.postMortemSent => e.postMortemSent /\ e.out = d.out /\ e.log = d.log) => Queue(q, e)
<1>1. ASSUME NEW p, p.kind = "Data" \/ (p = PostMortem(d) /\ d.postMortemSent)
      PROVE  Queue(Append(q, p), d)
  <2> DEFINE long == Append(q, p)
  <2>1. /\ DOMAIN q = 1 .. Len(q) /\ DOMAIN long = 1 .. Len(q) + 1 /\ Len(q) \in Nat
        /\ long[Len(q) + 1] = p /\ \A i \in 1 .. Len(q) : long[i] = q[i]
    BY AtEnd
  <2> HIDE DEF long
  <2>2. \A i \in DOMAIN long : (i \in DOMAIN q /\ long[i] = q[i]) \/ long[i] = p
    BY <2>1
  <2>3. p.kind # "Recovery" /\ (p.kind = "PostMortem" => d.postMortemSent /\ p = PostMortem(d))
    BY <1>1 DEF PostMortem
  <2>4. Queue(long, d)
    BY <2>2, <2>3 DEF Queue
  <2> QED
    BY <2>4 DEF long
<1>2. ASSUME q # <<>>
      PROVE  /\ Queue(Tail(q), d)
             /\ \A ps : Queue([q EXCEPT ![1] = Recovery(ps)], d)
             /\ ~(Tail(q) # <<>> /\ Head(Tail(q)).kind = "Recovery")
  <2> DEFINE t == Tail(q)
  <2>1. /\ DOMAIN q = 1 .. Len(q) /\ DOMAIN t = 1 .. Len(q) - 1 /\ Len(q) \in Nat /\ 1 \in DOMAIN q
        /\ t \in Seq(OtherPacket)
        /\ \A i \in 1 .. Len(q) - 1 : t[i] = q[i + 1]
    BY <1>2, AtFront
  <2> HIDE DEF t
  <2>2. \A i \in DOMAIN t : i + 1 \in DOMAIN q /\ t[i] = q[i + 1] /\ i + 1 # 1
    BY <2>1
  <2>3. \A i \in DOMAIN t : t[i].kind # "Recovery"
    BY <2>2 DEF Queue
  <2>4. Queue(t, d)
    BY <2>2 DEF Queue
  <2>5. t # <<>> => Head(t).kind # "Recovery"
    BY <2>1, <2>3, AtFront
  <2>6. ASSUME NEW ps PROVE Queue([q EXCEPT ![1] = Recovery(ps)], d)
    <3> DEFINE new == [q EXCEPT ![1] = Recovery(ps)]
    <3>1. /\ DOMAIN new = DOMAIN q /\ new[1] = Recovery(ps)
          /\ \A i \in DOMAIN q : i # 1 => new[i] = q[i]
      BY <2>1
    <3>2. Recovery(ps).kind = "Recovery"
      BY DEF Recovery
    <3> HIDE DEF new
    <3>3. Queue(new, d)
      BY <3>1, <3>2 DEF Queue
    <3> QED
      BY <3>3 DEF new
  <2> QED
    BY <2>4, <2>5, <2>6 DEF t
<1>3. ASSUME NEW e, d.postMortemSent => e.postMortemSent /\ e.out = d.out /\ e.log = d.log
      PROVE  Queue(q, e)
  BY <1>3 DEF Queue, PostMortem
<1> QED
  BY <1>1, <1>2, <1>3

(* After its post mortem a side neither counts nor forgets packets. *)
LEMMA SentForGood ==
    ASSUME Types, Lives, PostMortems, NEW s \in Sides, Action(s), conn[s].postMortemSent
    PROVE  conn'[s].postMortemSent /\ Counts(conn'[s]) = Counts(conn[s])
<1>1. ~conn[s].live /\ msgConn[s] = "other" /\ conn[s] \in Connection
  BY DEF PostMortems, Over, Types
<1>2. Counts(conn'[s]) = Counts(conn[s])
  <2>1. ~ReceivePing(s) /\ ~ReceiveData(s)
    BY <1>1, ReceivePingEffect, ReceiveDataEffect
  <2>2. CASE SendMessage(s)
    <3>1. Way(s) # "this" => conn'[s] = conn[s]
      BY <2>2, SendMessageEffect
    <3> QED
      BY <1>1, <3>1 DEF Way
  <2> QED
    BY <2>1, <2>2, CountsKept
<1>3. conn'[s].postMortemSent = conn[s].postMortemSent \/ conn'[s].postMortemSent = TRUE
  <2>1. CASE RemoveConnection(s) \/ OnDisconn(s) \/ CheckTimeout(s)
    BY <2>1, EndEffect
  <2>2. CASE SendMessage(s) \/ SendPing(s)
    BY <2>2, SendMessageEffect, SendPingEffect
  <2>3. CASE ReceiveConn(s) \/ ReceiveConnRe(s) \/ ReceivePing(s) \/ ReceiveData(s)
    BY <1>1, <2>3, ReceiveConnEffect, ReceiveConnReEffect, ReceivePingEffect, ReceiveDataEffect
  <2>4. CASE ReceiveOther(s) \/ ReceivePostMortem(s) \/ RecoverPacket(s)
    BY <2>4, ReceiveOtherEffect, ReceivePostMortemEffect, RecoverPacketEffect
  <2>5. CASE HandleConn(s) \/ HandleConnRe(s) \/ HandlePacket(s)
    BY <2>5, HandleConnEffect, HandleConnReEffect, HandlePacketEffect
  <2>6. CASE SetHalfAccepted(s) \/ SetAccepted(s)
    BY <2>6, SetHalfAcceptedEffect, SetAcceptedEffect
  <2>7. CASE HandleDisconn(s)
    BY <2>7, HandleDisconnEffect
  <2> QED
    BY <2>1, <2>2, <2>3, <2>4, <2>5, <2>6, <2>7 DEF Action, NetworkThread, MainThread
<1> QED
  BY <1>2, <1>3

(* What the other side gets while it is in the middle of a post mortem, or *)
(* is not.                                                                 *)
LEMMA OtherQueue ==
    ASSUME Types, Lives, NEW s \in Sides, Action(s)
    PROVE  LET o == Other(s)
               d == conn'[s]
           IN  /\ \/ other'[o] = other[o]
                  \/ \E p \in OtherPacket :
                        /\ p.kind = "Data" \/ (p = PostMortem(d) /\ d.postMortemSent)
                        /\ other'[o] = Append(other[o], p)
               /\ Busy(o)' <=> Busy(o)
               /\ Busy(o) => Head(other'[o]) = Head(other[o])
<1> DEFINE o == Other(s)
           c == conn[s]
           d == conn'[s]
           q == other[o]
<1>0. o \in Sides /\ c \in Connection /\ q \in Seq(OtherPacket) /\ other[o] \in Seq(OtherPacket)
  BY TwoSides DEF Types
<1>p. MessagePacket \subseteq OtherPacket /\ \A p \in MessagePacket : p.kind = "Data"
  BY Packets
<1> HIDE DEF c, d, q
<1>1. \/ other'[o] = q
      \/ \E p \in OtherPacket :
            /\ p.kind = "Data" \/ (p = PostMortem(d) /\ d.postMortemSent)
            /\ other'[o] = Append(q, p)
  <2>1. CASE RemoveConnection(s) \/ OnDisconn(s) \/ CheckTimeout(s)
    BY <2>1, EndEffect DEF q
  <2>2. CASE SendMessage(s)
    <3> DEFINE on == Way(s)
               p == NewPacket(s)
    <3>1. /\ on # "none" => p \in MessagePacket
          /\ other'[o] = IF on = "other" THEN Append(q, p) ELSE q
      BY <2>2, SendMessageEffect DEF q
    <3> HIDE DEF on, p
    <3> QED
      BY <1>p, <3>1
  <2>3. CASE ReceiveConn(s) \/ ReceiveConnRe(s) \/ ReceivePing(s) \/ ReceiveData(s) \/ SendPing(s)
    BY <2>3, ReceiveConnEffect, ReceiveConnReEffect, ReceivePingEffect, ReceiveDataEffect, SendPingEffect DEF q
  <2>4. CASE ReceiveOther(s) \/ ReceivePostMortem(s) \/ RecoverPacket(s)
    BY <2>4, ReceiveOtherEffect, ReceivePostMortemEffect, RecoverPacketEffect DEF q
  <2>5. CASE HandleConn(s) \/ HandleConnRe(s) \/ HandlePacket(s)
    BY <2>5, HandleConnEffect, HandleConnReEffect, HandlePacketEffect DEF q
  <2>6. CASE SetHalfAccepted(s) \/ SetAccepted(s)
    BY <2>6, SetHalfAcceptedEffect, SetAcceptedEffect DEF q
  <2>7. CASE HandleDisconn(s)
    <3> DEFINE sends == c.status # "ConnectFail" /\ CreatePostMortem(c)
    <3>1. /\ Counts(d) = Counts(c)
          /\ sends => d.postMortemSent = TRUE
          /\ other'[o] = IF sends THEN Append(q, PostMortem(c)) ELSE q
      BY <2>7, HandleDisconnEffect DEF c, d, q
    <3> HIDE DEF sends
    <3>2. PostMortem(c) = PostMortem(d) /\ PostMortem(c) \in OtherPacket
      BY <1>0, <3>1, ConnectionTypes DEF PostMortem, Counts
    <3> QED
      BY <3>1, <3>2
  <2> QED
    BY <2>1, <2>2, <2>3, <2>4, <2>5, <2>6, <2>7 DEF Action, NetworkThread, MainThread
<1>2. ASSUME NEW p \in OtherPacket, p.kind # "Recovery", other'[o] = Append(q, p)
      PROVE  /\ (other'[o] # <<>> /\ Head(other'[o]).kind = "Recovery") <=> (q # <<>> /\ Head(q).kind = "Recovery")
             /\ q # <<>> => Head(other'[o]) = Head(q)
  <2>1. CASE q = <<>>
    <3>1. Append(q, p) = <<p>> /\ Head(<<p>>) = p
      BY <2>1
    <3> QED
      BY <1>2, <2>1, <3>1
  <2>2. CASE q # <<>>
    <3>1. Append(q, p) # <<>> /\ Head(Append(q, p)) = Head(q)
      BY <1>0, <2>2
    <3> QED
      BY <1>2, <2>2, <3>1
  <2> QED
    BY <2>1, <2>2
<1>3. /\ (other'[o] # <<>> /\ Head(other'[o]).kind = "Recovery") <=> (q # <<>> /\ Head(q).kind = "Recovery")
      /\ q # <<>> => Head(other'[o]) = Head(q)
  <2>1. \A p : p.kind = "Data" \/ p = PostMortem(d) => p.kind # "Recovery"
    BY DEF PostMortem
  <2> QED
    BY <1>1, <1>2, <2>1
<1> QED
  BY <1>1, <1>3 DEF Busy, d, q

(* Every step keeps the one post mortem of a side the last that it does    *)
(* with the connection.                                                    *)
LEMMA NextPostMortems ==
    ASSUME Types, Types', Lives, Firsts, PostMortems, NEW s \in Sides, Action(s)
    PROVE  PostMortems'
<1> DEFINE o == Other(s)
           c == conn[s]
           d == conn'[s]
           e == conn[o]
           es == events[s]
           new == events'[s]
           q == other[s]
           m == msgConn[s]
           trusted == setting.trusts[s]
           K == {"ConnRe", "SetAccepted", "Disconn"}
<1>0. /\ o # s /\ o \in Sides /\ Other(o) = s /\ Sides = {s, o}
      /\ conn'[o] = e /\ events'[o] = events[o] /\ setting' = setting /\ msgConn'[o] = msgConn[o]
      /\ recovered'[o] = recovered[o]
  BY TwoSides, OwnSide
<1>t. /\ c \in Connection /\ d \in Connection /\ es \in Seq(EventPacket) /\ q \in Seq(OtherPacket)
      /\ other[o] \in Seq(OtherPacket) /\ m \in {"this", "other"}
  BY <1>0 DEF Types
<1>q. /\ Queue(q, e) /\ Queue(other[o], c)
      /\ c.postMortemSent => Over(c, m, es)
      /\ Busy(s) \/ recovered[s] # "no" => e.postMortemSent
      /\ Busy(s) => c.listed /\ (trusted /\ recovered[s] = "Accepted" => c.status = "Accepted")
  BY <1>0 DEF PostMortems
<1>s. c.postMortemSent => d.postMortemSent /\ d.out = c.out /\ d.log = c.log
  BY SentForGood DEF Counts
<1>f. trusted => ~Has(es, {"SetHalfAccepted"})
  BY DEF Firsts, First
<1>l. c.live => c.listed
  BY DEF Lives, Living
(* It is enough to look at the side that takes the step. *)
<1>a. ASSUME d.postMortemSent => Over(d, msgConn'[s], new),
             Queue(other'[s], e),
             Busy(s)' => /\ d.listed /\ e.postMortemSent
                         /\ trusted /\ recovered'[s] = "Accepted" => d.status = "Accepted",
             recovered'[s] # "no" => e.postMortemSent
      PROVE  PostMortems'
  <2>1. Queue(other'[o], d)
    <3>1. Queue(other[o], d)
      BY <1>q, <1>s, <1>t, QueueSteps
    <3>2. \/ other'[o] = other[o]
          \/ \E p \in OtherPacket :
                /\ p.kind = "Data" \/ (p = PostMortem(d) /\ d.postMortemSent)
                /\ other'[o] = Append(other[o], p)
      BY OtherQueue
    <3>3. \A p : p.kind = "Data" \/ (p = PostMortem(d) /\ d.postMortemSent) => Queue(Append(other[o], p), d)
      BY <1>t, <3>1, QueueSteps
    <3> QED
      BY <3>1, <3>2, <3>3
  <2>2. Busy(o)' <=> Busy(o)
    BY OtherQueue
  <2>3. /\ conn'[o].postMortemSent => Over(conn'[o], msgConn'[o], events'[o])
        /\ Queue(other'[o], conn'[s])
        /\ Busy(o)' => conn'[o].listed
        /\ Busy(o)' \/ recovered'[o] # "no" => conn'[s].postMortemSent
        /\ Busy(o)' /\ setting'.trusts[o] /\ recovered'[o] = "Accepted" => conn'[o].status = "Accepted"
    BY <1>0, <1>s, <2>1, <2>2 DEF PostMortems
  <2>4. /\ conn'[s].postMortemSent => Over(conn'[s], msgConn'[s], events'[s])
        /\ Queue(other'[s], conn'[o])
        /\ Busy(s)' => conn'[s].listed
        /\ Busy(s)' \/ recovered'[s] # "no" => conn'[o].postMortemSent
        /\ Busy(s)' /\ setting'.trusts[s] /\ recovered'[s] = "Accepted" => conn'[s].status = "Accepted"
    BY <1>0, <1>a
  <2> QED
    BY <1>0, <2>3, <2>4 DEF PostMortems
<1> HIDE DEF c, d, e, es, new, q, m, trusted
<1>b. Busy(s) <=> q # <<>> /\ Head(q).kind = "Recovery"
  BY DEF Busy, q
<1>b1. Busy(s)' <=> other'[s] # <<>> /\ Head(other'[s]).kind = "Recovery"
  BY DEF Busy
<1>d. /\ Event(Packet("Conn"), "this").pkt.kind = "Conn" /\ Event(Packet("Conn"), "this") \in EventPacket
      /\ Event(Packet("SetHalfAccepted"), "this").pkt.kind = "SetHalfAccepted"
      /\ Event(Packet("SetHalfAccepted"), "this") \in EventPacket
      /\ \A p \in MessagePacket, by \in {"this", "other"} :
            Event(p, by).pkt.kind = "Data" /\ Event(p, by) \in EventPacket
  BY Packets DEF Event, Packet
<1>e. /\ \A x \in EventPacket : Has(Append(es, x), K) <=> Has(es, K) \/ x.pkt.kind \in K
      /\ es # <<>> => /\ es[1].pkt.kind \in K => Has(es, K)
                      /\ Has(Tail(es), K) => Has(es, K)
                      /\ \A x \in EventPacket : Has([es EXCEPT ![1] = x], K) => Has(es, K) \/ x.pkt.kind \in K
  <2>1. \A x \in EventPacket : \A L : Has(Append(es, x), L) <=> Has(es, L) \/ x.pkt.kind \in L
    BY <1>t, EventSteps
  <2>2. es # <<>> =>
          /\ \A L : es[1].pkt.kind \in L => Has(es, L)
          /\ \A L : Has(Tail(es), L) => Has(es, L)
    BY <1>t, EventSteps
  <2>3. es # <<>> => \A x \in EventPacket : \A L : Has([es EXCEPT ![1] = x], L) => Has(es, L) \/ x.pkt.kind \in L
    BY <1>t, EventSteps
  <2> HIDE DEF K
  <2> QED
    BY <2>1, <2>2, <2>3
(* The post mortem stays the last a side does. *)
<1>o. ASSUME d.postMortemSent = c.postMortemSent, d.live => c.live, msgConn'[s] \in {m, "other"},
             Has(new, K) => Has(es, K) \/ c.live
      PROVE  d.postMortemSent => Over(d, msgConn'[s], new)
  BY <1>o, <1>q DEF Over
(* The other connection brings nothing. *)
<1>p. ASSUME d.postMortemSent => Over(d, msgConn'[s], new), other'[s] = q, recovered'[s] = recovered[s],
             Busy(s) => d.listed = c.listed /\ (trusted => d.status = c.status \/ d.status = "Accepted")
      PROVE  PostMortems'
  BY <1>a, <1>b, <1>b1, <1>p, <1>q
<1>1. CASE SendMessage(s) \/ SendPing(s)
  <2>1. /\ Being(d) = Being(c) /\ Acceptance(d) = Acceptance(c) /\ d.postMortemSent = c.postMortemSent
        /\ new = es /\ msgConn'[s] = m /\ other'[s] = q /\ recovered'[s] = recovered[s]
    BY <1>1, SendMessageEffect, SendPingEffect DEF c, d, es, new, m, q
  <2>2. d.status = c.status /\ d.listed = c.listed /\ d.live = c.live
    BY <2>1 DEF Being, Acceptance
  <2>3. d.postMortemSent => Over(d, msgConn'[s], new)
    BY <1>o, <2>1, <2>2
  <2> QED
    BY <1>p, <2>1, <2>2, <2>3
<1>2. CASE ReceiveConn(s) \/ ReceiveConnRe(s)
  <2>1. /\ ~Busy(s) /\ c.live /\ Being(d) = Being(c) /\ d.postMortemSent = c.postMortemSent
        /\ msgConn'[s] = m /\ other'[s] = q /\ recovered'[s] = recovered[s]
    BY <1>2, ReceiveConnEffect, ReceiveConnReEffect DEF c, d, m, q
  <2>2. d.live = c.live
    BY <2>1 DEF Being
  <2>3. d.postMortemSent => Over(d, msgConn'[s], new)
    BY <1>o, <2>1, <2>2
  <2> QED
    BY <1>p, <2>1, <2>3
<1>3. CASE ReceivePing(s) \/ ReceiveData(s)
  <2>1. /\ ~Busy(s) /\ c.live /\ msgConn'[s] = m /\ other'[s] = q /\ recovered'[s] = recovered[s]
    BY <1>3, ReceivePingEffect, ReceiveDataEffect DEF c, m, q
  <2>2. Being(d) = Being(c) /\ d.postMortemSent = c.postMortemSent
    BY <1>3, <1>t, ReceivePingEffect, ReceiveDataEffect, PingFields DEF c, d
  <2>3. d.live = c.live
    BY <2>2 DEF Being
  <2>4. d.postMortemSent => Over(d, msgConn'[s], new)
    BY <1>o, <2>1, <2>2, <2>3
  <2> QED
    BY <1>p, <2>1, <2>4
<1>4. CASE ReceiveOther(s)
  <2>1. /\ ~Busy(s) /\ q # <<>> /\ other'[s] = Tail(q) /\ d = c /\ msgConn'[s] = m /\ recovered'[s] = recovered[s]
        /\ new = es \/ \E x \in EventPacket : x.pkt.kind = "Data" /\ new = Append(es, x)
    BY <1>4, <1>d, ReceiveOtherEffect DEF c, d, es, new, m, q
  <2>2. d.postMortemSent => Over(d, msgConn'[s], new)
    BY <1>e, <1>o, <2>1
  <2>3. Queue(Tail(q), e) /\ ~(Tail(q) # <<>> /\ Head(Tail(q)).kind = "Recovery")
    BY <1>q, <1>t, <2>1, QueueSteps
  <2> QED
    BY <1>a, <1>b1, <1>q, <2>1, <2>2, <2>3
<1>5. CASE ReceivePostMortem(s)
  <2>1. /\ ~Busy(s) /\ q # <<>> /\ q[1].kind = "PostMortem" /\ d = c /\ msgConn'[s] = m /\ new = es
        /\ other'[s] = IF c.listed THEN [q EXCEPT ![1] = Recovery(PacketsFrom(q[1], c.in))] ELSE Tail(q)
        /\ recovered'[s] = IF c.listed THEN c.status ELSE recovered[s]
    BY <1>5, ReceivePostMortemEffect DEF c, d, es, new, m, q
  <2>2. d.postMortemSent => Over(d, msgConn'[s], new)
    BY <1>o, <2>1
  <2>3. Queue(other'[s], e) /\ (~c.listed => ~Busy(s)')
    BY <1>b1, <1>q, <1>t, <2>1, QueueSteps
  <2>4. e.postMortemSent
    BY <1>q, <1>t, <2>1, AtFront DEF Queue
  <2> QED
    BY <1>a, <2>1, <2>2, <2>3, <2>4
<1>6. CASE RecoverPacket(s)
  <2>1. /\ Busy(s) /\ q # <<>> /\ d = c /\ msgConn'[s] = m /\ recovered'[s] = recovered[s]
        /\ \E ps : other'[s] = [q EXCEPT ![1] = Recovery(ps)]
        /\ new = es \/ \E x \in EventPacket : x.pkt.kind = "Data" /\ new = Append(es, x)
    BY <1>6, <1>d, RecoverPacketEffect DEF c, d, es, new, m, q
  <2>2. d.postMortemSent => Over(d, msgConn'[s], new)
    BY <1>e, <1>o, <2>1
  <2>3. Queue(other'[s], e)
    BY <1>q, <1>t, <2>1, QueueSteps
  <2> QED
    BY <1>a, <1>q, <2>1, <2>2, <2>3
<1>7. CASE RemoveConnection(s) \/ OnDisconn(s) \/ CheckTimeout(s)
  <2>1. /\ Busy(s) <=> RemoveConnection(s)
        /\ d.postMortemSent = c.postMortemSent /\ d.live = FALSE /\ msgConn'[s] = m
        /\ recovered'[s] = recovered[s]
        /\ other'[s] = IF RemoveConnection(s) THEN Tail(q) ELSE q
        /\ new = es \/ c.live
    BY <1>7, EndEffect DEF c, d, es, new, m, q
  <2>2. d.postMortemSent => Over(d, msgConn'[s], new)
    BY <1>o, <2>1
  <2>3. Queue(other'[s], e) /\ ~Busy(s)'
    <3>1. CASE RemoveConnection(s)
      BY <1>b, <1>b1, <1>q, <1>t, <2>1, <3>1, QueueSteps
    <3>2. CASE ~RemoveConnection(s)
      BY <1>b, <1>b1, <1>q, <2>1, <3>2
    <3> QED
      BY <3>1, <3>2
  <2> QED
    BY <1>a, <1>q, <2>1, <2>2, <2>3
<1>8. CASE HandleConn(s) \/ HandlePacket(s)
  <2>1. /\ es # <<>> /\ d = c /\ msgConn'[s] = m /\ other'[s] = q /\ recovered'[s] = recovered[s]
        /\ new \in {[es EXCEPT ![1] = Event(Packet("SetHalfAccepted"), "this")], Tail(es)}
    BY <1>8, HandleConnEffect, HandlePacketEffect DEF c, d, es, new, m, q
  <2>2. Has(new, K) => Has(es, K)
    BY <1>d, <1>e, <2>1
  <2>3. d.postMortemSent => Over(d, msgConn'[s], new)
    BY <1>o, <2>1, <2>2
  <2> QED
    BY <1>p, <2>1, <2>3
<1>9. CASE SetHalfAccepted(s)
  <2>1. /\ es # <<>> /\ es[1].pkt.kind = "SetHalfAccepted" /\ Being(d) = Being(c)
        /\ d.postMortemSent = c.postMortemSent
        /\ new = Tail(es) /\ msgConn'[s] = m /\ other'[s] = q /\ recovered'[s] = recovered[s]
    BY <1>9, SetHalfAcceptedEffect DEF c, d, es, new, m, q
  <2>2. Has(es, {"SetHalfAccepted"})
    BY <1>t, <2>1, EventSteps
  <2>3. d.live = c.live /\ d.listed = c.listed
    BY <2>1 DEF Being
  <2>4. d.postMortemSent => Over(d, msgConn'[s], new)
    BY <1>e, <1>o, <2>1, <2>3
  <2> QED
    BY <1>f, <1>p, <2>1, <2>2, <2>3, <2>4
<1>10. CASE HandleConnRe(s)
  <2>1. /\ es # <<>> /\ es[1].pkt.kind = "ConnRe" /\ d = c
        /\ msgConn'[s] = m /\ other'[s] = q /\ recovered'[s] = recovered[s]
    BY <1>10, HandleConnReEffect DEF c, d, es, m, q
  <2>2. Has(es, K)
    BY <1>e, <2>1
  <2>3. d.postMortemSent => Over(d, msgConn'[s], new)
    BY <1>o, <2>1, <2>2
  <2> QED
    BY <1>p, <2>1, <2>3
<1>11. CASE SetAccepted(s)
  <2>1. /\ es # <<>> /\ es[1].pkt.kind = "SetAccepted" /\ d.status = "Accepted" /\ Being(d) = Being(c)
        /\ d.postMortemSent = c.postMortemSent /\ other'[s] = q /\ recovered'[s] = recovered[s]
    BY <1>11, SetAcceptedEffect DEF c, d, es, q
  <2>2. ~d.postMortemSent
    BY <1>e, <1>q, <2>1 DEF Over
  <2>3. d.listed = c.listed
    BY <2>1 DEF Being
  <2> QED
    BY <1>p, <2>1, <2>2, <2>3
<1>12. CASE HandleDisconn(s)
  <2>1. /\ es # <<>> /\ es[1].pkt.kind = "Disconn" /\ new = Tail(es)
        /\ Being(d) = Being(c) /\ Acceptance(d) = Acceptance(c)
        /\ d.postMortemSent = c.postMortemSent \/ msgConn'[s] = "other"
        /\ msgConn'[s] \in {m, "other"} /\ other'[s] = q /\ recovered'[s] = recovered[s]
    BY <1>12, HandleDisconnEffect DEF c, d, es, new, m, q
  <2>2. d.status = c.status /\ d.live = c.live /\ d.listed = c.listed
    BY <2>1 DEF Being, Acceptance
  <2>3. ~c.live /\ ~Has(Tail(es), K)
    <3>1. \A i \in DOMAIN es : es[i].pkt.kind = "Disconn" =>
            ~c.live /\ \A j \in DOMAIN es : i < j => es[j].pkt.kind \notin K
      BY DEF Lives, Living, c, es
    <3>2. 1 \in DOMAIN es /\ \A i \in DOMAIN Tail(es) : i + 1 \in DOMAIN es /\ 1 < i + 1 /\ Tail(es)[i] = es[i + 1]
      BY <1>t, <2>1, AtFront
    <3> QED
      BY <2>1, <3>1, <3>2 DEF Has
  <2>4. d.postMortemSent => Over(d, msgConn'[s], new)
    BY <1>o, <2>1, <2>2, <2>3 DEF Over
  <2> QED
    BY <1>p, <2>1, <2>2, <2>4
<1> QED
  BY <1>1, <1>2, <1>3, <1>4, <1>5, <1>6, <1>7, <1>8, <1>9, <1>10, <1>11, <1>12
     DEF Action, NetworkThread, MainThread
-----------------------------------------------------------------------------
(* What is handled *)

(* What is handled stays handled. *)
LEMMA HandledKept ==
    ASSUME Types, Lives, NEW s \in Sides, Action(s)
    PROVE  /\ handled'[s] = handled[s] \/ \E p \in MessagePacket : handled'[s] = Append(handled[s], p)
           /\ \A n : IsHandled(s, n) => IsHandled(s, n)'
<1> DEFINE h == handled[s]
           new == handled'[s]
<1>1. new = h \/ \E p \in MessagePacket : new = Append(h, p)
  <2>1. CASE RemoveConnection(s) \/ OnDisconn(s) \/ CheckTimeout(s)
    BY <2>1, EndEffect
  <2>2. CASE SendMessage(s) \/ SendPing(s)
    BY <2>2, SendMessageEffect, SendPingEffect
  <2>3. CASE ReceiveConn(s) \/ ReceiveConnRe(s) \/ ReceivePing(s) \/ ReceivePostMortem(s)
    BY <2>3, ReceiveConnEffect, ReceiveConnReEffect, ReceivePingEffect, ReceivePostMortemEffect
  <2>4. CASE ReceiveData(s)
    BY <2>4, ReceiveDataEffect
  <2>5. CASE ReceiveOther(s)
    BY <2>5, ReceiveOtherEffect
  <2>6. CASE RecoverPacket(s)
    BY <2>6, RecoverPacketEffect
  <2>7. CASE HandlePacket(s)
    BY <2>7, HandlePacketEffect
  <2>8. CASE HandleConn(s) \/ HandleConnRe(s) \/ HandleDisconn(s)
    BY <2>8, HandleConnEffect, HandleConnReEffect, HandleDisconnEffect
  <2>9. CASE SetHalfAccepted(s) \/ SetAccepted(s)
    BY <2>9, SetHalfAcceptedEffect, SetAcceptedEffect
  <2> QED
    BY <2>1, <2>2, <2>3, <2>4, <2>5, <2>6, <2>7, <2>8, <2>9 DEF Action, NetworkThread, MainThread
<1>2. \A i \in DOMAIN h : i \in DOMAIN new /\ new[i] = h[i]
  <2>1. h \in Seq(MessagePacket)
    BY DEF Types
  <2> HIDE DEF h, new
  <2>2. ASSUME NEW p, new = Append(h, p) PROVE \A i \in DOMAIN h : i \in DOMAIN new /\ new[i] = h[i]
    BY <2>1, <2>2, AtEnd
  <2> QED
    BY <1>1, <2>2
<1>3. \A n : IsHandled(s, n) => IsHandled(s, n)'
  BY <1>2 DEF IsHandled, HasNr
<1> QED
  BY <1>1, <1>3

(* A packet that is handled. *)
LEMMA NowHandled ==
    ASSUME NEW h \in Seq(MessagePacket), NEW p \in MessagePacket
    PROVE  HasNr(Append(h, p), p.nr)
<1>1. /\ Append(h, p)[Len(h) + 1] = p /\ DOMAIN Append(h, p) = 1 .. Len(h) + 1 /\ Len(h) \in Nat
  BY AtEnd
<1>2. Len(h) + 1 \in DOMAIN Append(h, p)
  BY <1>1
<1> QED
  BY <1>1, <1>2 DEF HasNr

(* The next packet that arrives is the one of that number in the log, and  *)
(* comes to a connection that is accepted.                                 *)
LEMMA NextOfLog ==
    ASSUME Types, Lives, Genuine, Logs, Wires, Answers, NEW s \in Sides, ReceiveData(s), setting.trusts[s]
    PROVE  LET e == conn[Other(s)]
               p == wire[s][1]
           IN  /\ conn[s].status = "Accepted"
               /\ \A k \in DOMAIN e.log : e.log[k].number = conn[s].in => e.log[k] = p
<1> DEFINE o == Other(s)
           c == conn[s]
           e == conn[o]
           w == wire[s]
           p == w[1]
<1>0. o \in Sides /\ Other(o) = s
  BY TwoSides
<1>1. /\ c.live /\ w # <<>> /\ p.kind = "Data"
  BY ReceiveDataEffect
<1>2. /\ c \in Connection /\ e \in Connection /\ w \in Seq(WirePacket) /\ OnItsWay(w, c, e)
      /\ Numbered(e.log, LogStart(e)) /\ LogStart(e) \in 0 .. c.in
      /\ AfterAnswer(w, c)
  BY <1>0, <1>1 DEF Types, Wires, Logs, Logged, Answers, Answered
<1> HIDE DEF c, e, w
<1>3. p.number = c.in /\ c.in < e.out
  BY <1>1, <1>2, NextOne
<1>4. DOMAIN w = 1 .. Len(w) /\ 1 \in DOMAIN w /\ \A j \in DOMAIN w : ~(j < 1)
  BY <1>1, <1>2, AtFront
<1>5. c.status = "Accepted"
  BY <1>1, <1>2, <1>4 DEF AfterAnswer
<1>6. p = e.log[c.in - LogStart(e) + 1]
  BY <1>1, <1>2, <1>3, <1>4 DEF OnItsWay
<1>7. ASSUME NEW k \in DOMAIN e.log, e.log[k].number = c.in PROVE e.log[k] = p
  <2>1. e.log \in Seq(MessagePacket) /\ k \in Int /\ c.in \in Int /\ LogStart(e) \in Int
    BY <1>2 DEF Connection
  <2>2. c.in = LogStart(e) + k - 1
    BY <1>2, <1>7 DEF Numbered
  <2>3. k = c.in - LogStart(e) + 1
    BY <2>1, <2>2
  <2> QED
    BY <1>6, <2>3
<1> QED
  BY <1>5, <1>7 DEF c, e, w

(* The log keeps what the other side has not received when it loses what   *)
(* a ping tells.                                                           *)
LEMMA KeptInLog ==
    ASSUME NEW c \in Connection, NEW e \in Connection, Logged(c, e), NEW u \in Nat, u <= e.in,
           NEW n, InLog(c.log, n, e.in)
    PROVE  InLog(ClearPacketLog(c, u).log, n, e.in)
<1> DEFINE d == ClearPacketLog(c, u)
<1>1. /\ LogStart(c) \in 0 .. e.in /\ e.in <= c.out /\ Numbered(c.log, LogStart(c))
      /\ e.in \in Nat /\ c.out \in Nat /\ c.log \in Seq(MessagePacket)
  BY DEF Logged, Connection
<1>2. u <= c.out /\ LogStart(c) >= 0
  BY <1>1
<1>3. PICK m \in 0 .. Len(c.log) :
        /\ Len(d.log) = Len(c.log) - m
        /\ \A k \in 1 .. Len(c.log) - m : d.log[k] = c.log[k + m]
        /\ LogStart(d) = LogStart(c) + m
  BY <1>2, ClearFields
<1>4. LogStart(d) \in {LogStart(c), u} /\ d \in Connection
  BY <1>2, ClearFields, ConnectionTypes
<1> HIDE DEF d
<1>5. PICK k \in DOMAIN c.log : c.log[k].nr = n /\ c.log[k].number >= e.in
  BY DEF InLog
<1>6. /\ k \in 1 .. Len(c.log) /\ Len(c.log) \in Nat /\ DOMAIN d.log = 1 .. Len(d.log)
  BY <1>1, <1>4 DEF Connection
<1>7. LogStart(c) + k - 1 >= e.in
  BY <1>1, <1>5 DEF Numbered
<1>8. LogStart(c) + m <= e.in
  BY <1>1, <1>3, <1>4
<1>9. k - m \in 1 .. Len(c.log) - m
  <2> DEFINE first == LogStart(c)
             len == Len(c.log)
  <2>1. /\ first \in Int /\ e.in \in Int /\ k \in Int /\ m \in Int /\ len \in Int /\ k <= len
        /\ first + k - 1 >= e.in /\ first + m <= e.in
    BY <1>1, <1>3, <1>6, <1>7, <1>8
  <2> HIDE DEF first, len
  <2>2. m <= k - 1 /\ k - m <= len - m
    BY <2>1
  <2> USE DEF len
  <2> QED
    BY <2>1, <2>2
<1>10. k - m \in DOMAIN d.log /\ d.log[k - m] = c.log[k]
  <2>1. (k - m) + m = k
    BY <1>3, <1>6
  <2> QED
    BY <1>3, <1>6, <1>9, <2>1
<1> QED
  BY <1>5, <1>10 DEF InLog, d

(* Every step keeps each message to the network thread handled or in the   *)
(* log of the sender from the number on that the receiver counts next.     *)
LEMMA NextKept ==
    ASSUME Types, Types', Lives, Genuine, Logs, Wires, Answers, Kept, NEW s \in Sides, Action(s)
    PROVE  Kept'
<1> DEFINE o == Other(s)
           c == conn[s]
           d == conn'[s]
           e == conn[o]
<1>0. /\ o # s /\ o \in Sides /\ Other(o) = s /\ Sides = {s, o} /\ conn'[o] = e /\ setting' = setting
      /\ handled'[o] = handled[o] /\ sent'[o] = sent[o]
  BY TwoSides, OwnSide
<1>t. /\ c \in Connection /\ d \in Connection /\ e \in Connection /\ c.in \in Nat
      /\ e.log \in Seq(MessagePacket) /\ handled[s] \in Seq(MessagePacket)
      /\ sent[s] \in Seq({"this", "other", "none"})
  BY <1>0 DEF Types, Connection
<1> HIDE DEF c, d, e
(* What s receives. *)
<1>1. setting.trusts[s] => \A n \in 1 .. Len(sent[o]) : Awaited(s, n)' => InLog(e.log, n, d.in)
  <2> SUFFICES ASSUME setting.trusts[s], NEW n \in 1 .. Len(sent[o]), Awaited(s, n)'
               PROVE  InLog(e.log, n, d.in)
    OBVIOUS
  <2>1. ~IsHandled(s, n)' /\ ~IsHandled(s, n) /\ ~setting.messages[o][n].main
    BY <1>0, HandledKept DEF Awaited
  <2>2. Awaited(s, n)
    BY <1>0, <2>1 DEF Awaited
  <2>3. InLog(e.log, n, c.in)
    BY <2>2 DEF Kept, c, e
  <2>4. CASE ReceiveData(s)
    <3> DEFINE p == wire[s][1]
    <3>1. /\ d.in = c.in + 1 /\ p \in MessagePacket
          /\ handled'[s] = IF c.status = "Accepted" /\ ~p.main THEN Append(handled[s], p) ELSE handled[s]
      BY <2>4, ReceiveDataEffect DEF c, d
    <3>2. c.status = "Accepted" /\ \A k \in DOMAIN e.log : e.log[k].number = c.in => e.log[k] = p
      BY <2>4, NextOfLog DEF c, e
    <3> HIDE DEF p
    <3>3. PICK k \in DOMAIN e.log : e.log[k].nr = n /\ e.log[k].number >= c.in
      BY <2>3 DEF InLog
    <3>4. e.log[k].number # c.in
      <4> SUFFICES ASSUME e.log[k].number = c.in PROVE FALSE
        OBVIOUS
      <4>1. e.log[k] = p
        BY <3>2
      <4>2. e.log \in Seq(SentBy(o))
        BY <1>0 DEF Genuine, e
      <4>3. p \in SentBy(o)
        BY <4>1, <4>2, Elements
      <4>4. p.main = setting.messages[o][n].main
        BY <3>3, <4>1, <4>3 DEF SentBy
      <4>5. handled'[s] = Append(handled[s], p)
        BY <2>1, <3>1, <3>2, <4>4
      <4>6. HasNr(handled'[s], p.nr)
        BY <1>t, <3>1, <4>5, NowHandled
      <4> QED
        BY <2>1, <3>3, <4>1, <4>6 DEF IsHandled
    <3>5. e.log[k].number \in Nat
      BY <1>t, Elements, Packets
    <3>6. e.log[k].number >= d.in
      BY <1>t, <3>1, <3>3, <3>4, <3>5
    <3> QED
      BY <3>3, <3>6 DEF InLog
  <2>5. CASE ~ReceiveData(s)
    <3>1. d.in = c.in
      <4>1. CASE SendMessage(s)
        BY <4>1, SendMessageEffect DEF c, d
      <4>2. CASE ReceivePing(s)
        BY <1>t, <4>2, ReceivePingEffect, PingFields DEF c, d
      <4> QED
        BY <2>5, <4>1, <4>2, CountsKept DEF Counts, c, d
    <3> QED
      BY <2>3, <3>1
  <2> QED
    BY <2>4, <2>5
(* What s sends. *)
<1>2. setting.trusts[o] => \A n \in 1 .. Len(sent'[s]) : Awaited(o, n)' => InLog(d.log, n, e.in)
  <2> SUFFICES ASSUME setting.trusts[o], NEW n \in 1 .. Len(sent'[s]), Awaited(o, n)'
               PROVE  InLog(d.log, n, e.in)
    OBVIOUS
  <2>1. sent'[s][n] = "this" /\ ~setting.messages[s][n].main /\ ~IsHandled(o, n)
    BY <1>0 DEF Awaited, IsHandled
  <2>2. n \in 1 .. Len(sent[s]) /\ sent[s][n] = "this" => InLog(c.log, n, e.in)
    BY <1>0, <2>1 DEF Kept, Awaited, c, e
  <2>w. Logged(c, e) /\ OnItsWay(wire[s], c, e)
    BY DEF Logs, Wires, c, e
  <2>3. CASE SendMessage(s)
    <3> DEFINE on == Way(s)
               p == NewPacket(s)
    <3>1. /\ sent'[s] = Append(sent[s], on)
          /\ on = "this" => /\ p \in MessagePacket /\ p.nr = Len(sent[s]) + 1 /\ p.number = c.out
                            /\ d.log = Append(c.log, p)
          /\ on # "this" => d = c
      BY <2>3, SendMessageEffect DEF c, d
    <3> HIDE DEF on, p
    <3>2. \/ n \in 1 .. Len(sent[s]) /\ sent'[s][n] = sent[s][n]
          \/ n = Len(sent[s]) + 1 /\ sent'[s][n] = on
      BY <1>t, <3>1
    <3>3. CASE on = "this"
      <4>1. c.log \in Seq(MessagePacket) /\ e.in <= c.out
        BY <1>t, <2>w DEF Connection, Logged
      <4>2. /\ d.log[Len(c.log) + 1] = p /\ Len(c.log) + 1 \in DOMAIN d.log
            /\ \A k \in DOMAIN c.log : k \in DOMAIN d.log /\ d.log[k] = c.log[k]
        <5>1. /\ Append(c.log, p)[Len(c.log) + 1] = p /\ DOMAIN Append(c.log, p) = 1 .. Len(c.log) + 1
              /\ DOMAIN c.log = 1 .. Len(c.log) /\ Len(c.log) \in Nat
              /\ \A k \in 1 .. Len(c.log) : Append(c.log, p)[k] = c.log[k]
          BY <4>1, AtEnd
        <5> QED
          BY <3>1, <3>3, <5>1
      <4>3. CASE n \in 1 .. Len(sent[s]) /\ sent'[s][n] = sent[s][n]
        BY <2>1, <2>2, <4>2, <4>3 DEF InLog
      <4>4. CASE n = Len(sent[s]) + 1
        <5>1. p.nr = n /\ p.number >= e.in
          <6>1. e.in \in Nat /\ c.out \in Nat
            BY <1>t DEF Connection
          <6> QED
            BY <3>1, <3>3, <4>1, <4>4, <6>1
        <5> QED
          BY <4>2, <5>1 DEF InLog
      <4> QED
        BY <3>2, <4>3, <4>4
    <3>4. CASE on # "this"
      BY <2>1, <2>2, <3>1, <3>2, <3>4
    <3> QED
      BY <3>3, <3>4
  <2>4. CASE ReceivePing(s)
    <3> DEFINE u == wire[s][1].nr
    <3>1. sent'[s] = sent[s] /\ u \in Nat /\ wire[s] # <<>> /\ wire[s][1].kind = "Ping"
      BY <2>4, ReceivePingEffect
    <3>2. d \in {ClearPacketLog(c, u), c}
      BY <2>4, ReceivePingEffect DEF c, d
    <3>3. u <= e.in
      <4>1. 1 \in DOMAIN wire[s]
        BY <3>1, AtFront DEF Types
      <4> QED
        BY <2>w, <3>1, <4>1 DEF OnItsWay
    <3> HIDE DEF u
    <3>4. InLog(c.log, n, e.in)
      BY <2>1, <2>2, <3>1
    <3> QED
      BY <1>t, <2>w, <3>1, <3>2, <3>3, <3>4, KeptInLog
  <2>5. CASE ReceiveData(s)
    <3>1. sent'[s] = sent[s] /\ d.log = c.log
      BY <2>5, ReceiveDataEffect DEF c, d
    <3> QED
      BY <2>1, <2>2, <3>1
  <2>6. CASE ~SendMessage(s) /\ ~ReceivePing(s) /\ ~ReceiveData(s)
    <3>1. sent'[s] = sent[s] /\ d.log = c.log
      BY <2>6, CountsKept DEF Counts, c, d
    <3> QED
      BY <2>1, <2>2, <3>1
  <2> QED
    BY <2>3, <2>4, <2>5, <2>6
<1>3. setting'.trusts[s] =>
        \A n \in 1 .. Len(sent'[Other(s)]) : Awaited(s, n)' => InLog(conn'[Other(s)].log, n, conn'[s].in)
  BY <1>0, <1>1 DEF d
<1>4. setting'.trusts[o] =>
        \A n \in 1 .. Len(sent'[Other(o)]) : Awaited(o, n)' => InLog(conn'[Other(o)].log, n, conn'[o].in)
  BY <1>0, <1>2 DEF d
<1> QED
  BY <1>0, <1>3, <1>4 DEF Kept

(* The post mortem brings all that was not received.                       *)
LEMMA PacketsFromLog ==
    ASSUME NEW c \in Connection, NEW n \in Nat, Numbered(c.log, LogStart(c)), LogStart(c) \in 0 .. n,
           NEW k \in DOMAIN c.log, c.log[k].number >= n
    PROVE  c.log[k] \in Range(PacketsFrom(PostMortem(c), n))
<1> DEFINE log == c.log
           len == Len(log)
           first == LogStart(c)
           from == n - first + 1
           ps == PacketsFrom(PostMortem(c), n)
<1>1. log \in Seq(MessagePacket) /\ c.out \in Nat /\ len \in Nat /\ k \in 1 .. len /\ first \in Nat
      /\ first = c.out - len /\ log[k].number = first + k - 1 /\ first <= n
  BY DEF Connection, LogStart, Numbered
<1>2. n \in first .. c.out - 1 /\ first + k - 1 >= n
  <2>1. first + k - 1 >= n
    BY <1>1
  <2>2. first + k - 1 <= c.out - 1
    BY <1>1
  <2> QED
    BY <1>1, <2>1, <2>2
<1>3. ps = SubSeq(log, from, len)
  BY <1>1, <1>2 DEF PacketsFrom, PostMortem
<1>4. from \in 1 .. len /\ k >= from
  <2>1. /\ first \in Int /\ n \in Int /\ k \in Int /\ len \in Int /\ c.out \in Int /\ k <= len
        /\ first = c.out - len /\ first <= n /\ n <= c.out - 1 /\ first + k - 1 >= n
    BY <1>1, <1>2
  <2> HIDE DEF first, len
  <2>2. n - first + 1 >= 1 /\ n - first + 1 <= len /\ k >= n - first + 1
    BY <2>1
  <2> QED
    BY <2>1, <2>2
<1> HIDE DEF log, len, first, from, ps
<1>5. /\ Len(SubSeq(log, from, len)) = len - from + 1
      /\ DOMAIN SubSeq(log, from, len) = 1 .. len - from + 1
      /\ \A j \in 1 .. len - from + 1 : SubSeq(log, from, len)[j] = log[from + j - 1]
  BY <1>1, <1>4 DEF len
<1>6. k - from + 1 \in DOMAIN ps /\ ps[k - from + 1] = log[from + (k - from + 1) - 1]
  <2>1. k - from + 1 \in 1 .. len - from + 1
    <3>1. k \in Int /\ from \in Int /\ len \in Int /\ from <= k /\ k <= len
      BY <1>1, <1>4
    <3> QED
      BY <3>1
  <2> QED
    BY <1>3, <1>5, <2>1
<1>7. from + (k - from + 1) - 1 = k
  BY <1>1, <1>4
<1> QED
  BY <1>6, <1>7 DEF Range, log, ps

(* Every step of a post mortem on an accepted connection brings what the   *)
(* sender has logged and the receiver has not counted.                     *)
LEMMA NextBrought ==
    ASSUME Types, Types', Lives, Logs, PostMortems, Brought, NEW s \in Sides, Action(s)
    PROVE  Brought'
<1> DEFINE o == Other(s)
           c == conn[s]
           d == conn'[s]
           e == conn[o]
           q == other[s]
           trusted == setting.trusts[s]
<1>0. /\ o # s /\ o \in Sides /\ Other(o) = s /\ Sides = {s, o} /\ conn'[o] = e /\ setting' = setting
      /\ handled'[o] = handled[o] /\ recovered'[o] = recovered[o]
  BY TwoSides, OwnSide
<1>t. /\ c \in Connection /\ d \in Connection /\ e \in Connection /\ c.in \in Nat
      /\ e.log \in Seq(MessagePacket) /\ handled[s] \in Seq(MessagePacket) /\ q \in Seq(OtherPacket)
  BY <1>0 DEF Types, Connection
(* The post mortem of s stays as it is. *)
<1>1. setting'.trusts[o] /\ recovered'[o] = "Accepted" =>
        Got(conn'[Other(o)].log, conn'[o].in, Left(o)', handled'[o])
  <2> SUFFICES ASSUME setting'.trusts[o], recovered'[o] = "Accepted"
               PROVE  Got(d.log, e.in, Left(o)', handled[o])
    BY <1>0
  <2>1. c.postMortemSent
    BY <1>0 DEF PostMortems
  <2>2. d.log = c.log
    BY <2>1, SentForGood DEF Counts
  <2>3. Left(o)' = Left(o)
    BY OtherQueue DEF Left
  <2>4. Got(c.log, e.in, Left(o), handled[o])
    BY <1>0 DEF Brought
  <2> QED
    BY <2>2, <2>3, <2>4
(* What s has got. *)
<1>2. trusted /\ recovered[s] = "Accepted" => Got(e.log, c.in, Left(s), handled[s])
  BY DEF Brought
<1>a. ASSUME trusted /\ recovered'[s] = "Accepted" => Got(e.log, d.in, Left(s)', handled'[s])
      PROVE  Brought'
  <2>1. setting'.trusts[s] /\ recovered'[s] = "Accepted" =>
        Got(conn'[Other(s)].log, conn'[s].in, Left(s)', handled'[s])
    BY <1>0, <1>a
  <2> HIDE DEF o
  <2> QED
    BY <1>0, <1>1, <2>1 DEF Brought
<1>h. \A n : HasNr(handled[s], n) => HasNr(handled'[s], n)
  BY HandledKept DEF IsHandled
<1> HIDE DEF c, d, e, q, trusted
<1>n. \A k \in DOMAIN e.log : e.log[k].number \in Nat
  BY <1>t, Elements, Packets
(* The same is left, and the number of the next packet does not fall. *)
<1>k. ASSUME Left(s)' = Left(s), recovered'[s] = recovered[s], d.in \in {c.in, c.in + 1}
      PROVE  Brought'
  <2>1. \A k \in DOMAIN e.log : e.log[k].number >= d.in => e.log[k].number >= c.in
    BY <1>k, <1>n, <1>t
  <2> QED
    BY <1>2, <1>a, <1>h, <1>k, <2>1 DEF Got
<1>3. CASE ReceivePostMortem(s)
  <2> DEFINE ps == PacketsFrom(q[1], c.in)
  <2>1. /\ ~Busy(s) /\ q # <<>> /\ q[1].kind = "PostMortem" /\ d = c
        /\ other'[s] = IF c.listed THEN [q EXCEPT ![1] = Recovery(ps)] ELSE Tail(q)
        /\ recovered'[s] = IF c.listed THEN c.status ELSE recovered[s]
    BY <1>3, ReceivePostMortemEffect DEF c, d, q
  <2>2. Queue(q, e) /\ Logged(e, c)
    BY <1>0 DEF PostMortems, Logs, q, e, c
  <2>3. q[1] = PostMortem(e)
    BY <1>t, <2>1, <2>2, AtFront DEF Queue
  <2> HIDE DEF ps
  <2>4. CASE c.listed
    <3>1. other'[s] # <<>> /\ Head(other'[s]) = Recovery(ps)
      BY <1>t, <2>1, <2>4
    <3>2. Left(s)' = Range(ps)
      BY <3>1 DEF Left, Busy, Recovery
    <3>3. ASSUME NEW k \in DOMAIN e.log, e.log[k].number >= c.in PROVE e.log[k] \in Range(ps)
      BY <1>t, <2>2, <2>3, <3>3, PacketsFromLog DEF Logged, ps
    <3> QED
      BY <1>a, <2>1, <3>2, <3>3 DEF Got
  <2>5. CASE ~c.listed
    <3>1. ~(Tail(q) # <<>> /\ Head(Tail(q)).kind = "Recovery")
      BY <1>t, <2>1, <2>2, QueueSteps
    <3>2. Left(s)' = {} /\ Left(s) = {}
      BY <2>1, <2>5, <3>1 DEF Left, Busy
    <3> QED
      BY <1>k, <2>1, <2>5, <3>2
  <2> QED
    BY <2>4, <2>5
<1>4. CASE RecoverPacket(s)
  <2> DEFINE ps == Head(q).packets
             p == ps[1]
  <2>1. /\ Busy(s) /\ q # <<>> /\ ps \in Seq(MessagePacket) /\ ps # <<>> /\ p \in MessagePacket /\ d = c
        /\ other'[s] = [q EXCEPT ![1] = Recovery(Tail(ps))]
        /\ handled'[s] = IF c.status = "Accepted" /\ ~p.main THEN Append(handled[s], p) ELSE handled[s]
        /\ recovered'[s] = recovered[s]
    BY <1>4, RecoverPacketEffect DEF c, d, q
  <2>2. Left(s) = Range(ps)
    BY <2>1 DEF Left, q
  <2>3. other'[s] # <<>> /\ Head(other'[s]) = Recovery(Tail(ps))
    BY <1>t, <2>1
  <2> HIDE DEF ps, p
  <2>4. Left(s)' = Range(Tail(ps))
    <3> DEFINE rest == Tail(ps)
    <3>1. other'[s] # <<>> /\ Head(other'[s]).kind = "Recovery" /\ Head(other'[s]).packets = rest
      BY <2>3 DEF Recovery
    <3> HIDE DEF rest
    <3>2. Left(s)' = Range(rest)
      BY <3>1 DEF Left, Busy
    <3> QED
      BY <3>2 DEF rest
  <2>5. \A x \in Range(ps) : x = p \/ x \in Range(Tail(ps))
    <3>1. /\ DOMAIN ps = 1 .. Len(ps) /\ DOMAIN Tail(ps) = 1 .. Len(ps) - 1 /\ Len(ps) \in Nat
          /\ \A i \in 1 .. Len(ps) - 1 : Tail(ps)[i] = ps[i + 1]
      BY <2>1, AtFront
    <3>2. \A i \in DOMAIN ps : i # 1 => i - 1 \in DOMAIN Tail(ps) /\ Tail(ps)[i - 1] = ps[i]
      BY <3>1
    <3> QED
      BY <3>2 DEF Range, p
  <2>6. ASSUME trusted, recovered'[s] = "Accepted", NEW k \in DOMAIN e.log, e.log[k].number >= c.in,
               ~e.log[k].main, e.log[k] \notin Left(s)'
        PROVE  HasNr(handled'[s], e.log[k].nr)
    <3>1. CASE e.log[k] = p
      <4>1. c.status = "Accepted"
        BY <2>1, <2>6 DEF PostMortems, c, trusted
      <4>2. HasNr(Append(handled[s], p), p.nr)
        BY <1>t, <2>1, NowHandled
      <4> QED
        BY <2>1, <2>6, <3>1, <4>1, <4>2
    <3>2. CASE e.log[k] # p
      BY <1>2, <1>h, <2>1, <2>2, <2>4, <2>5, <2>6, <3>2 DEF Got
    <3> QED
      BY <3>1, <3>2
  <2> QED
    BY <1>a, <2>1, <2>6 DEF Got
<1>5. CASE RemoveConnection(s) \/ OnDisconn(s) \/ CheckTimeout(s)
  <2>1. /\ Busy(s) <=> RemoveConnection(s)
        /\ Counts(d) = Counts(c) /\ recovered'[s] = recovered[s]
        /\ other'[s] = IF RemoveConnection(s) THEN Tail(q) ELSE q
        /\ RemoveConnection(s) => Head(q).packets = <<>>
    BY <1>5, EndEffect DEF c, d, q
  <2>2. d.in = c.in
    BY <2>1 DEF Counts
  <2>3. CASE RemoveConnection(s)
    <3>1. q # <<>> /\ Queue(q, e)
      BY <2>1, <2>3 DEF Busy, PostMortems, q, e
    <3>2. ~(Tail(q) # <<>> /\ Head(Tail(q)).kind = "Recovery")
      BY <1>t, <3>1, QueueSteps
    <3>3. Left(s)' = {}
      BY <2>1, <2>3, <3>2 DEF Left, Busy
    <3>4. Left(s) = Range(<<>>)
      BY <2>1, <2>3 DEF Left, q
    <3>5. Left(s) = {}
      BY <3>4 DEF Range
    <3> QED
      BY <1>k, <2>1, <2>2, <3>3, <3>5
  <2>4. CASE ~RemoveConnection(s)
    <3>1. Left(s)' = Left(s)
      BY <2>1, <2>4 DEF Left, Busy, q
    <3> QED
      BY <1>k, <2>1, <2>2, <3>1
  <2> QED
    BY <2>3, <2>4
<1>6. CASE ReceiveOther(s)
  <2>1. ~Busy(s) /\ q # <<>> /\ other'[s] = Tail(q) /\ d = c /\ recovered'[s] = recovered[s]
    BY <1>6, ReceiveOtherEffect DEF c, d, q
  <2>2. Queue(q, e)
    BY DEF PostMortems, q, e
  <2>3. ~(Tail(q) # <<>> /\ Head(Tail(q)).kind = "Recovery")
    BY <1>t, <2>1, <2>2, QueueSteps
  <2>4. Left(s)' = {} /\ Left(s) = {}
    BY <2>1, <2>3 DEF Left, Busy
  <2> QED
    BY <1>k, <2>1, <2>4
<1>7. ASSUME other'[s] = q, recovered'[s] = recovered[s], d.in \in {c.in, c.in + 1}
      PROVE  Brought'
  <2>1. Left(s)' = Left(s)
    BY <1>7 DEF Left, Busy, q
  <2> QED
    BY <1>7, <1>k, <2>1
<1>8. CASE SendMessage(s) \/ SendPing(s) \/ ReceivePing(s) \/ ReceiveData(s)
  <2>1. other'[s] = q /\ recovered'[s] = recovered[s]
    BY <1>8, SendMessageEffect, SendPingEffect, ReceivePingEffect, ReceiveDataEffect DEF q
  <2>2. d.in \in {c.in, c.in + 1}
    BY <1>8, <1>t, SendMessageEffect, SendPingEffect, ReceivePingEffect, ReceiveDataEffect, PingFields DEF c, d
  <2> QED
    BY <1>7, <2>1, <2>2
<1>9. CASE \/ ReceiveConn(s) \/ ReceiveConnRe(s) \/ HandleConn(s) \/ SetHalfAccepted(s)
           \/ HandleConnRe(s) \/ SetAccepted(s) \/ HandlePacket(s) \/ HandleDisconn(s)
  <2>1. other'[s] = q /\ recovered'[s] = recovered[s] /\ (Counts(d) = Counts(c) \/ d = c)
    BY <1>9, ReceiveConnEffect, ReceiveConnReEffect, HandleConnEffect, SetHalfAcceptedEffect,
       HandleConnReEffect, SetAcceptedEffect, HandlePacketEffect, HandleDisconnEffect DEF c, d, q
  <2>2. d.in = c.in
    BY <2>1 DEF Counts
  <2> QED
    BY <1>7, <2>1, <2>2
<1> QED
  BY <1>3, <1>4, <1>5, <1>6, <1>8, <1>9 DEF Action, NetworkThread, MainThread
-----------------------------------------------------------------------------
(* The inductive invariant behind Recovers. *)
Recoverable == Carried /\ Firsts /\ Answers /\ PostMortems /\ Kept /\ Brought

(* At first there is nothing to recover. *)
LEMMA InitRecoverable == Init => Recoverable
<1> SUFFICES ASSUME Init PROVE Recoverable
  OBVIOUS
<1>1. \A s \in Sides : /\ conn[s] = NewConn /\ wire[s] = <<Packet("Conn")>> /\ other[s] = <<>>
                       /\ events[s] = <<>> /\ sent[s] = <<>> /\ handled[s] = <<>> /\ recovered[s] = "no"
                       /\ msgConn[s] = "other" /\ Other(s) \in Sides
  BY TwoSides DEF Init
<1>2. NewConn.status = "Connected" /\ ~NewConn.postMortemSent
  BY DEF NewConn
<1>3. <<Packet("Conn")>>[1].kind = "Conn" /\ DOMAIN <<Packet("Conn")>> = {1}
  BY DEF Packet
<1>4. DOMAIN <<>> = {} /\ Len(<<>>) = 0
  OBVIOUS
<1>5. HasConn(<<Packet("Conn")>>) /\ ConnFirst(<<Packet("Conn")>>)
  BY <1>3 DEF HasConn, ConnFirst
<1>6. (\A K : ~Has(<<>>, K)) /\ NoneBefore(<<>>)
  BY <1>4 DEF Has, NoneBefore
<1>7. Firsts
  BY <1>1, <1>2, <1>5, <1>6 DEF Firsts, First
<1>8. AfterAnswer(<<Packet("Conn")>>, NewConn)
  BY <1>3 DEF AfterAnswer
<1>9. Answers
  BY <1>1, <1>5, <1>8 DEF Answers, Answered
<1>10. \A s \in Sides : ~Busy(s)
  BY <1>1 DEF Busy
<1>11. \A d : Queue(<<>>, d)
  BY <1>4 DEF Queue
<1>12. PostMortems
  BY <1>1, <1>2, <1>10, <1>11 DEF PostMortems
<1>13. Kept /\ Brought
  BY <1>1, <1>4 DEF Kept, Brought
<1> QED
  BY <1>7, <1>9, <1>12, <1>13, InitCarried DEF Recoverable

(* Every step keeps what the recovery rests on. *)
LEMMA NextRecoverable == Recoverable /\ [Next]_vars => Recoverable'
<1> SUFFICES ASSUME Recoverable, [Next]_vars PROVE Recoverable'
  OBVIOUS
<1>1. Carried' /\ Types'
  BY NextCarried DEF Recoverable, Carried
<1>2. ASSUME NEW s \in Sides, Action(s) PROVE Recoverable'
  <2>1. Types /\ Lives /\ Genuine /\ Logs /\ Wires /\ Firsts /\ Answers /\ PostMortems /\ Kept /\ Brought
    BY DEF Recoverable, Carried
  <2>2. Firsts'
    BY <1>1, <1>2, <2>1, NextFirsts
  <2>3. Answers'
    BY <1>1, <1>2, <2>1, NextAnswers
  <2>4. PostMortems'
    BY <1>1, <1>2, <2>1, NextPostMortems
  <2>5. Kept' /\ Brought'
    BY <1>1, <1>2, <2>1, NextKept, NextBrought
  <2> QED
    BY <1>1, <2>2, <2>3, <2>4, <2>5 DEF Recoverable
<1>3. CASE UNCHANGED vars
  <2>1. Firsts' /\ Answers'
    BY <1>3 DEF Recoverable, vars, Firsts, Answers
  <2>2. \A s : (Busy(s)' <=> Busy(s)) /\ Left(s)' = Left(s)
    BY <1>3 DEF vars, Busy, Left
  <2>3. PostMortems'
    BY <1>3, <2>2 DEF Recoverable, vars, PostMortems
  <2>4. Kept'
    BY <1>3 DEF Recoverable, vars, Kept, Awaited, IsHandled
  <2>5. Brought'
    BY <1>3, <2>2 DEF Recoverable, vars, Brought
  <2> QED
    BY <1>1, <2>1, <2>3, <2>4, <2>5 DEF Recoverable
<1> QED
  BY <1>2, <1>3 DEF Next, Action

(* When the post mortem is done nothing is missing: a message that was not *)
(* handled would still be in the log, and would not have been received     *)
(* before, so it came with the post mortem and was handled.                *)
LEMMA RecoverableRecovers == Recoverable => Recovers
<1> SUFFICES ASSUME Recoverable, NEW s \in Sides, setting.trusts[s], recovered[s] = "Accepted", ~Busy(s),
                    NEW n \in Missing(Other(s))
             PROVE  FALSE
  BY DEF Recovers
<1> DEFINE o == Other(s)
           log == conn[o].log
<1>1. o \in Sides /\ Other(o) = s
  BY TwoSides
<1>2. /\ n \in 1 .. Len(sent[o]) /\ sent[o][n] = "this" /\ ~setting.messages[o][n].main
      /\ \A p \in Range(handled[s]) : p.nr # n
  BY <1>1 DEF Missing
<1>3. ~IsHandled(s, n)
  BY <1>2 DEF IsHandled, HasNr, Range
<1>4. InLog(log, n, conn[s].in)
  BY <1>2, <1>3 DEF Recoverable, Kept, Awaited
<1>5. PICK k \in DOMAIN log : log[k].nr = n /\ log[k].number >= conn[s].in
  BY <1>4 DEF InLog
<1>6. Got(log, conn[s].in, {}, handled[s])
  BY DEF Recoverable, Brought, Left
<1>7. log[k] \in SentBy(o)
  <2>1. log \in Seq(SentBy(o))
    BY <1>1 DEF Recoverable, Carried, Genuine
  <2> HIDE DEF log
  <2> QED
    BY <2>1, Elements
<1>8. ~log[k].main
  BY <1>2, <1>5, <1>7 DEF SentBy
<1>9. HasNr(handled[s], n)
  BY <1>5, <1>6, <1>8 DEF Got
<1> QED
  BY <1>3, <1>9 DEF IsHandled

(* A post mortem that comes to an accepted connection leaves no message to *)
(* the network thread unhandled (C4Network2IO::HandlePacket, PID_PostMortem). *)
THEOREM RecoversHolds == Spec => []Recovers
<1>1. Init => Recoverable
  BY InitRecoverable
<1>2. Recoverable /\ [Next]_vars => Recoverable'
  BY NextRecoverable
<1>3. Recoverable => Recovers
  BY RecoverableRecovers
<1> QED
  BY <1>1, <1>2, <1>3, PTL DEF Spec

(* After its post mortem a side sends nothing over the connection, which   *)
(* is what C4Network2IOConnection::Send asserts: it has lost the           *)
(* connection, uses the other one, and has no acceptance left to handle.   *)
THEOREM NoneAfterPostMortemHolds == Spec => NoneAfterPostMortem
<1> DEFINE Sealed(s) ==
        conn[s].postMortemSent =>
            /\ conn'[s].postMortemSent
            /\ conn'[s].out = conn[s].out /\ conn'[s].log = conn[s].log
<1>1. ASSUME Recoverable, [Next]_vars, NEW s \in Sides PROVE Sealed(s)
  <2>1. Types /\ Lives /\ PostMortems
    BY <1>1 DEF Recoverable, Carried
  <2>2. CASE UNCHANGED vars
    BY <2>2 DEF vars
  <2>3. ASSUME NEW t \in Sides, Action(t) PROVE Sealed(s)
    <3>1. CASE t = s
      BY <2>1, <2>3, <3>1, SentForGood DEF Counts
    <3>2. CASE t # s
      <4>1. conn'[s] = conn[s]
        BY <2>1, <2>3, <3>2, OwnSide, TwoSides
      <4> QED
        BY <4>1
    <3> QED
      BY <3>1, <3>2
  <2> QED
    BY <1>1, <2>2, <2>3 DEF Next, Action
<1>2. Recoverable /\ [Next]_vars => \A s \in Sides : Sealed(s)
  BY <1>1
<1>3. Init => Recoverable
  BY InitRecoverable
<1>4. Recoverable /\ [Next]_vars => Recoverable'
  BY NextRecoverable
<1>5. Recoverable /\ [Next]_vars =>
        [\A s \in Sides : conn[s].postMortemSent =>
          /\ conn'[s].postMortemSent
          /\ conn'[s].out = conn[s].out /\ conn'[s].log = conn[s].log]_vars
  BY <1>2
<1> QED
  BY <1>3, <1>4, <1>5, PTL DEF Spec, NoneAfterPostMortem
=============================================================================
