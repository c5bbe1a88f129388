---------------------- MODULE GameControlNetwork_proofs ----------------------
(***************************************************************************)
(* Theorems about the control exchange.                                    *)
(***************************************************************************)
EXTENDS GameControlNetwork, FiniteSetTheorems, TLAPS

-----------------------------------------------------------------------------
(* The inductive invariant.  A client's packet, wherever it is, holds what *)
(* the client put in for its tick, and a complete control is one of those  *)
(* that were packed.                                                       *)
GenuineIn(p, inputs, complete) ==
    IF p.client = All
    THEN p \in complete
    ELSE p.tick < Len(inputs[p.client]) /\ p.ctrl[p.client] = inputs[p.client][p.tick + 1]
Genuine(p) == GenuineIn(p, input, packed)

StacksGenuine == \A n \in Nodes : \A p \in stack[n] : Genuine(p)
MessagesGenuine == \A m \in msgs : m.kind = "Control" => Genuine(m.pkt)

(* The inputs on record are those of the ticks control was sent for. *)
InputCounted == \A c \in Active : Len(input[c]) = sent[c] + 1

(* A client has its own control of every tick that is not ready yet. *)
OwnThere == \A c \in Active : \A t \in ready[c] + 1 .. sent[c] : HasCtrl(stack[c], c, t)

(* What was packed is complete and what the clients put in, of all clients *)
(* when the game is not asynchronous ...                                   *)
PackedFaithful ==
    \A p \in packed :
        /\ p.client = All
        /\ IF Mode = "Async" THEN Host \in DOMAIN p.ctrl ELSE DOMAIN p.ctrl = Active
        /\ \A c \in DOMAIN p.ctrl :
            p.tick < Len(input[c]) /\ p.ctrl[c] = input[c][p.tick + 1]

(* ... and otherwise what the host packed, once for each tick. *)
PackedByHost ==
    Mode = "Async" => \A p \in packed : p.tick <= ready[Host] \/ p \in stack[Host]

PackedUnique == \A p, q \in packed : p.tick = q.tick => p = q

(* The complete controls from the current tick to the last ready one are   *)
(* there, and a tick under way is ready.                                   *)
ReadyThere ==
    \A n \in Nodes : \A t \in ctrlTick[n] .. ready[n] : HasCtrl(stack[n], All, t)
TickReady ==
    \A n \in Nodes : ctrlTick[n] <= IF IsCtrlFrame(frame[n]) THEN ready[n] + 1 ELSE ready[n]

LogPacked == \A n \in Nodes : \A k \in DOMAIN log[n] : log[n][k] \in packed

Inv ==
    /\ TypeOK
    /\ StacksGenuine
    /\ MessagesGenuine
    /\ InputCounted
    /\ OwnThere
    /\ PackedFaithful
    /\ PackedByHost
    /\ PackedUnique
    /\ ReadyThere
    /\ TickReady
    /\ LogPacked
    /\ NoTickSkipped
-----------------------------------------------------------------------------
(* What getCtrl returns. *)
LEMMA GetCtrl ==
    ASSUME NEW S, NEW c, NEW t, HasCtrl(S, c, t)
    PROVE  /\ getCtrl(S, c, t) \in S
           /\ getCtrl(S, c, t).client = c
           /\ getCtrl(S, c, t).tick = t
BY DEF HasCtrl, getCtrl, CtrlsFor

(* A client's packet holds that client's control and nothing else. *)
LEMMA ClientPacket ==
    ASSUME NEW p \in Packets, p.client # All
    PROVE  /\ p.client \in Active
           /\ p.ctrl \in [{p.client} -> Inputs]
           /\ p.tick \in Nat
<1>1. p \in [client : Active \cup {All}, tick : Nat, ctrl : Controls] /\ DOMAIN p.ctrl = {p.client}
  BY DEF Packets
<1>2. PICK cs \in SUBSET Active : p.ctrl \in [cs -> Inputs]
  BY <1>1 DEF Controls
<1> QED
  BY <1>1, <1>2

(* The tick of a packet, a client's or a complete one.                     *)
LEMMA PacketTick ==
    ASSUME NEW p \in Packets
    PROVE  p.tick \in Nat
BY DEF Packets

(* PackCompleteCtrl makes a complete control for its tick, and what it puts *)
(* in for a client is what that client's packet for the tick holds.        *)
LEMMA PackCompleteType ==
    ASSUME NEW S \in SUBSET Packets, NEW t \in Nat
    PROVE  /\ PackComplete(S, t) \in Packets
           /\ PackComplete(S, t).client = All
           /\ PackComplete(S, t).tick = t
           /\ DOMAIN PackComplete(S, t).ctrl = {c \in Active : HasCtrl(S, c, t)}
           /\ \A c \in DOMAIN PackComplete(S, t).ctrl :
                PackComplete(S, t).ctrl[c] = getCtrl(S, c, t).ctrl[c]
<1> DEFINE cs == {c \in Active : HasCtrl(S, c, t)}
<1>1. \A c \in cs : getCtrl(S, c, t).ctrl[c] \in Inputs
  <2> TAKE c \in cs
  <2>1. getCtrl(S, c, t) \in Packets /\ getCtrl(S, c, t).client = c
    BY GetCtrl
  <2>2. c # All
    BY NodesAssumption
  <2> QED
    BY <2>1, <2>2, ClientPacket
<1>2. [c \in cs |-> getCtrl(S, c, t).ctrl[c]] \in [cs -> Inputs]
  BY <1>1
<1>3. [c \in cs |-> getCtrl(S, c, t).ctrl[c]] \in Controls
  BY <1>2 DEF Controls
<1> QED
  BY <1>3 DEF PackComplete, Packets

(* A complete control of tick t in S that can be executed at n. *)
IsReadyIn(n, S, t) ==
    \E p \in S : p.client = All /\ p.tick = t /\ PreExecute(loaded'[n], p)

(* What CheckCompleteCtrl does: it packs some ticks that are not ready and *)
(* that it may pack, none of them behind a tick that is not complete, the  *)
(* ready tick does not go back, everything up to it can be executed,       *)
(* nothing else gets into the stack, nothing that is not old gets out, and *)
(* nothing is taken from what is on its way.                               *)
Effect(n, S, sentNow, M, new, r) ==
    /\ \A p \in new :
        /\ p.tick > ready[n] /\ p.tick <= r + 1
        /\ p = PackComplete(S, p.tick)
        /\ \E late \in LateOutcomes(n) : MayPack(n, S, sentNow, late, p.tick)
    /\ r \in Nat \cup {-1}
    /\ r >= ready[n]
    /\ \A t \in ready[n] + 1 .. r : IsReadyIn(n, S \cup new, t)
    /\ ready' = [ready EXCEPT ![n] = r]
    /\ stack' = [stack EXCEPT ![n] = stack'[n]]
    /\ stack'[n] \subseteq S \cup new
    /\ \A p \in S \cup new : p.tick >= ctrlTick[n] - Backlog => p \in stack'[n]
    /\ packed' = packed \cup new
    /\ M \subseteq msgs'
    /\ \A m \in msgs' :
        \/ m \in M
        \/ \E to \in Nodes, p \in new : m = ControlMsg(n, to, p)
        \/ \E to \in Nodes, t \in Nat : m = ControlReqMsg(n, to, t)

(* CheckCompleteCtrl has such an effect.                                   *)
LEMMA CheckCompleteEffect ==
    ASSUME TypeOK, NEW n \in Nodes, NEW S \in SUBSET Packets, NEW sentNow, NEW M,
           CheckCompleteCtrl(n, S, sentNow, M)
    PROVE  \E new \in SUBSET Packets, r \in Int : Effect(n, S, sentNow, M, new, r)
<1>1. CASE ~running[n]
  <2>1. ready[n] \in Nat \cup {-1} /\ ready = [ready EXCEPT ![n] = ready[n]]
    BY DEF TypeOK
  <2>2. stack'[n] = S /\ stack' = [stack EXCEPT ![n] = S] /\ msgs' = M
        /\ ready' = ready /\ packed' = packed
    BY <1>1 DEF CheckCompleteCtrl, TypeOK
  <2>3. Effect(n, S, sentNow, M, {}, ready[n])
    BY <2>1, <2>2 DEF Effect
  <2> QED
    BY <2>1, <2>3
<1>2. CASE running[n]
  <2>0. Advance(n, S, sentNow, M)
    BY <1>2 DEF CheckCompleteCtrl
  <2>1. PICK late \in LateOutcomes(n), due \in DueOutcomes(M),
             r \in {ready[n]} \cup {p.tick : p \in S} :
          AdvanceTo(r, n, S, sentNow, M, late, due)
    BY <2>0 DEF Advance
  <2> DEFINE new == NewControls(n, S, sentNow, late, r)
             ticks == {t \in ready[n] + 1 .. r + 1 : MayPack(n, S, sentNow, late, t)}
  <2>2. ready[n] \in Nat \cup {-1} /\ r \in Nat \cup {-1} /\ r \in Int
    BY PacketTick DEF TypeOK
  <2>3. \A t \in ticks :
          /\ t \in Nat
          /\ PackComplete(S, t) \in Packets
          /\ PackComplete(S, t).client = All
          /\ PackComplete(S, t).tick = t
    <3> TAKE t \in ticks
    <3>1. t \in Nat
      BY <2>2
    <3> QED
      BY <3>1, PackCompleteType
  <2>4. new = {PackComplete(S, t) : t \in ticks}
    BY DEF NewControls
  <2> HIDE DEF new
  <2>5. \A p \in new :
          /\ p \in Packets
          /\ p.tick > ready[n] /\ p.tick <= r + 1
          /\ p = PackComplete(S, p.tick)
          /\ MayPack(n, S, sentNow, late, p.tick)
    <3> TAKE p \in new
    <3>1. PICK t \in ticks : p = PackComplete(S, t)
      BY <2>4
    <3>2. p.tick = t /\ p \in Packets
      BY <2>3, <3>1
    <3>3. t > ready[n] /\ t <= r + 1 /\ MayPack(n, S, sentNow, late, t)
      BY <2>2, <3>1
    <3> QED
      BY <3>1, <3>2, <3>3
  <2>6. \A t \in ready[n] + 1 .. r : IsReadyIn(n, S \cup new, t)
    <3> TAKE t \in ready[n] + 1 .. r
    <3>1. CASE HasCtrl(S, All, t) /\ PreExecute(loaded'[n], getCtrl(S, All, t))
      BY <3>1, GetCtrl DEF IsReadyIn
    <3>2. CASE MayPack(n, S, sentNow, late, t) /\ PreExecute(loaded'[n], PackComplete(S, t))
      <4>1. t \in ticks
        BY <2>2, <3>2
      <4>2. PackComplete(S, t) \in new
        BY <4>1, <2>4
      <4> QED
        BY <3>2, <4>1, <4>2, <2>3 DEF IsReadyIn
    <3> QED
      BY <2>1, <3>1, <3>2 DEF AdvanceTo, Reachable
  <2>7. stack'[n] = ClearCtrl(S \cup new, ctrlTick[n] - Backlog)
    BY <2>1 DEF AdvanceTo, TypeOK, new
  <2>8. \A p \in S \cup new : p.tick >= ctrlTick[n] - Backlog => p \in stack'[n]
    BY <2>7 DEF ClearCtrl
  <2>9. \A m \in Recover(n, sentNow, r) : \E to \in Nodes, t \in Nat : m = ControlReqMsg(n, to, t)
    <3>1. r + 1 \in Nat
      BY <2>2
    <3> QED
      BY <3>1, NodesAssumption DEF Recover
  <2>10. \A m \in msgs' :
           \/ m \in M
           \/ \E to \in Nodes, p \in new : m = ControlMsg(n, to, p)
           \/ \E to \in Nodes, t \in Nat : m = ControlReqMsg(n, to, t)
    BY <2>1, <2>9 DEF AdvanceTo, CompleteReceivers, new
  <2>11. /\ ready' = [ready EXCEPT ![n] = r]
         /\ stack' = [stack EXCEPT ![n] = stack'[n]]
         /\ packed' = packed \cup new
         /\ r >= ready[n]
    BY <2>1, <2>7 DEF AdvanceTo, new
  <2>12. stack'[n] \subseteq S \cup new
    BY <2>7 DEF ClearCtrl
  <2>13. M \subseteq msgs'
    BY <2>1 DEF AdvanceTo
  <2>14. Effect(n, S, sentNow, M, new, r)
    BY <2>2, <2>5, <2>6, <2>8, <2>10, <2>11, <2>12, <2>13 DEF Effect
  <2> QED
    BY <2>2, <2>5, <2>14
<1> QED
  BY <1>1, <1>2

(* The controls that were sent stay on record. *)
InputKept ==
    /\ input' \in [Active -> Seq(Inputs)]
    /\ \A c \in Active :
        /\ Len(input'[c]) = sent'[c] + 1
        /\ Len(input[c]) <= Len(input'[c])
        /\ \A k \in 1 .. Len(input[c]) : input'[c][k] = input[c][k]

(* A genuine packet stays genuine when more is sent and more is packed.    *)
LEMMA GenuineKept ==
    ASSUME TypeOK, InputKept, NEW complete, packed \subseteq complete,
           NEW p \in Packets, Genuine(p)
    PROVE  GenuineIn(p, input', complete)
<1>1. CASE p.client = All
  BY <1>1 DEF Genuine, GenuineIn
<1>2. CASE p.client # All
  <2>1. p.client \in Active /\ p.tick \in Nat
    BY <1>2, ClientPacket
  <2>2. Len(input[p.client]) \in Nat /\ Len(input'[p.client]) \in Nat
    BY <2>1 DEF TypeOK, InputKept
  <2>3. p.tick < Len(input[p.client]) /\ p.ctrl[p.client] = input[p.client][p.tick + 1]
    BY <1>2 DEF Genuine, GenuineIn
  <2>4. p.tick + 1 \in 1 .. Len(input[p.client]) /\ p.tick < Len(input'[p.client])
    BY <2>1, <2>2, <2>3 DEF InputKept
  <2>5. input'[p.client][p.tick + 1] = input[p.client][p.tick + 1]
    BY <2>1, <2>4 DEF InputKept
  <2> QED
    BY <1>2, <2>3, <2>4, <2>5 DEF GenuineIn
<1> QED
  BY <1>1, <1>2

(* A complete control is about activated clients. *)
LEMMA CompleteDomain ==
    ASSUME NEW p \in Packets, p.client = All
    PROVE  /\ DOMAIN p.ctrl \subseteq Active
           /\ p = [client |-> All, tick |-> p.tick, ctrl |-> p.ctrl]
           /\ p.ctrl = [c \in DOMAIN p.ctrl |-> p.ctrl[c]]
<1>2. p \in [client : Active \cup {All}, tick : Nat, ctrl : Controls]
  BY DEF Packets
<1>3. PICK cs \in SUBSET Active : p.ctrl \in [cs -> Inputs]
  BY <1>2 DEF Controls
<1> QED
  BY <1>2, <1>3

(* Complete controls with the same tick and the same parts are the same. *)
LEMMA SameControl ==
    ASSUME NEW p \in Packets, NEW q \in Packets, p.client = All, q.client = All,
           p.tick = q.tick, DOMAIN p.ctrl = DOMAIN q.ctrl,
           \A c \in DOMAIN p.ctrl : p.ctrl[c] = q.ctrl[c]
    PROVE  p = q
<1>1. p.ctrl = q.ctrl
  <2>1. p.ctrl = [c \in DOMAIN p.ctrl |-> p.ctrl[c]] /\ q.ctrl = [c \in DOMAIN q.ctrl |-> q.ctrl[c]]
    BY CompleteDomain
  <2>2. [c \in DOMAIN p.ctrl |-> p.ctrl[c]] = [c \in DOMAIN q.ctrl |-> q.ctrl[c]]
    OBVIOUS
  <2> QED
    BY <2>1, <2>2
<1>2. p = [client |-> All, tick |-> p.tick, ctrl |-> p.ctrl]
      /\ q = [client |-> All, tick |-> q.tick, ctrl |-> q.ctrl]
  BY CompleteDomain
<1> QED
  BY <1>1, <1>2

(* A control that CheckCompleteCtrl packs holds what the clients put in,   *)
(* and is the first of its tick the client sees.                           *)
AreGenuine(S) == \A q \in S : GenuineIn(q, input', packed)

HasOwn(n, S, sentNow) == n \in Active => \A t \in ready[n] + 1 .. sentNow : HasCtrl(S, n, t)

IsNewControl(p, n, S) ==
    /\ p.client = All
    /\ IF Mode = "Async" THEN Host \in DOMAIN p.ctrl ELSE DOMAIN p.ctrl = Active
    /\ \A c \in DOMAIN p.ctrl : /\ c \in Active /\ p.tick < Len(input'[c])
                               /\ p.ctrl[c] = input'[c][p.tick + 1]
    /\ Mode = "Async" => n = Host
    /\ \A q \in S : q.client = All => q.tick # p.tick

(* What MayPack allows to be packed is such a new control.                 *)
LEMMA NewControl ==
    ASSUME NEW n \in Nodes, NEW S \in SUBSET Packets, AreGenuine(S),
           NEW p, p.tick \in Nat, p = PackComplete(S, p.tick), p.tick > ready[n], ready[n] \in Int,
           NEW sentNow \in Int, NEW late \in LateOutcomes(n), MayPack(n, S, sentNow, late, p.tick),
           HasOwn(n, S, sentNow)
    PROVE  IsNewControl(p, n, S)
<1>1. /\ p \in Packets
      /\ p.client = All
      /\ DOMAIN p.ctrl = {c \in Active : HasCtrl(S, c, p.tick)}
      /\ \A c \in DOMAIN p.ctrl : p.ctrl[c] = getCtrl(S, c, p.tick).ctrl[c]
  <2>1. PICK t \in Nat : t = p.tick
    OBVIOUS
  <2>2. p = PackComplete(S, t)
    BY <2>1
  <2>3. /\ PackComplete(S, t) \in Packets
        /\ PackComplete(S, t).client = All
        /\ DOMAIN PackComplete(S, t).ctrl = {c \in Active : HasCtrl(S, c, t)}
        /\ \A c \in DOMAIN PackComplete(S, t).ctrl :
             PackComplete(S, t).ctrl[c] = getCtrl(S, c, t).ctrl[c]
    BY <2>1, PackCompleteType
  <2> QED
    BY <2>1, <2>2, <2>3, Zenon
<1>2. ASSUME Mode # "Async"
      PROVE  DOMAIN p.ctrl = Active
  <2>1. late = FALSE
    BY <1>2 DEF LateOutcomes
  <2>2. \A c \in Active : HasCtrl(S, c, p.tick)
    BY <2>1 DEF MayPack, AllThere
  <2> QED
    BY <1>1, <2>2
<1>3. ASSUME NEW c \in DOMAIN p.ctrl
      PROVE  c \in Active /\ p.tick < Len(input'[c]) /\ p.ctrl[c] = input'[c][p.tick + 1]
  <2>1. c \in Active /\ HasCtrl(S, c, p.tick) /\ c # All
    BY <1>1, <1>3, NodesAssumption
  <2> DEFINE q == getCtrl(S, c, p.tick)
  <2>2. q \in S /\ q.client = c /\ q.tick = p.tick
    BY <2>1, GetCtrl
  <2>3. p.ctrl[c] = q.ctrl[c]
    BY <1>1, <1>3
  <2> HIDE DEF q
  <2>4. GenuineIn(q, input', packed)
    BY <2>2 DEF AreGenuine
  <2>5. q.tick < Len(input'[q.client]) /\ q.ctrl[q.client] = input'[q.client][q.tick + 1]
    BY <2>1, <2>2, <2>4 DEF GenuineIn
  <2> QED
    BY <2>1, <2>2, <2>3, <2>5
<1>4. Mode = "Async" => n = Host
  BY DEF MayPack, IsPacker
<1>5. \A q \in S : q.client = All => q.tick # p.tick
  BY DEF MayPack, HasCtrl, CtrlsFor
<1>6. ASSUME Mode = "Async"
      PROVE  Host \in DOMAIN p.ctrl
  <2>1. n = Host /\ n \in Active
    BY <1>6, NodesAssumption DEF MayPack, IsPacker
  <2>2. p.tick <= sentNow
    BY <2>1 DEF MayPack, OwnSent
  <2>3. p.tick \in ready[n] + 1 .. sentNow
    BY <2>2
  <2> QED
    BY <1>1, <2>1, <2>3 DEF HasOwn
<1> QED
  BY <1>1, <1>2, <1>3, <1>4, <1>5, <1>6 DEF IsNewControl

(* CheckCompleteCtrl keeps the invariant, whatever was added to the stack, *)
(* put on its way and put on record before, as long as that is genuine.    *)
LEMMA CheckPreserves ==
    ASSUME Inv, InputKept, NEW n \in Nodes, NEW S \in SUBSET Packets, NEW M \in SUBSET Messages,
           stack[n] \subseteq S,
           AreGenuine(S), HasOwn(n, S, sent'[n]),
           \A m \in M : m.kind = "Control" => GenuineIn(m.pkt, input', packed),
           sent' \in [Nodes -> Nat \cup {-1}],
           \A m \in Nodes \ {n} : sent'[m] = sent[m],
           waiting' \in [Nodes -> BOOLEAN],
           loaded' \in [Nodes -> SUBSET Joins],
           UNCHANGED <<clock, running, log>>,
           CheckCompleteCtrl(n, S, sent'[n], M)
    PROVE  Inv'
<1> USE DEF Inv
<1>1. PICK new \in SUBSET Packets, r \in Int : Effect(n, S, sent'[n], M, new, r)
  BY CheckCompleteEffect
<1>2. /\ frame' = frame /\ ctrlTick' = ctrlTick /\ preSend' = preSend
      /\ running' = running /\ log' = log
  BY DEF clock
<1>3. /\ r \in Nat \cup {-1} /\ r >= ready[n]
      /\ \A t \in ready[n] + 1 .. r : HasCtrl(S \cup new, All, t)
      /\ ready' = [ready EXCEPT ![n] = r]
      /\ stack' = [stack EXCEPT ![n] = stack'[n]]
      /\ stack'[n] \subseteq S \cup new
      /\ \A p \in S \cup new : p.tick >= ctrlTick[n] => p \in stack'[n]
      /\ packed' = packed \cup new
  <2>1. \A t \in ready[n] + 1 .. r : HasCtrl(S \cup new, All, t)
    BY <1>1 DEF Effect, IsReadyIn, HasCtrl, CtrlsFor
  <2>2. ctrlTick[n] \in Nat /\ Backlog \in Nat /\ \A p \in S \cup new : p.tick \in Nat
    BY BacklogAssumption, PacketTick DEF TypeOK
  <2>3. \A p \in S \cup new : p.tick >= ctrlTick[n] => p.tick >= ctrlTick[n] - Backlog
    BY <2>2
  <2> QED
    BY <1>1, <2>1, <2>3 DEF Effect
<1>4. \A m \in msgs' :
        \/ m \in M
        \/ \E to \in Nodes, p \in new : m = ControlMsg(n, to, p)
        \/ \E to \in Nodes, t \in Nat : m = ControlReqMsg(n, to, t)
  BY <1>1 DEF Effect
<1>5. ASSUME NEW p \in new
      PROVE  /\ p \in Packets /\ p.tick \in Nat /\ p.tick > ready[n] /\ p = PackComplete(S, p.tick)
             /\ p.client = All
             /\ IF Mode = "Async" THEN Host \in DOMAIN p.ctrl ELSE DOMAIN p.ctrl = Active
             /\ \A c \in DOMAIN p.ctrl : /\ c \in Active /\ p.tick < Len(input'[c])
                                        /\ p.ctrl[c] = input'[c][p.tick + 1]
             /\ Mode = "Async" => n = Host
             /\ \A q \in S : q.client = All => q.tick # p.tick
  <2>1. /\ p.tick > ready[n] /\ p = PackComplete(S, p.tick)
        /\ \E late \in LateOutcomes(n) : MayPack(n, S, sent'[n], late, p.tick)
    BY <1>1, <1>5 DEF Effect
  <2>2. p \in Packets /\ p.tick \in Nat
    BY <1>5, PacketTick
  <2>3. IsNewControl(p, n, S)
    <3>1. sent'[n] \in Int /\ ready[n] \in Int
      BY DEF TypeOK
    <3> QED
      BY <2>1, <2>2, <3>1, NewControl
  <2> QED
    BY <2>1, <2>2, <2>3 DEF IsNewControl
<1>6. /\ ready[n] \in Nat \cup {-1} /\ ctrlTick[n] \in Nat
      /\ ctrlTick[n] <= ready[n] + 1
      /\ ready'[n] = r
      /\ \A m \in Nodes \ {n} : stack'[m] = stack[m] /\ ready'[m] = ready[m]
  BY <1>3 DEF TypeOK, TickReady
<1>7. TypeOK'
  <2>1. stack' \in [Nodes -> SUBSET Packets] /\ ready' \in [Nodes -> Nat \cup {-1}]
    BY <1>3 DEF TypeOK
  <2>2. msgs' \in SUBSET Messages
    <3> SUFFICES ASSUME NEW m \in msgs' PROVE m \in Messages
      OBVIOUS
    <3>1. CASE m \in M
      BY <3>1
    <3>2. CASE \E to \in Nodes, p \in new : m = ControlMsg(n, to, p)
      BY <3>2, <1>5 DEF ControlMsg, Messages
    <3>3. CASE \E to \in Nodes, t \in Nat : m = ControlReqMsg(n, to, t)
      BY <3>3 DEF ControlReqMsg, Messages
    <3> QED
      BY <3>1, <3>2, <3>3, <1>4
  <2>3. packed' \in SUBSET Packets
    BY <1>3 DEF TypeOK
  <2> QED
    BY <1>2, <2>1, <2>2, <2>3 DEF TypeOK, InputKept
<1>8. StacksGenuine'
  <2> SUFFICES ASSUME NEW m \in Nodes, NEW p \in stack'[m]
               PROVE  GenuineIn(p, input', packed')
    BY DEF StacksGenuine, Genuine
  <2>1. packed \subseteq packed'
    BY <1>3
  <2>2. CASE m # n
    <3>1. p \in stack[m]
      BY <1>6, <2>2
    <3>2. p \in Packets /\ Genuine(p)
      BY <3>1 DEF StacksGenuine, TypeOK
    <3> QED
      BY <2>1, <3>2, GenuineKept
  <2>3. CASE m = n /\ p \in S
    BY <2>1, <2>3 DEF GenuineIn, AreGenuine
  <2>4. CASE m = n /\ p \in new
    BY <1>3, <1>5, <2>4 DEF GenuineIn
  <2> QED
    BY <1>3, <2>2, <2>3, <2>4
<1>9. MessagesGenuine'
  <2> SUFFICES ASSUME NEW m \in msgs', m.kind = "Control"
               PROVE  GenuineIn(m.pkt, input', packed')
    BY DEF MessagesGenuine, Genuine
  <2>1. CASE m \in M
    BY <1>3, <2>1 DEF GenuineIn
  <2>2. CASE \E to \in Nodes, p \in new : m = ControlMsg(n, to, p)
    BY <1>3, <1>5, <2>2 DEF ControlMsg, GenuineIn
  <2>3. CASE \E to \in Nodes, t \in Nat : m = ControlReqMsg(n, to, t)
    BY <2>3 DEF ControlReqMsg
  <2> QED
    BY <1>4, <2>1, <2>2, <2>3
<1>10. InputCounted'
  BY DEF InputCounted, InputKept
<1>11. PackedFaithful'
  <2> SUFFICES ASSUME NEW p \in packed'
               PROVE  /\ p.client = All
                      /\ IF Mode = "Async" THEN Host \in DOMAIN p.ctrl ELSE DOMAIN p.ctrl = Active
                      /\ \A c \in DOMAIN p.ctrl :
                           p.tick < Len(input'[c]) /\ p.ctrl[c] = input'[c][p.tick + 1]
    BY DEF PackedFaithful
  <2>1. CASE p \in new
    BY <1>5, <2>1
  <2>2. CASE p \in packed
    <3>1. p \in Packets /\ p.client = All /\ p.tick \in Nat
      BY <2>2, PacketTick DEF TypeOK, PackedFaithful
    <3>2. IF Mode = "Async" THEN Host \in DOMAIN p.ctrl ELSE DOMAIN p.ctrl = Active
      BY <2>2 DEF PackedFaithful
    <3>3. ASSUME NEW c \in DOMAIN p.ctrl
          PROVE  p.tick < Len(input'[c]) /\ p.ctrl[c] = input'[c][p.tick + 1]
      <4>1. p.tick < Len(input[c]) /\ p.ctrl[c] = input[c][p.tick + 1]
        BY <2>2, <3>3 DEF PackedFaithful
      <4>2. c \in Active
        BY <3>1, <3>3, CompleteDomain
      <4>3. Len(input[c]) \in Nat /\ Len(input'[c]) \in Nat /\ Len(input[c]) <= Len(input'[c])
        BY <4>2 DEF TypeOK, InputKept
      <4>4. p.tick + 1 \in 1 .. Len(input[c])
        BY <3>1, <4>1, <4>3
      <4> QED
        BY <3>1, <4>1, <4>2, <4>3, <4>4 DEF InputKept
    <3> QED
      BY <3>1, <3>2, <3>3
  <2> QED
    BY <1>3, <2>1, <2>2
<1>12. PackedByHost'
  <2> SUFFICES ASSUME Mode = "Async", NEW p \in packed'
               PROVE  p.tick <= ready'[Host] \/ p \in stack'[Host]
    BY DEF PackedByHost
  <2>1. p.tick \in Nat
    BY <1>3, <1>5, PacketTick DEF TypeOK
  <2>2. CASE p \in new
    BY <1>3, <1>5, <1>6, <2>1, <2>2
  <2>3. CASE p \in packed /\ n = Host
    <3>1. p.tick <= ready[n] \/ p \in S
      BY <2>3 DEF PackedByHost
    <3>2. p.tick <= ready[n] => p.tick <= ready'[n]
      BY <1>3, <1>6, <2>1 DEF TypeOK
    <3>3. p.tick > ready[n] => p.tick >= ctrlTick[n]
      BY <1>6, <2>1
    <3> QED
      BY <1>3, <1>6, <2>1, <2>3, <3>1, <3>2, <3>3
  <2>4. CASE p \in packed /\ n # Host
    BY <1>6, <2>4, NodesAssumption DEF PackedByHost
  <2> QED
    BY <1>3, <2>2, <2>3, <2>4
<1>13. PackedUnique'
  <2> SUFFICES ASSUME NEW p \in packed', NEW q \in packed', p.tick = q.tick
               PROVE  p = q
    BY DEF PackedUnique
  <2>1. CASE Mode # "Async"
    <3>1. p \in Packets /\ q \in Packets
      BY <1>7 DEF TypeOK
    <3> QED
      BY <1>11, <2>1, <3>1, SameControl DEF PackedFaithful
  <2>2. ASSUME Mode = "Async", NEW x \in packed, NEW y \in new
        PROVE  x.tick # y.tick
    <3>1. n = Host /\ y.tick > ready[n] /\ y.tick \in Nat
      BY <1>5, <2>2
    <3>2. x.client = All /\ (x.tick <= ready[Host] \/ x \in stack[Host])
      BY <2>2 DEF PackedFaithful, PackedByHost
    <3>3. x \in S => x.tick # y.tick
      BY <1>5, <3>2
    <3> QED
      BY <1>6, <3>1, <3>2, <3>3
  <2>3. CASE p \in new /\ q \in new
    BY <1>5, <2>3
  <2>4. CASE p \in packed /\ q \in packed
    BY <2>4 DEF PackedUnique
  <2> QED
    BY <1>3, <2>1, <2>2, <2>3, <2>4
<1>14. ReadyThere'
  <2> SUFFICES ASSUME NEW m \in Nodes, NEW t \in ctrlTick[m] .. ready'[m]
               PROVE  HasCtrl(stack'[m], All, t)
    BY <1>2 DEF ReadyThere
  <2>1. CASE m # n
    BY <1>6, <2>1 DEF ReadyThere
  <2>2. CASE m = n
    <3>1. t \in Nat /\ t <= r /\ t >= ctrlTick[n]
      BY <1>3, <1>6, <2>2 DEF TypeOK
    <3>2. HasCtrl(S \cup new, All, t)
      <4>1. CASE t <= ready[n]
        <5>1. HasCtrl(stack[n], All, t)
          BY <1>6, <3>1, <4>1 DEF ReadyThere
        <5> QED
          BY <5>1 DEF HasCtrl, CtrlsFor
      <4>2. CASE t > ready[n]
        <5>1. t \in ready[n] + 1 .. r
          BY <1>3, <1>6, <3>1, <4>2
        <5> QED
          BY <1>3, <5>1
      <4> QED
        BY <1>6, <3>1, <4>1, <4>2
    <3>3. PICK p \in S \cup new : p.client = All /\ p.tick = t
      BY <3>2 DEF HasCtrl, CtrlsFor
    <3>4. p \in stack'[n]
      BY <1>3, <3>1, <3>3
    <3> QED
      BY <2>2, <3>3, <3>4 DEF HasCtrl, CtrlsFor
  <2> QED
    BY <2>1, <2>2
<1>15. TickReady'
  <2> SUFFICES ASSUME NEW m \in Nodes
               PROVE  ctrlTick[m] <= IF IsCtrlFrame(frame[m]) THEN ready'[m] + 1 ELSE ready'[m]
    BY <1>2 DEF TickReady, IsCtrlFrame
  <2>1. ready[m] \in Int /\ ready'[m] \in Int /\ ready'[m] >= ready[m] /\ ctrlTick[m] \in Nat
    BY <1>3, <1>6 DEF TypeOK
  <2> QED
    BY <2>1 DEF TickReady
<1>16. LogPacked'
  BY <1>2, <1>3 DEF LogPacked
<1>17. NoTickSkipped'
  BY <1>2 DEF NoTickSkipped, IsCtrlFrame
<1>18. OwnThere'
  <2> SUFFICES ASSUME NEW c \in Active, NEW t \in ready'[c] + 1 .. sent'[c]
               PROVE  HasCtrl(stack'[c], c, t)
    BY DEF OwnThere
  <2>1. CASE c # n
    BY <1>6, <2>1, NodesAssumption DEF OwnThere
  <2>2. CASE c = n
    <3>1. sent'[n] \in Int
      BY DEF TypeOK
    <3>2. t \in ready[n] + 1 .. sent'[n] /\ t >= ctrlTick[n]
      BY <1>3, <1>6, <2>2, <3>1
    <3>3. HasCtrl(S, c, t)
      BY <2>2, <3>2 DEF HasOwn
    <3>4. PICK p \in S : p.client = c /\ p.tick = t
      BY <3>3 DEF HasCtrl, CtrlsFor
    <3>5. p \in stack'[n]
      BY <1>3, <3>2, <3>4
    <3> QED
      BY <2>2, <3>4, <3>5 DEF HasCtrl, CtrlsFor
  <2> QED
    BY <2>1, <2>2
<1> QED
  BY <1>7, <1>8, <1>9, <1>10, <1>11, <1>12, <1>13, <1>14, <1>15, <1>16, <1>17, <1>18

-----------------------------------------------------------------------------
(* The invariant holds before anything is sent.                            *)
LEMMA InitInv == Init => Inv
<1> SUFFICES ASSUME Init PROVE Inv
  OBVIOUS
<1>1. 0 % Rate = 0
  BY RateAssumption
<1>2. \A m \in msgs : /\ m \in Messages /\ m.kind = "ControlReq"
  BY LinksAssumption DEF Init, Messages, ControlReqMsg
<1>3. TypeOK
  BY <1>2, PreSendsAssumption DEF Init, TypeOK
<1>4. StacksGenuine /\ MessagesGenuine
  BY <1>2 DEF Init, StacksGenuine, MessagesGenuine
<1>5. InputCounted /\ OwnThere
  BY NodesAssumption DEF Init, InputCounted, OwnThere
<1>6. PackedFaithful /\ PackedByHost /\ PackedUnique
  BY DEF Init, PackedFaithful, PackedByHost, PackedUnique
<1>7. ReadyThere /\ TickReady
  BY <1>1 DEF Init, ReadyThere, TickReady, IsCtrlFrame
<1>8. LogPacked /\ NoTickSkipped
  BY <1>1 DEF Init, LogPacked, NoTickSkipped, IsCtrlFrame
<1> QED
  BY <1>3, <1>4, <1>5, <1>6, <1>7, <1>8 DEF Inv

(* A step that leaves the inputs alone keeps them on record. *)
LEMMA InputUnchanged ==
    ASSUME Inv, UNCHANGED <<sent, input>>
    PROVE  /\ InputKept
           /\ \A n \in Nodes : AreGenuine(stack[n])
           /\ \A n \in Nodes : HasOwn(n, stack[n], sent'[n])
           /\ \A m \in msgs : m.kind = "Control" => GenuineIn(m.pkt, input', packed)
<1>1. InputKept
  BY DEF Inv, TypeOK, InputCounted, InputKept
<1>2. \A n \in Nodes : AreGenuine(stack[n])
  BY DEF Inv, StacksGenuine, AreGenuine, Genuine
<1>3. \A n \in Nodes : HasOwn(n, stack[n], sent'[n])
  BY DEF Inv, OwnThere, HasOwn
<1>4. \A m \in msgs : m.kind = "Control" => GenuineIn(m.pkt, input', packed)
  BY DEF Inv, MessagesGenuine, Genuine
<1> QED
  BY <1>1, <1>2, <1>3, <1>4

(* C4GameControlNetwork::CtrlReady keeps the invariant.                    *)
LEMMA CtrlReadyInv ==
    ASSUME Inv, NEW n \in Nodes, CtrlReady(n)
    PROVE  Inv'
<1>1. /\ UNCHANGED <<clock, running, sent, loaded, input, log>>
      /\ CheckCompleteCtrl(n, stack[n], sent'[n], msgs)
      /\ waiting' \in [Nodes -> BOOLEAN]
  BY DEF CtrlReady, Execute, Inv, TypeOK
<1>2. stack[n] \in SUBSET Packets /\ msgs \in SUBSET Messages
      /\ sent' \in [Nodes -> Nat \cup {-1}] /\ loaded' \in [Nodes -> SUBSET Joins]
  BY <1>1 DEF Inv, TypeOK
<1> QED
  BY <1>1, <1>2, InputUnchanged, CheckPreserves

(* C4GameControlNetwork::OnResComplete keeps the invariant.                *)
LEMMA OnResCompleteInv ==
    ASSUME Inv, NEW n \in Nodes, NEW i \in Joins, OnResComplete(n, i)
    PROVE  Inv'
<1>1. /\ UNCHANGED <<clock, waiting, running, sent, input, log>>
      /\ CheckCompleteCtrl(n, stack[n], sent'[n], msgs)
      /\ loaded' \in [Nodes -> SUBSET Joins]
  BY DEF OnResComplete, Inv, TypeOK
<1>2. stack[n] \in SUBSET Packets /\ msgs \in SUBSET Messages
      /\ sent' \in [Nodes -> Nat \cup {-1}] /\ waiting' \in [Nodes -> BOOLEAN]
  BY <1>1 DEF Inv, TypeOK
<1> QED
  BY <1>1, <1>2, InputUnchanged, CheckPreserves

(* A step that only changes what is on its way, and puts nothing there but *)
(* what is in a stack, and requests.                                       *)
LEMMA MessagesOnly ==
    ASSUME Inv, UNCHANGED <<clock, waiting, running, sent, ready, stack, loaded, history>>,
           msgs' \in SUBSET Messages,
           \A m \in msgs' \ msgs : m.kind = "Control" => \E n \in Nodes : m.pkt \in stack[n]
    PROVE  Inv'
<1> USE DEF Inv, clock, history
<1>1. TypeOK'
  BY DEF TypeOK
<1>2. StacksGenuine' /\ InputCounted' /\ OwnThere'
  BY DEF StacksGenuine, Genuine, InputCounted, OwnThere
<1>3. MessagesGenuine'
  BY DEF MessagesGenuine, StacksGenuine, Genuine
<1>4. PackedFaithful' /\ PackedByHost' /\ PackedUnique'
  BY DEF PackedFaithful, PackedByHost, PackedUnique
<1>5. ReadyThere' /\ TickReady' /\ LogPacked' /\ NoTickSkipped'
  BY DEF ReadyThere, TickReady, LogPacked, NoTickSkipped, IsCtrlFrame
<1> QED
  BY <1>1, <1>2, <1>3, <1>4, <1>5

(* ... as C4GameControlNetwork::HandleControlReq ...                       *)
LEMMA HandleControlReqInv ==
    ASSUME Inv, NEW n \in Nodes, NEW m \in msgs, HandleControlReq(n, m)
    PROVE  Inv'
<1>1. m \in Messages /\ m.kind = "ControlReq" /\ m.from \in Nodes
  BY DEF HandleControlReq, Inv, TypeOK, Messages
<1>2. \A x \in msgs' \ msgs : \E p \in stack[n] : x = ControlMsg(n, m.from, p)
  BY DEF HandleControlReq, Answer
<1>3. \A p \in stack[n] : ControlMsg(n, m.from, p) \in Messages /\ ControlMsg(n, m.from, p).pkt = p
  BY <1>1 DEF ControlMsg, Messages, Inv, TypeOK
<1>4. msgs' \in SUBSET Messages
  BY <1>2, <1>3 DEF Inv, TypeOK
<1>5. \A x \in msgs' \ msgs : x.kind = "Control" => \E k \in Nodes : x.pkt \in stack[k]
  BY <1>2, <1>3
<1> QED
  BY <1>4, <1>5, MessagesOnly DEF HandleControlReq

(* ... and the loss of a connection.                                       *)
LEMMA LoseInv ==
    ASSUME Inv, NEW m \in msgs, Lose(m)
    PROVE  Inv'
<1>1. msgs' \subseteq msgs /\ msgs' \in SUBSET Messages
  BY DEF Lose, Inv, TypeOK
<1> QED
  BY <1>1, MessagesOnly DEF Lose

(* C4GameControlNetwork::HandleControl keeps the invariant.                *)
LEMMA HandleControlInv ==
    ASSUME Inv, NEW n \in Nodes, NEW m \in msgs, HandleControl(n, m)
    PROVE  Inv'
<1>1. m.kind = "Control" /\ m \in Messages /\ m.pkt \in Packets /\ GenuineIn(m.pkt, input, packed)
  BY DEF HandleControl, Inv, TypeOK, Messages, MessagesGenuine, Genuine
<1>2. UNCHANGED <<clock, waiting, running, sent, loaded, input, log>>
  BY DEF HandleControl
<1>3. CASE msgs' = msgs \ {m} /\ UNCHANGED <<ready, stack, packed>>
  <2>1. msgs' \subseteq msgs /\ msgs' \in SUBSET Messages
    BY <1>3 DEF Inv, TypeOK
  <2> QED
    BY <1>2, <1>3, <2>1, MessagesOnly DEF history
<1>4. CASE CheckCompleteCtrl(n, stack[n] \cup {m.pkt}, sent[n], msgs \ {m})
  <2> DEFINE S == stack[n] \cup {m.pkt}
             M == msgs \ {m}
  <2>1. S \in SUBSET Packets /\ M \in SUBSET Messages /\ stack[n] \subseteq S
        /\ sent' \in [Nodes -> Nat \cup {-1}] /\ waiting' \in [Nodes -> BOOLEAN]
        /\ loaded' \in [Nodes -> SUBSET Joins]
    BY <1>1, <1>2 DEF Inv, TypeOK
  <2>2. AreGenuine(S)
    BY <1>1, <1>2, InputUnchanged DEF AreGenuine
  <2>3. HasOwn(n, S, sent'[n])
    BY <1>2, InputUnchanged DEF HasOwn, HasCtrl, CtrlsFor
  <2>4. CheckCompleteCtrl(n, S, sent'[n], M)
    BY <1>2, <1>4
  <2>5. InputKept /\ \A x \in M : x.kind = "Control" => GenuineIn(x.pkt, input', packed)
    BY <1>2, InputUnchanged
  <2> HIDE DEF S, M
  <2> QED
    BY <1>2, <2>1, <2>2, <2>3, <2>4, <2>5, CheckPreserves
<1> QED
  BY <1>3, <1>4 DEF HandleControl

(* The stop at the target tick keeps the invariant.                        *)
LEMMA StopRunningInv ==
    ASSUME Inv, NEW n \in Nodes, StopRunning(n)
    PROVE  Inv'
<1> USE DEF Inv, clock, history, StopRunning
<1>1. TypeOK'
  BY DEF TypeOK
<1>2. StacksGenuine' /\ MessagesGenuine' /\ InputCounted' /\ OwnThere'
  BY DEF StacksGenuine, MessagesGenuine, Genuine, InputCounted, OwnThere
<1>3. PackedFaithful' /\ PackedByHost' /\ PackedUnique'
  BY DEF PackedFaithful, PackedByHost, PackedUnique
<1>4. ReadyThere' /\ TickReady' /\ LogPacked' /\ NoTickSkipped'
  BY DEF ReadyThere, TickReady, LogPacked, NoTickSkipped, IsCtrlFrame
<1> QED
  BY <1>1, <1>2, <1>3, <1>4

(* C4GameControlNetwork::DoInput keeps the invariant.                      *)
LEMMA DoInputInv ==
    ASSUME Inv, NEW n \in Nodes, NEW i \in Inputs, DoInput(n, i)
    PROVE  Inv'
<1> DEFINE t == sent[n] + 1
           p == [client |-> n, tick |-> t, ctrl |-> [c \in {n} |-> i]]
           S == stack[n] \cup {p}
           M == msgs \cup {ControlMsg(n, m, p) : m \in InputReceivers(n)}
<1>1. /\ n \in Active /\ n # All /\ t \in Nat
      /\ sent' = [sent EXCEPT ![n] = t]
      /\ input' = [input EXCEPT ![n] = Append(input[n], i)]
      /\ UNCHANGED <<clock, running, loaded, log>>
      /\ waiting' \in [Nodes -> BOOLEAN]
      /\ input[n] \in Seq(Inputs) /\ Len(input[n]) = t
  BY NodesAssumption DEF DoInput, CtrlNeeded, Execute, Inv, TypeOK, InputCounted
<1>2. CheckCompleteCtrl(n, S, sent'[n], M)
  <2>1. sent'[n] = t
    BY <1>1 DEF Inv, TypeOK
  <2> QED
    BY <2>1 DEF DoInput
<1>3. p \in Packets /\ p.client = n /\ p.tick = t /\ p.ctrl[n] = i
  <2>1. p.ctrl \in [{n} -> Inputs] /\ {n} \in SUBSET Active /\ DOMAIN p.ctrl = {n}
    BY <1>1
  <2>2. p.ctrl \in Controls
    BY <2>1 DEF Controls
  <2> QED
    BY <1>1, <2>1, <2>2 DEF Packets
<1> HIDE DEF p
<1>4. S \in SUBSET Packets /\ M \in SUBSET Messages /\ stack[n] \subseteq S
  <2>1. InputReceivers(n) \subseteq Nodes
    BY NodesAssumption DEF InputReceivers
  <2>2. \A m \in InputReceivers(n) : ControlMsg(n, m, p) \in Messages
    BY <1>3, <2>1 DEF ControlMsg, Messages
  <2> QED
    BY <1>3, <2>2 DEF Inv, TypeOK
<1>5. /\ sent' \in [Nodes -> Nat \cup {-1}] /\ loaded' \in [Nodes -> SUBSET Joins]
      /\ \A m \in Nodes \ {n} : sent'[m] = sent[m]
      /\ sent'[n] = t
  BY <1>1 DEF Inv, TypeOK
<1>6. /\ input'[n] = Append(input[n], i) /\ input'[n] \in Seq(Inputs)
      /\ Len(input'[n]) = t + 1 /\ input'[n][t + 1] = i
      /\ \A k \in 1 .. Len(input[n]) : input'[n][k] = input[n][k]
  BY <1>1 DEF Inv, TypeOK
<1>7. InputKept
  <2>1. input' \in [Active -> Seq(Inputs)]
    BY <1>1, <1>6 DEF Inv, TypeOK
  <2>2. ASSUME NEW c \in Active
        PROVE  /\ Len(input'[c]) = sent'[c] + 1
               /\ Len(input[c]) <= Len(input'[c])
               /\ \A k \in 1 .. Len(input[c]) : input'[c][k] = input[c][k]
    <3>1. CASE c = n
      BY <1>1, <1>5, <1>6, <3>1
    <3>2. CASE c # n
      <4>1. input'[c] = input[c] /\ sent'[c] = sent[c]
        BY <1>1, <1>5, <3>2, NodesAssumption DEF Inv, TypeOK
      <4>2. Len(input[c]) = sent[c] + 1 /\ Len(input[c]) \in Nat
        BY DEF Inv, InputCounted, TypeOK
      <4> QED
        BY <4>1, <4>2
    <3> QED
      BY <3>1, <3>2
  <2> QED
    BY <2>1, <2>2 DEF InputKept
<1>8. GenuineIn(p, input', packed)
  BY <1>1, <1>3, <1>6 DEF GenuineIn
<1>9. AreGenuine(S)
  <2>1. \A q \in stack[n] : q \in Packets /\ Genuine(q)
    BY DEF Inv, StacksGenuine, TypeOK
  <2>2. TypeOK
    BY DEF Inv
  <2>3. \A q \in stack[n] : GenuineIn(q, input', packed)
    BY <1>7, <2>1, <2>2, GenuineKept
  <2> QED
    BY <1>8, <2>3 DEF AreGenuine
<1>10. \A m \in M : m.kind = "Control" => GenuineIn(m.pkt, input', packed)
  <2>1. ASSUME NEW m \in msgs, m.kind = "Control"
        PROVE  GenuineIn(m.pkt, input', packed)
    <3>1. m.pkt \in Packets /\ Genuine(m.pkt) /\ TypeOK
      BY <2>1 DEF Inv, TypeOK, Messages, MessagesGenuine
    <3> QED
      BY <1>7, <3>1, GenuineKept
  <2>2. \A m \in Nodes : ControlMsg(n, m, p).pkt = p
    BY DEF ControlMsg
  <2>3. InputReceivers(n) \subseteq Nodes
    BY NodesAssumption DEF InputReceivers
  <2> QED
    BY <1>8, <2>1, <2>2, <2>3
<1>11. HasOwn(n, S, sent'[n])
  <2> SUFFICES ASSUME NEW k \in ready[n] + 1 .. sent'[n]
               PROVE  HasCtrl(S, n, k)
    BY DEF HasOwn
  <2>1. CASE k = t
    BY <1>3, <2>1 DEF HasCtrl, CtrlsFor
  <2>2. CASE k # t
    <3>1. k \in ready[n] + 1 .. sent[n]
      <4>1. sent[n] \in Int /\ ready[n] \in Int
        BY DEF Inv, TypeOK
      <4>2. sent'[n] = sent[n] + 1 /\ t = sent[n] + 1
        BY <1>1, <1>5
      <4> QED
        BY <2>2, <4>1, <4>2
    <3>2. HasCtrl(stack[n], n, k)
      BY <1>1, <3>1 DEF Inv, OwnThere
    <3> QED
      BY <3>2 DEF HasCtrl, CtrlsFor
  <2> QED
    BY <2>1, <2>2
<1> HIDE DEF S, M, t
<1> QED
  BY <1>1, <1>2, <1>4, <1>5, <1>7, <1>9, <1>10, <1>11, CheckPreserves

(* What a client has executed when it executes one more control. *)
LEMMA AppendFacts ==
    ASSUME NEW T, NEW s \in Seq(T), NEW e \in T
    PROVE  /\ Append(s, e) \in Seq(T)
           /\ \A k \in DOMAIN s : Append(s, e)[k] = s[k]
           /\ \A k \in DOMAIN Append(s, e) : k \notin DOMAIN s => Append(s, e)[k] = e
OBVIOUS

(* C4GameControl::Execute and Ticks keep the invariant.                    *)
LEMMA ExecuteFrameInv ==
    ASSUME Inv, NEW n \in Nodes, ExecuteFrame(n)
    PROVE  Inv'
<1> DEFINE p == getCtrl(stack[n], All, ctrlTick[n])
<1>1. /\ IsCtrlFrame(frame[n]) => ready[n] >= ctrlTick[n]
      /\ frame' = [frame EXCEPT ![n] = frame[n] + 1]
      /\ ctrlTick' = [ctrlTick EXCEPT ![n] = IF IsCtrlFrame(frame[n] + 1) THEN ctrlTick[n] + 1 ELSE ctrlTick[n]]
      /\ UNCHANGED <<running, sent, ready, stack, loaded, msgs, input, packed>>
  BY DEF ExecuteFrame
<1>2. ctrlTick[n] \in Nat /\ frame[n] \in Nat /\ ready[n] \in Nat \cup {-1}
      /\ log[n] \in Seq(Packets) /\ Len(log[n]) \in Nat
  BY DEF Inv, TypeOK
<1>3. ASSUME IsCtrlFrame(frame[n])
      PROVE  /\ HasCtrl(stack[n], All, ctrlTick[n])
             /\ p \in Packets /\ p \in packed /\ p.tick = ctrlTick[n]
             /\ log' = [log EXCEPT ![n] = Append(log[n], p)]
             /\ waiting' \in [Nodes -> BOOLEAN] /\ preSend' \in [Nodes -> PreSends]
  <2>1. HasCtrl(stack[n], All, ctrlTick[n])
    BY <1>1, <1>2, <1>3 DEF Inv, ReadyThere
  <2>2. p \in stack[n] /\ p.client = All /\ p.tick = ctrlTick[n]
    BY <2>1, GetCtrl
  <2> HIDE DEF p
  <2>3. p \in Packets /\ p \in packed
    BY <2>2 DEF Inv, TypeOK, StacksGenuine, Genuine, GenuineIn
  <2>4. /\ log' = [log EXCEPT ![n] = Append(log[n], p)]
        /\ waiting' = [waiting EXCEPT ![n] = FALSE]
        /\ \E ps \in PreSends : preSend' = [preSend EXCEPT ![n] = ps]
    BY <1>3, <2>1 DEF ExecuteFrame, p
  <2> QED
    BY <2>1, <2>2, <2>3, <2>4 DEF Inv, TypeOK
<1>4. ASSUME ~IsCtrlFrame(frame[n])
      PROVE  UNCHANGED <<log, waiting, preSend>>
  BY <1>4 DEF ExecuteFrame
<1> HIDE DEF p
<1>5. TypeOK'
  <2>1. frame' \in [Nodes -> Nat] /\ ctrlTick' \in [Nodes -> Nat]
    BY <1>1, <1>2 DEF Inv, TypeOK
  <2>2. log' \in [Nodes -> Seq(Packets)] /\ waiting' \in [Nodes -> BOOLEAN]
        /\ preSend' \in [Nodes -> PreSends]
    <3>1. CASE IsCtrlFrame(frame[n])
      <4>1. Append(log[n], p) \in Seq(Packets)
        BY <1>2, <1>3, <3>1, AppendFacts
      <4>2. log' = [log EXCEPT ![n] = Append(log[n], p)]
        BY <1>3, <3>1
      <4>3. log \in [Nodes -> Seq(Packets)]
        BY DEF Inv, TypeOK
      <4>4. log' \in [Nodes -> Seq(Packets)]
        BY <4>1, <4>2, <4>3, Zenon
      <4> QED
        BY <1>3, <3>1, <4>4
    <3>2. CASE ~IsCtrlFrame(frame[n])
      BY <1>4, <3>2 DEF Inv, TypeOK
    <3> QED
      BY <3>1, <3>2
  <2> QED
    BY <1>1, <2>1, <2>2 DEF Inv, TypeOK
<1>6. StacksGenuine' /\ MessagesGenuine' /\ InputCounted' /\ OwnThere'
  BY <1>1 DEF Inv, StacksGenuine, MessagesGenuine, Genuine, InputCounted, OwnThere
<1>7. PackedFaithful' /\ PackedByHost' /\ PackedUnique'
  BY <1>1 DEF Inv, PackedFaithful, PackedByHost, PackedUnique
<1>8. /\ frame'[n] = frame[n] + 1
      /\ ctrlTick'[n] = IF IsCtrlFrame(frame[n] + 1) THEN ctrlTick[n] + 1 ELSE ctrlTick[n]
      /\ \A m \in Nodes \ {n} : frame'[m] = frame[m] /\ ctrlTick'[m] = ctrlTick[m] /\ log'[m] = log[m]
      /\ IsCtrlFrame(frame[n]) => log'[n] = Append(log[n], p)
      /\ ~IsCtrlFrame(frame[n]) => log'[n] = log[n]
  BY <1>1, <1>3, <1>4 DEF Inv, TypeOK
<1>9. ReadyThere'
  BY <1>1, <1>2, <1>8 DEF Inv, TypeOK, ReadyThere
<1>10. TickReady'
  <2> SUFFICES ASSUME NEW m \in Nodes
               PROVE  ctrlTick'[m] <= IF IsCtrlFrame(frame'[m]) THEN ready[m] + 1 ELSE ready[m]
    BY <1>1 DEF TickReady, IsCtrlFrame
  <2>1. CASE m # n
    BY <1>8, <2>1 DEF Inv, TickReady
  <2>2. CASE m = n
    <3>1. ctrlTick[n] <= ready[n]
      BY <1>1, <1>2 DEF Inv, TickReady
    <3> QED
      BY <1>2, <1>8, <2>2, <3>1
  <2> QED
    BY <2>1, <2>2
<1>11. LogPacked'
  <2> SUFFICES ASSUME NEW m \in Nodes, NEW k \in DOMAIN log'[m]
               PROVE  log'[m][k] \in packed
    BY <1>1 DEF LogPacked
  <2>1. CASE m # n \/ ~IsCtrlFrame(frame[n])
    BY <1>8, <2>1 DEF Inv, LogPacked
  <2>2. CASE m = n /\ IsCtrlFrame(frame[n])
    <3>1. log'[n] = Append(log[n], p) /\ p \in packed /\ p \in Packets
      BY <1>3, <1>8, <2>2
    <3>2. CASE k \in DOMAIN log[n]
      <4>1. log'[m][k] = log[n][k]
        BY <1>2, <2>2, <3>1, <3>2, AppendFacts
      <4> QED
        BY <3>2, <4>1 DEF Inv, LogPacked
    <3>3. CASE k \notin DOMAIN log[n]
      BY <1>2, <2>2, <3>1, <3>3, AppendFacts
    <3> QED
      BY <3>2, <3>3
  <2> QED
    BY <2>1, <2>2
<1>12. NoTickSkipped'
  <2> SUFFICES ASSUME NEW m \in Nodes
               PROVE  /\ \A k \in DOMAIN log'[m] : log'[m][k].tick = k - 1
                      /\ Len(log'[m]) = IF IsCtrlFrame(frame'[m]) THEN ctrlTick'[m] ELSE ctrlTick'[m] + 1
    BY DEF NoTickSkipped, IsCtrlFrame
  <2>1. CASE m # n
    BY <1>8, <2>1 DEF Inv, NoTickSkipped
  <2>2. CASE m = n /\ ~IsCtrlFrame(frame[n])
    BY <1>2, <1>8, <2>2 DEF Inv, NoTickSkipped
  <2>3. CASE m = n /\ IsCtrlFrame(frame[n])
    <3>1. log'[n] = Append(log[n], p) /\ p.tick = ctrlTick[n] /\ Len(log[n]) = ctrlTick[n]
      BY <1>3, <1>8, <2>3 DEF Inv, NoTickSkipped
    <3>2. \A k \in DOMAIN log[n] : log[n][k].tick = k - 1
      BY DEF Inv, NoTickSkipped
    <3> QED
      BY <1>2, <1>3, <1>8, <2>3, <3>1, <3>2
  <2> QED
    BY <2>1, <2>2, <2>3
<1> QED
  BY <1>5, <1>6, <1>7, <1>9, <1>10, <1>11, <1>12 DEF Inv

(* Every step keeps the invariant.                                         *)
LEMMA NextInv == Inv /\ [Next]_vars => Inv'
<1> SUFFICES ASSUME Inv, [Next]_vars PROVE Inv'
  OBVIOUS
<1>1. ASSUME NEW n \in Nodes, NEW i \in Inputs, DoInput(n, i) PROVE Inv'
  BY <1>1, DoInputInv
<1>2. ASSUME NEW n \in Nodes, CtrlReady(n) PROVE Inv'
  BY <1>2, CtrlReadyInv
<1>3. ASSUME NEW n \in Nodes, ExecuteFrame(n) PROVE Inv'
  BY <1>3, ExecuteFrameInv
<1>4. ASSUME NEW n \in Nodes, StopRunning(n) PROVE Inv'
  BY <1>4, StopRunningInv
<1>5. ASSUME NEW n \in Nodes, NEW m \in msgs, HandleControl(n, m) PROVE Inv'
  BY <1>5, HandleControlInv
<1>6. ASSUME NEW n \in Nodes, NEW m \in msgs, HandleControlReq(n, m) PROVE Inv'
  BY <1>6, HandleControlReqInv
<1>7. ASSUME NEW n \in Nodes, NEW i \in Joins, OnResComplete(n, i) PROVE Inv'
  BY <1>7, OnResCompleteInv
<1>8. ASSUME NEW m \in msgs, Lose(m) PROVE Inv'
  BY <1>8, LoseInv
<1>9. ASSUME UNCHANGED vars PROVE Inv'
  BY <1>9, MessagesOnly DEF vars, Inv, TypeOK
<1> QED
  BY <1>1, <1>2, <1>3, <1>4, <1>5, <1>6, <1>7, <1>8, <1>9 DEF Next, Stop

(* Every reachable state satisfies the inductive invariant: what travels   *)
(* and what is stored is genuine, complete controls are unique for their   *)
(* tick, and what is due is there.                                         *)
THEOREM Invariant == Spec => []Inv
BY InitInv, NextInv, PTL DEF Spec
-----------------------------------------------------------------------------
(* The control exchange keeps its types. *)
THEOREM TypeCorrect == Spec => []TypeOK
<1>1. Inv => TypeOK
  BY DEF Inv
<1> QED
  BY <1>1, Invariant, PTL

(* Every client executes every tick, once and in order. *)
THEOREM NoTickSkippedHolds == Spec => []NoTickSkipped
<1>1. Inv => NoTickSkipped
  BY DEF Inv
<1> QED
  BY <1>1, Invariant, PTL

(* Two clients execute the same control for a tick: both executed what was *)
(* packed for it, and for a tick only one control is ever packed.          *)
THEOREM AgreementHolds == Spec => []Agreement
<1>1. Inv => Agreement
  <2> SUFFICES ASSUME Inv, NEW n \in Nodes, NEW m \in Nodes,
                      NEW k \in DOMAIN log[n] \cap DOMAIN log[m]
               PROVE  log[n][k] = log[m][k]
    BY DEF Agreement
  <2>1. log[n][k] \in packed /\ log[m][k] \in packed
    BY DEF Inv, LogPacked
  <2>2. log[n][k].tick = log[m][k].tick
    BY DEF Inv, NoTickSkipped
  <2> QED
    BY <2>1, <2>2 DEF Inv, PackedUnique
<1> QED
  BY <1>1, Invariant, PTL

(* What is executed for a tick is what the clients put in for it: of every *)
(* client when the game is not asynchronous, and of the host always.       *)
THEOREM FaithfulControlHolds == Spec => []FaithfulControl
<1>1. Inv => FaithfulControl
  <2> SUFFICES ASSUME Inv, NEW n \in Nodes, NEW k \in DOMAIN log[n]
               PROVE  LET ctrl == log[n][k].ctrl
                      IN  /\ \A c \in DOMAIN ctrl : k <= Len(input[c]) /\ ctrl[c] = input[c][k]
                          /\ IF Mode = "Async" THEN Host \in DOMAIN ctrl ELSE DOMAIN ctrl = Active
    BY DEF FaithfulControl
  <2>1. log[n][k] \in packed /\ log[n][k].tick = k - 1 /\ k \in Nat
    BY DEF Inv, TypeOK, LogPacked, NoTickSkipped
  <2>2. PICK p \in packed : p = log[n][k]
    BY <2>1
  <2>3. p \in Packets /\ p.client = All
    BY DEF Inv, TypeOK, PackedFaithful
  <2>4. ASSUME NEW c \in DOMAIN p.ctrl
        PROVE  k <= Len(input[c]) /\ p.ctrl[c] = input[c][k]
    <3>1. p.tick < Len(input[c]) /\ p.ctrl[c] = input[c][p.tick + 1]
      BY DEF Inv, PackedFaithful
    <3>2. Len(input[c]) \in Nat
      BY <2>3, CompleteDomain DEF Inv, TypeOK
    <3> QED
      BY <2>1, <2>2, <3>1, <3>2
  <2>5. IF Mode = "Async" THEN Host \in DOMAIN p.ctrl ELSE DOMAIN p.ctrl = Active
    BY DEF Inv, PackedFaithful
  <2> QED
    BY <2>2, <2>4, <2>5
<1> QED
  BY <1>1, Invariant, PTL

-----------------------------------------------------------------------------
(***************************************************************************)
(* The complete controls of a game are decided one tick after the other:   *)
(* the control exchange stops at its target, executes a join only where    *)
(* its resource is there, and implements Lockstep; what it throws away no  *)
(* client needs any more.                                                  *)
(***************************************************************************)
(* The ticks that are packed have no gap, what is ready is packed, nothing *)
(* is packed for the target, and what is ready at a client finds its       *)
(* resources there.                                                        *)
PackedTicks == \E k \in Nat : {p.tick : p \in packed} = 0 .. k - 1

ReadyPacked == \A n \in Nodes : \A t \in 0 .. ready[n] : \E p \in packed : p.tick = t

PackedBeforeTarget == \A p \in packed : BeforeTarget(p.tick)

ReadyLoaded ==
    \A n \in Nodes : \A p \in packed : p.tick <= ready[n] => PreExecute(loaded[n], p)

DecidedInv ==
    /\ PackedTicks
    /\ ReadyPacked
    /\ PackedBeforeTarget
    /\ ReadyLoaded

(* What a step that ends in CheckCompleteCtrl does to the complete         *)
(* controls: client n packs new and takes its ready tick to r.             *)
Checks(n, new, r) ==
    /\ \A p \in new : p.tick > ready[n] /\ p.tick <= r + 1 /\ BeforeTarget(p.tick)
    /\ r \in Nat \cup {-1}
    /\ r >= ready[n]
    /\ \A t \in ready[n] + 1 .. r : IsReadyIn(n, packed', t)
    /\ ready' = [ready EXCEPT ![n] = r]
    /\ packed' = packed \cup new
    /\ log' = log
    /\ \A m \in Nodes : loaded[m] \subseteq loaded'[m]

(* That is what CheckCompleteCtrl does. *)
LEMMA CheckCompleteChecks ==
    ASSUME TypeOK, NEW n \in Nodes, NEW S \in SUBSET Packets, NEW sentNow, NEW M,
           \A p \in S : p.client = All => p \in packed,
           log' = log, \A m \in Nodes : loaded[m] \subseteq loaded'[m],
           CheckCompleteCtrl(n, S, sentNow, M)
    PROVE  \E new \in SUBSET Packets, r \in Int : Checks(n, new, r)
<1>1. PICK new \in SUBSET Packets, r \in Int : Effect(n, S, sentNow, M, new, r)
  BY CheckCompleteEffect
<1>2. \A p \in new : p.tick > ready[n] /\ p.tick <= r + 1 /\ BeforeTarget(p.tick)
  BY <1>1 DEF Effect, MayPack
<1>3. \A t \in ready[n] + 1 .. r : IsReadyIn(n, packed', t)
  <2> TAKE t \in ready[n] + 1 .. r
  <2>1. IsReadyIn(n, S \cup new, t)
    BY <1>1 DEF Effect
  <2>2. PICK p \in S \cup new : p.client = All /\ p.tick = t /\ PreExecute(loaded'[n], p)
    BY <2>1 DEF IsReadyIn
  <2>3. p \in packed'
    BY <1>1, <2>2 DEF Effect
  <2> QED
    BY <2>2, <2>3 DEF IsReadyIn
<1> QED
  BY <1>1, <1>2, <1>3 DEF Effect, Checks

(* A step packs and makes ready as CheckCompleteCtrl does, executes a      *)
(* frame, or does nothing to the complete controls.                        *)
LEMMA StepKinds ==
    ASSUME Inv, [Next]_vars
    PROVE  \/ UNCHANGED <<ready, loaded, packed, log>>
           \/ \E n \in Nodes : ExecuteFrame(n)
           \/ \E n \in Nodes, new \in SUBSET Packets, r \in Int : Checks(n, new, r)
<1> DEFINE Kind == \/ UNCHANGED <<ready, loaded, packed, log>>
                   \/ \E n \in Nodes : ExecuteFrame(n)
                   \/ \E n \in Nodes, new \in SUBSET Packets, r \in Int : Checks(n, new, r)
<1>0. TypeOK /\ \A n \in Nodes : \A p \in stack[n] : p \in Packets /\ (p.client = All => p \in packed)
  BY DEF Inv, TypeOK, StacksGenuine, Genuine, GenuineIn
<1>1. ASSUME NEW n \in Nodes, NEW i \in Inputs, DoInput(n, i) PROVE Kind
  <2>1. n \in Active /\ sent[n] + 1 \in Nat /\ loaded' = loaded /\ log' = log
    <3>1. n \in Active /\ loaded' = loaded /\ log' = log
      BY <1>1 DEF DoInput, CtrlNeeded
    <3>2. sent[n] \in Nat \cup {-1}
      BY <1>0 DEF TypeOK
    <3> QED
      BY <3>1, <3>2
  <2> DEFINE p == [client |-> n, tick |-> sent[n] + 1, ctrl |-> [c \in {n} |-> i]]
             M == msgs \cup {ControlMsg(n, m, p) : m \in InputReceivers(n)}
  <2>3. CheckCompleteCtrl(n, stack[n] \cup {p}, sent[n] + 1, M)
    BY <1>1 DEF DoInput
  <2>2. p \in Packets /\ p.client # All
    <3>1. p.ctrl \in [{n} -> Inputs] /\ {n} \in SUBSET Active /\ n # All
      BY <2>1, NodesAssumption
    <3>2. p.ctrl \in Controls
      BY <3>1 DEF Controls
    <3> QED
      BY <2>1, <3>1, <3>2 DEF Packets
  <2> HIDE DEF p, M
  <2> QED
    BY <1>0, <2>1, <2>2, <2>3, CheckCompleteChecks
<1>2. ASSUME NEW n \in Nodes, CtrlReady(n) PROVE Kind
  BY <1>0, <1>2, CheckCompleteChecks DEF CtrlReady
<1>3. ASSUME NEW n \in Nodes, ExecuteFrame(n) PROVE Kind
  BY <1>3
<1>4. ASSUME NEW n \in Nodes, StopRunning(n) PROVE Kind
  BY <1>4 DEF StopRunning, history
<1>5. ASSUME NEW n \in Nodes, NEW m \in msgs, HandleControl(n, m) PROVE Kind
  <2>1. m.kind = "Control" /\ UNCHANGED <<loaded, log>>
    BY <1>5 DEF HandleControl
  <2>2. m.pkt \in Packets /\ (m.pkt.client = All => m.pkt \in packed)
    BY <2>1 DEF Inv, TypeOK, Messages, MessagesGenuine, Genuine, GenuineIn
  <2>3. \/ UNCHANGED <<ready, packed>>
        \/ CheckCompleteCtrl(n, stack[n] \cup {m.pkt}, sent[n], msgs \ {m})
    BY <1>5 DEF HandleControl
  <2> QED
    BY <1>0, <2>1, <2>2, <2>3, CheckCompleteChecks
<1>6. ASSUME NEW n \in Nodes, NEW m \in msgs, HandleControlReq(n, m) PROVE Kind
  BY <1>6 DEF HandleControlReq, history
<1>7. ASSUME NEW n \in Nodes, NEW i \in Joins, OnResComplete(n, i) PROVE Kind
  <2>1. /\ log' = log
        /\ \A m \in Nodes : loaded[m] \subseteq loaded'[m]
        /\ CheckCompleteCtrl(n, stack[n], sent[n], msgs)
    BY <1>0, <1>7 DEF OnResComplete, TypeOK
  <2> QED
    BY <1>0, <2>1, CheckCompleteChecks
<1>8. ASSUME NEW m \in msgs, Lose(m) PROVE Kind
  BY <1>8 DEF Lose, history
<1>9. ASSUME UNCHANGED vars PROVE Kind
  BY <1>9 DEF vars, history
<1> QED
  BY <1>1, <1>2, <1>3, <1>4, <1>5, <1>6, <1>7, <1>8, <1>9 DEF Next, Stop

(* Every step keeps it: what a step packs follows without a gap what was   *)
(* packed, since it packs at most the tick after its last ready one.       *)
LEMMA ChecksDecided ==
    ASSUME Inv, Inv', DecidedInv, NEW n \in Nodes, NEW new \in SUBSET Packets, NEW r \in Int,
           Checks(n, new, r)
    PROVE  DecidedInv'
<1>1. /\ ready \in [Nodes -> Nat \cup {-1}] /\ loaded \in [Nodes -> SUBSET Joins]
      /\ \A p \in packed' : p.tick \in Nat
  BY PacketTick DEF Inv, TypeOK
<1>2. /\ ready'[n] = r /\ ready[n] <= r
      /\ \A m \in Nodes \ {n} : ready'[m] = ready[m]
      /\ packed' = packed \cup new
      /\ \A m \in Nodes : loaded[m] \subseteq loaded'[m]
  BY <1>1 DEF Checks
<1>3. ReadyPacked'
  <2> SUFFICES ASSUME NEW m \in Nodes, NEW t \in 0 .. ready'[m]
               PROVE  \E p \in packed' : p.tick = t
    BY DEF ReadyPacked
  <2>1. CASE t \in 0 .. ready[m]
    BY <1>2, <2>1 DEF DecidedInv, ReadyPacked
  <2>2. CASE t \notin 0 .. ready[m]
    <3>1. m = n /\ t \in ready[n] + 1 .. r
      BY <1>1, <1>2, <2>2
    <3> QED
      BY <3>1 DEF Checks, IsReadyIn
  <2> QED
    BY <2>1, <2>2
<1>4. PackedTicks'
  <2>1. PICK k \in Nat : {p.tick : p \in packed} = 0 .. k - 1
    BY DEF DecidedInv, PackedTicks
  <2> DEFINE T == {p.tick : p \in packed'}
             l == IF \E p \in new : p.tick = r + 1 THEN r + 2 ELSE r + 1
             j == IF l > k THEN l ELSE k
  <2>2. r \in Nat \cup {-1} /\ l \in Nat /\ j \in Nat
    BY DEF Checks
  <2>3. \A t \in Nat : t <= r => t \in T
    BY <1>2, <1>3, <2>2 DEF ReadyPacked
  <2>4. \A p \in new : p.tick \in Nat /\ p.tick < l
    BY <1>1, <1>2, <2>2 DEF Checks
  <2>5. ASSUME NEW t \in T
        PROVE  t \in 0 .. j - 1
    <3>1. PICK p \in packed \cup new : t = p.tick
      BY <1>2
    <3>2. CASE p \in packed
      BY <2>1, <2>2, <3>1, <3>2
    <3>3. CASE p \in new
      BY <2>2, <2>4, <3>1, <3>3
    <3> QED
      BY <3>1, <3>2, <3>3
  <2>6. ASSUME NEW t \in 0 .. j - 1
        PROVE  t \in T
    <3>1. CASE t < k
      <4>1. t \in {p.tick : p \in packed}
        BY <2>1, <2>2, <3>1
      <4> QED
        BY <1>2, <4>1
    <3>2. CASE t >= k
      <4>1. t < l
        BY <2>2, <3>2
      <4>2. t <= r \/ (t = r + 1 /\ \E p \in new : p.tick = r + 1)
        BY <2>2, <4>1
      <4> QED
        BY <1>2, <2>3, <4>2
    <3> QED
      BY <2>2, <3>1, <3>2
  <2>7. T = 0 .. j - 1
    BY <2>5, <2>6
  <2> QED
    BY <2>2, <2>7 DEF PackedTicks
<1>5. PackedBeforeTarget'
  BY <1>2 DEF DecidedInv, PackedBeforeTarget, Checks, BeforeTarget
<1>6. ReadyLoaded'
  <2> SUFFICES ASSUME NEW m \in Nodes, NEW p \in packed', p.tick <= ready'[m]
               PROVE  PreExecute(loaded'[m], p)
    BY DEF ReadyLoaded
  <2>1. \A q \in packed' : q.tick = p.tick => q = p
    BY DEF Inv, PackedUnique
  <2>2. CASE p.tick <= ready[m]
    <3>1. p.tick \in 0 .. ready[m]
      BY <1>1, <2>2
    <3>2. PICK q \in packed : q.tick = p.tick
      BY <3>1 DEF DecidedInv, ReadyPacked
    <3>3. p \in packed
      BY <1>2, <2>1, <3>2
    <3> QED
      BY <1>2, <2>2, <3>3 DEF DecidedInv, ReadyLoaded, PreExecute
  <2>3. CASE p.tick > ready[m]
    <3>1. m = n /\ p.tick \in ready[n] + 1 .. r
      BY <1>1, <1>2, <2>3
    <3>2. PICK q \in packed' : q.tick = p.tick /\ PreExecute(loaded'[n], q)
      BY <3>1 DEF Checks, IsReadyIn
    <3> QED
      BY <2>1, <3>1, <3>2
  <2> QED
    BY <1>1, <2>2, <2>3
<1> QED
  BY <1>3, <1>4, <1>5, <1>6 DEF DecidedInv

(* At first nothing is packed and nobody is ready. *)
LEMMA InitDecided == Init => DecidedInv
<1> SUFFICES ASSUME Init PROVE DecidedInv
  OBVIOUS
<1>1. {p.tick : p \in packed} = 0 .. 0 - 1
  BY DEF Init
<1>2. PackedTicks
  BY <1>1 DEF PackedTicks
<1>3. ReadyPacked
  BY DEF Init, ReadyPacked
<1> QED
  BY <1>2, <1>3 DEF Init, DecidedInv, PackedBeforeTarget, ReadyLoaded

(* No step packs a tick twice, leaves one out or makes somebody ready for  *)
(* a tick that is not packed or not loaded.                                *)
LEMMA NextDecided == Inv /\ Inv' /\ DecidedInv /\ [Next]_vars => DecidedInv'
<1> SUFFICES ASSUME Inv, Inv', DecidedInv, [Next]_vars PROVE DecidedInv'
  OBVIOUS
<1>1. ASSUME UNCHANGED <<ready, loaded, packed>> PROVE DecidedInv'
  BY <1>1 DEF DecidedInv, PackedTicks, ReadyPacked, PackedBeforeTarget, BeforeTarget,
              ReadyLoaded, PreExecute
<1>2. ASSUME NEW n \in Nodes, ExecuteFrame(n) PROVE DecidedInv'
  BY <1>1, <1>2 DEF ExecuteFrame
<1> QED
  BY <1>1, <1>2, StepKinds, ChecksDecided

(* In every reachable state the complete controls are decided one tick     *)
(* after the other, and ready where they can be executed.                  *)
THEOREM DecidedInvariant == Spec => []DecidedInv
BY Invariant, InitDecided, NextDecided, PTL DEF Spec
-----------------------------------------------------------------------------
(* With a target tick set, nobody executes it and nobody packs a control   *)
(* for it: what is executed was packed (CheckCompleteCtrl, iStopTick).     *)
THEOREM StopsAtTargetHolds == Spec => []StopsAtTarget
<1>1. Inv /\ DecidedInv => StopsAtTarget
  <2> SUFFICES ASSUME Inv, DecidedInv, TargetTick >= 0
               PROVE  /\ \A n \in Nodes : Len(log[n]) <= TargetTick
                      /\ \A p \in packed : p.tick < TargetTick
    BY DEF StopsAtTarget
  <2>1. \A p \in packed : p.tick < TargetTick
    BY DEF DecidedInv, PackedBeforeTarget, BeforeTarget
  <2>2. ASSUME NEW n \in Nodes
        PROVE  Len(log[n]) <= TargetTick
    <3>1. Len(log[n]) \in Nat /\ DOMAIN log[n] = 1 .. Len(log[n])
      BY DEF Inv, TypeOK
    <3>2. CASE Len(log[n]) = 0
      BY <3>2
    <3>3. CASE Len(log[n]) > 0
      <4> DEFINE k == Len(log[n])
      <4>1. k \in DOMAIN log[n]
        BY <3>1, <3>3
      <4>2. log[n][k] \in packed /\ log[n][k].tick = k - 1
        BY <4>1 DEF Inv, LogPacked, NoTickSkipped
      <4>3. k - 1 < TargetTick
        BY <2>1, <4>2
      <4> QED
        BY <3>1, <4>3, TargetTickAssumption
    <3> QED
      BY <3>1, <3>2, <3>3
  <2> QED
    BY <2>1, <2>2
<1> QED
  BY <1>1, Invariant, DecidedInvariant, PTL

(* A player join is executed only where its resource is complete: what is  *)
(* executed was ready, and ready means that PreExecute said so.            *)
THEOREM ResourcesPresentHolds == Spec => []ResourcesPresent
<1>1. Inv /\ DecidedInv => ResourcesPresent
  <2> SUFFICES ASSUME Inv, DecidedInv, NEW n \in Nodes, NEW k \in DOMAIN log[n]
               PROVE  PreExecute(loaded[n], log[n][k])
    BY DEF ResourcesPresent
  <2>1. log[n][k] \in packed /\ log[n][k].tick = k - 1
    BY DEF Inv, LogPacked, NoTickSkipped
  <2>2. k - 1 <= ready[n]
    <3>1. /\ k \in 1 .. Len(log[n]) /\ Len(log[n]) \in Nat
          /\ ctrlTick[n] \in Nat /\ ready[n] \in Int
      BY DEF Inv, TypeOK
    <3>2. Len(log[n]) = IF IsCtrlFrame(frame[n]) THEN ctrlTick[n] ELSE ctrlTick[n] + 1
      BY DEF Inv, NoTickSkipped
    <3>3. ctrlTick[n] <= IF IsCtrlFrame(frame[n]) THEN ready[n] + 1 ELSE ready[n]
      BY DEF Inv, TickReady
    <3> QED
      BY <3>1, <3>2, <3>3
  <2> QED
    BY <2>1, <2>2 DEF DecidedInv, ReadyLoaded
<1> QED
  BY <1>1, Invariant, DecidedInvariant, PTL
-----------------------------------------------------------------------------
(* The refinement of Lockstep.  The controls that are decided by the       *)
(* packed controls P.                                                      *)
DecidedBy(P) ==
    [k \in 1 .. Cardinality({p.tick : p \in P}) |-> (CHOOSE p \in P : p.tick = k - 1).ctrl]

(* One for each tick from 0 on, when P has no gap and one control a tick. *)
LEMMA DecidedByFacts ==
    ASSUME NEW P \in SUBSET Packets, \A p, q \in P : p.tick = q.tick => p = q,
           NEW k \in Nat, {p.tick : p \in P} = 0 .. k - 1
    PROVE  /\ DecidedBy(P) \in [1 .. k -> Controls]
           /\ \A p \in P : p.tick + 1 \in 1 .. k /\ DecidedBy(P)[p.tick + 1] = p.ctrl
           /\ \A j \in 1 .. k : \E p \in P : p.tick = j - 1
<1>1. Cardinality({p.tick : p \in P}) = k
  <2>1. Cardinality(0 .. k - 1) = IF 0 > k - 1 THEN 0 ELSE k - 1 - 0 + 1
    BY FS_Interval
  <2>2. Cardinality(0 .. k - 1) = k
    BY <2>1
  <2> QED
    BY <2>2
<1>2. DecidedBy(P) = [j \in 1 .. k |-> (CHOOSE p \in P : p.tick = j - 1).ctrl]
  BY <1>1 DEF DecidedBy
<1>3. \A j \in 1 .. k : \E p \in P : p.tick = j - 1
  <2> TAKE j \in 1 .. k
  <2>0. j - 1 \in 0 .. k - 1
    OBVIOUS
  <2>1. j - 1 \in {p.tick : p \in P}
    BY <2>0, Zenon
  <2> QED
    BY <2>1
<1>4. \A p \in P : p.tick + 1 \in 1 .. k /\ p.ctrl \in Controls
  <2> TAKE p \in P
  <2>1. p.tick \in 0 .. k - 1
    OBVIOUS
  <2> QED
    BY <2>1 DEF Packets
<1>5. ASSUME NEW p \in P
      PROVE  DecidedBy(P)[p.tick + 1] = p.ctrl
  <2>1. PICK j \in 1 .. k : j = p.tick + 1
    BY <1>4
  <2>2. p.tick = j - 1
    BY <2>1, PacketTick
  <2>3. (CHOOSE q \in P : q.tick = j - 1) = p
    BY <2>2
  <2>4. DecidedBy(P)[j] = (CHOOSE q \in P : q.tick = j - 1).ctrl
    BY <1>2
  <2> QED
    BY <2>1, <2>3, <2>4
<1>6. \A j \in 1 .. k : (CHOOSE p \in P : p.tick = j - 1).ctrl \in Controls
  BY <1>3, <1>4
<1> QED
  BY <1>2, <1>3, <1>4, <1>5, <1>6

(* What is decided stays decided when more is packed.                      *)
LEMMA DecidedByGrows ==
    ASSUME NEW P \in SUBSET Packets, NEW Q \in SUBSET Packets, P \subseteq Q,
           \A p, q \in Q : p.tick = q.tick => p = q,
           NEW k \in Nat, {p.tick : p \in P} = 0 .. k - 1,
           NEW l \in Nat, {p.tick : p \in Q} = 0 .. l - 1
    PROVE  DecidedBy(P) = DecidedBy(Q) \/ L!IsStrictPrefix(DecidedBy(P), DecidedBy(Q))
<1> DEFINE f == DecidedBy(P)
           g == DecidedBy(Q)
<1>1. /\ f \in [1 .. k -> Controls]
      /\ \A p \in P : p.tick + 1 \in 1 .. k /\ f[p.tick + 1] = p.ctrl
      /\ \A j \in 1 .. k : \E p \in P : p.tick = j - 1
  <2>1. \A p, q \in P : p.tick = q.tick => p = q
    OBVIOUS
  <2> QED
    BY <2>1, DecidedByFacts
<1>2. /\ g \in [1 .. l -> Controls]
      /\ \A p \in Q : p.tick + 1 \in 1 .. l /\ g[p.tick + 1] = p.ctrl
  BY DecidedByFacts
<1> HIDE DEF f, g
<1>3. \A j \in 1 .. k : j \in 1 .. l /\ f[j] = g[j]
  <2> TAKE j \in 1 .. k
  <2>1. PICK p \in P : p.tick = j - 1
    BY <1>1
  <2>2. p.tick + 1 = j
    BY <2>1
  <2> QED
    BY <1>1, <1>2, <2>2
<1>4. k <= l
  BY <1>3
<1>5. /\ f \in Seq(Controls) /\ Len(f) = k
      /\ g \in Seq(Controls) /\ Len(g) = l
  BY <1>1, <1>2
<1>6. CASE k = l
  BY <1>1, <1>2, <1>3, <1>6 DEF f, g
<1>7. CASE k < l
  <2>1. SubSeq(f, 1, k) = SubSeq(g, 1, k)
    BY <1>3, <1>4, <1>5
  <2>2. f # g
    BY <1>5, <1>7
  <2> QED
    BY <1>4, <1>5, <2>1, <2>2 DEF L!IsStrictPrefix, L!IsPrefix, f, g
<1> QED
  BY <1>4, <1>6, <1>7

(* The controls of a sequence of packets. *)
ControlsOf(s) == [k \in DOMAIN s |-> s[k].ctrl]

(* They are as many as the packets. *)
LEMMA ControlsOfSeq ==
    ASSUME NEW s \in Seq(Packets)
    PROVE  ControlsOf(s) \in Seq(Controls) /\ Len(ControlsOf(s)) = Len(s)
<1>1. DOMAIN s = 1 .. Len(s) /\ Len(s) \in Nat
  OBVIOUS
<1>2. \A k \in 1 .. Len(s) : s[k].ctrl \in Controls
  <2> TAKE k \in 1 .. Len(s)
  <2>1. s[k] \in Packets
    OBVIOUS
  <2> QED
    BY <2>1 DEF Packets
<1>3. ControlsOf(s) \in [1 .. Len(s) -> Controls]
  BY <1>1, <1>2 DEF ControlsOf
<1> QED
  BY <1>1, <1>3

(* One more packet adds its control at the end. *)
LEMMA ControlsOfAppend ==
    ASSUME NEW s \in Seq(Packets), NEW p \in Packets
    PROVE  ControlsOf(Append(s, p)) = Append(ControlsOf(s), p.ctrl)
<1> DEFINE k == Len(s) + 1
<1>1. Append(s, p) \in Seq(Packets) /\ Len(Append(s, p)) = k /\ k \in Nat
  OBVIOUS
<1>2. p.ctrl \in Controls
  BY DEF Packets
<1>3. ControlsOf(s) \in Seq(Controls) /\ Len(ControlsOf(s)) = Len(s)
  BY ControlsOfSeq
<1>4. ControlsOf(Append(s, p)) \in Seq(Controls) /\ Len(ControlsOf(Append(s, p))) = k
  BY <1>1, ControlsOfSeq
<1>5. Append(ControlsOf(s), p.ctrl) \in Seq(Controls) /\ Len(Append(ControlsOf(s), p.ctrl)) = k
  BY <1>2, <1>3
<1>6. ASSUME NEW j \in 1 .. k
      PROVE  ControlsOf(Append(s, p))[j] = Append(ControlsOf(s), p.ctrl)[j]
  <2>1. ControlsOf(Append(s, p))[j] = Append(s, p)[j].ctrl
    BY <1>1 DEF ControlsOf
  <2>2. CASE j = k
    BY <1>2, <1>3, <2>1, <2>2
  <2>3. CASE j # k
    <3>1. j \in 1 .. Len(s) /\ DOMAIN s = 1 .. Len(s)
      BY <2>3
    <3>2. Append(s, p)[j] = s[j]
      BY <3>1
    <3>3. Append(ControlsOf(s), p.ctrl)[j] = ControlsOf(s)[j]
      BY <1>2, <1>3, <3>1
    <3>4. ControlsOf(s)[j] = s[j].ctrl
      BY <3>1 DEF ControlsOf
    <3> QED
      BY <2>1, <3>2, <3>3, <3>4
  <2> QED
    BY <2>2, <2>3
<1> HIDE DEF k
<1> QED
  BY <1>4, <1>5, <1>6

(* The refinement mapping at the beginning: nothing is decided or executed. *)
LEMMA InitRefines == Init => L!Init
<1> SUFFICES ASSUME Init PROVE L!Init
  OBVIOUS
<1>1. {} \in SUBSET Packets /\ {p.tick : p \in {}} = 0 .. 0 - 1
  OBVIOUS
<1>2. decided = DecidedBy({})
  BY DEF Init, decided, DecidedBy
<1>3. DecidedBy({}) \in [1 .. 0 -> Controls]
  BY <1>1, DecidedByFacts
<1>4. decided = <<>>
  BY <1>2, <1>3
<1>5. executed = [n \in Nodes |-> <<>>]
  <2>1. \A n \in Nodes : [k \in DOMAIN log[n] |-> log[n][k].ctrl] = <<>>
    BY DEF Init
  <2> QED
    BY <2>1 DEF executed
<1> QED
  BY <1>4, <1>5 DEF L!Init

(* A step that packs decides, or packs again what was packed ...           *)
LEMMA ChecksRefines ==
    ASSUME Inv, Inv', DecidedInv, DecidedInv', NEW n \in Nodes, NEW new \in SUBSET Packets,
           NEW r \in Int, Checks(n, new, r)
    PROVE  [L!Next]_(L!vars)
<1>1. executed' = executed
  BY DEF Checks, executed
<1>2. PICK k \in Nat : {p.tick : p \in packed} = 0 .. k - 1
  BY DEF DecidedInv, PackedTicks
<1>3. PICK l \in Nat : {p.tick : p \in packed'} = 0 .. l - 1
  BY DEF DecidedInv, PackedTicks
<1>4. /\ packed \in SUBSET Packets /\ packed' \in SUBSET Packets /\ packed \subseteq packed'
      /\ \A p, q \in packed' : p.tick = q.tick => p = q
  BY DEF Inv, TypeOK, PackedUnique, Checks
<1>5. DecidedBy(packed) = DecidedBy(packed')
      \/ L!IsStrictPrefix(DecidedBy(packed), DecidedBy(packed'))
  BY <1>2, <1>3, <1>4, DecidedByGrows
<1>6. decided = DecidedBy(packed) /\ decided' = DecidedBy(packed')
  BY DEF decided, DecidedBy
<1> QED
  BY <1>1, <1>5, <1>6 DEF L!Next, L!Decide, L!vars

(* ... and a step that executes a control executes the next decided one.   *)
LEMMA ExecuteFrameRefines ==
    ASSUME Inv, Inv', DecidedInv, NEW n \in Nodes, ExecuteFrame(n)
    PROVE  [L!Next]_(L!vars)
<1> DEFINE t == ctrlTick[n]
           p == getCtrl(stack[n], All, t)
           k == Len(log[n]) + 1
<1>1. packed' = packed /\ decided' = decided
  BY DEF ExecuteFrame, decided
<1>2. CASE log' = log
  BY <1>1, <1>2 DEF executed, L!vars
<1>3. CASE log' # log
  <2>1. /\ HasCtrl(stack[n], All, t)
        /\ log' = [log EXCEPT ![n] = Append(log[n], p)]
    BY <1>3 DEF ExecuteFrame
  <2>2. p \in stack[n] /\ p.client = All /\ p.tick = t
    BY <2>1, GetCtrl
  <2>3. p \in packed /\ p \in Packets
    BY <2>2 DEF Inv, TypeOK, StacksGenuine, Genuine, GenuineIn
  <2>4. log \in [Nodes -> Seq(Packets)] /\ log[n] \in Seq(Packets) /\ k \in Nat
    BY DEF Inv, TypeOK
  <2> HIDE DEF p
  <2>5. /\ log'[n] = Append(log[n], p)
        /\ \A m \in Nodes \ {n} : log'[m] = log[m]
    BY <2>1, <2>4
  <2>6. /\ Len(log'[n]) = k /\ k \in DOMAIN log'[n] /\ log'[n][k] = p
    BY <2>3, <2>4, <2>5
  <2>7. t = k - 1
    BY <2>2, <2>6 DEF Inv, NoTickSkipped
  <2>8. PICK j \in Nat : {q.tick : q \in packed} = 0 .. j - 1
    BY DEF DecidedInv, PackedTicks
  <2>9. /\ decided \in [1 .. j -> Controls]
        /\ p.tick + 1 \in 1 .. j /\ decided[p.tick + 1] = p.ctrl
    <3>1. packed \in SUBSET Packets /\ \A q, x \in packed : q.tick = x.tick => q = x
      BY DEF Inv, TypeOK, PackedUnique
    <3>2. decided = DecidedBy(packed)
      BY DEF decided, DecidedBy
    <3> QED
      BY <2>3, <2>8, <3>1, <3>2, DecidedByFacts
  <2>10. Len(decided) = j /\ k \in 1 .. j /\ decided[k] = p.ctrl
    BY <2>2, <2>4, <2>7, <2>9
  <2>11. /\ executed = [m \in Nodes |-> ControlsOf(log[m])]
         /\ executed' = [m \in Nodes |-> ControlsOf(log'[m])]
    BY DEF executed, ControlsOf
  <2>12. Len(executed[n]) + 1 = k
    BY <2>4, <2>11, ControlsOfSeq
  <2>13. executed'[n] = Append(executed[n], decided[k])
    BY <2>3, <2>4, <2>5, <2>10, <2>11, ControlsOfAppend
  <2>14. \A m \in Nodes \ {n} : executed'[m] = executed[m]
    BY <2>5, <2>11
  <2> HIDE DEF k
  <2>15. executed' = [executed EXCEPT ![n] = Append(executed[n], decided[k])]
    BY <2>11, <2>13, <2>14
  <2>16. L!Execute(n)
    <3>1. k <= Len(decided)
      BY <2>8, <2>10
    <3>2. Len(executed[n]) + 1 <= Len(decided)
      BY <2>12, <3>1
    <3>3. executed' = [executed EXCEPT ![n] = Append(executed[n], decided[Len(executed[n]) + 1])]
      BY <2>12, <2>15
    <3> QED
      BY <1>1, <3>2, <3>3, Zenon DEF L!Execute
  <2> QED
    BY <2>16 DEF L!Next
<1> QED
  BY <1>2, <1>3

(* Every step packs the controls of the next tick, executes them on one    *)
(* client, or leaves what is decided and executed as it is.                *)
LEMMA NextRefines ==
    Inv /\ Inv' /\ DecidedInv /\ DecidedInv' /\ [Next]_vars => [L!Next]_(L!vars)
<1> SUFFICES ASSUME Inv, Inv', DecidedInv, DecidedInv', [Next]_vars PROVE [L!Next]_(L!vars)
  OBVIOUS
<1>1. ASSUME UNCHANGED <<ready, loaded, packed, log>> PROVE [L!Next]_(L!vars)
  BY <1>1 DEF decided, executed, L!vars
<1> QED
  BY <1>1, StepKinds, ChecksRefines, ExecuteFrameRefines

(* The control exchange implements the lockstep: in every mode, whatever   *)
(* the order of packets, the losses and the requests, what the clients     *)
(* execute is one sequence of controls that is never revised.              *)
THEOREM ImplementsLockstepHolds == Spec => ImplementsLockstep
BY Invariant, DecidedInvariant, InitRefines, NextRefines, PTL DEF Spec, ImplementsLockstep, L!Spec

-----------------------------------------------------------------------------
(* What ClearCtrl may throw away: the backlog is long enough, and whatever *)
(* clients lose of what they send each other, the host can bring it.       *)

(* No client sends its control further ahead than the PreSend, which is    *)
(* less than the backlog.                                                  *)
SentBound == \A c \in Active : sent[c] < ctrlTick[c] + Backlog

(* The host has every control that was sent and is not older than the      *)
(* backlog, or will get it.                                                *)
OnItsWay(M, c, t) ==
    \E m \in M : /\ m.kind = "Control" /\ m.to = Host /\ m.from = c
                 /\ m.pkt.client = c /\ m.pkt.tick = t

HostHasIn(S, M, c, t) ==
    t >= ctrlTick[Host] - Backlog => HasCtrl(S, c, t) \/ OnItsWay(M, c, t)

HostHas == \A c \in Active : \A t \in 0 .. sent[c] : HostHasIn(stack[Host], msgs, c, t)

BacklogInv == SentBound /\ HostHas

(* Frames that are p apart are no more than p control ticks apart. *)
LEMMA TicksApart ==
    ASSUME NEW f \in Nat, NEW p \in Nat
    PROVE  (f + p) \div Rate <= f \div Rate + p /\ f \div Rate \in Nat /\ (f + p) \div Rate \in Nat
BY RateAssumption

(* A step that sends nothing keeps the bound, since ticks do not go back.  *)
LEMMA TickGrows ==
    ASSUME Inv, [Next]_vars
    PROVE  \A n \in Nodes : ctrlTick[n] <= ctrlTick'[n]
<1> DEFINE Grows == \A n \in Nodes : ctrlTick[n] <= ctrlTick'[n]
<1>0. ctrlTick \in [Nodes -> Nat]
  BY DEF Inv, TypeOK
<1>1. ASSUME UNCHANGED clock PROVE Grows
  BY <1>0, <1>1 DEF clock
<1>2. ASSUME NEW n \in Nodes, ExecuteFrame(n) PROVE Grows
  <2>1. ctrlTick' = [ctrlTick EXCEPT ![n] = IF IsCtrlFrame(frame[n] + 1) THEN ctrlTick[n] + 1 ELSE ctrlTick[n]]
    BY <1>2 DEF ExecuteFrame
  <2> QED
    BY <1>0, <2>1
<1> QED
  BY <1>1, <1>2 DEF Next, DoInput, CtrlReady, StopRunning, HandleControl, HandleControlReq,
                    OnResComplete, Lose, Stop, vars

(* No step lets a client send further ahead: it waits for the control it   *)
(* still needs itself.                                                     *)
LEMMA SentBoundKept ==
    ASSUME Inv, SentBound, [Next]_vars
    PROVE  SentBound'
<1>0. /\ sent \in [Nodes -> Nat \cup {-1}] /\ ctrlTick \in [Nodes -> Nat]
      /\ \A c \in Active : ctrlTick'[c] >= ctrlTick[c] /\ ctrlTick'[c] \in Nat
      /\ Backlog \in Nat
  <2>1. ctrlTick' \in [Nodes -> Nat] /\ Active \subseteq Nodes
    BY NextInv, NodesAssumption DEF Inv, TypeOK
  <2> QED
    BY <2>1, TickGrows, BacklogAssumption DEF Inv, TypeOK
<1>1. ASSUME NEW n \in Nodes, NEW i \in Inputs, DoInput(n, i) PROVE SentBound'
  <2>1. /\ sent' = [sent EXCEPT ![n] = sent[n] + 1]
        /\ ctrlTick' = ctrlTick
        /\ getCtrlTick(n, frame[n] + preSend[n]) > sent[n]
    BY <1>1 DEF DoInput, CtrlNeeded, IsSendingDue, clock
  <2>2. frame[n] \in Nat /\ preSend[n] \in Nat /\ preSend[n] < Backlog
    BY PreSendsAssumption, BacklogAssumption DEF Inv, TypeOK
  <2> DEFINE now == frame[n] \div Rate
             then == (frame[n] + preSend[n]) \div Rate
  <2>3. then <= now + preSend[n] /\ now \in Nat /\ then \in Nat
    BY <2>2, TicksApart
  <2>4. getCtrlTick(n, frame[n] + preSend[n]) = then + ctrlTick[n] - now
    BY DEF getCtrlTick
  <2> HIDE DEF now, then
  <2>5. sent[n] + 1 < ctrlTick[n] + Backlog
    BY <1>0, <2>1, <2>2, <2>3, <2>4
  <2> QED
    BY <1>0, <2>1, <2>5, NodesAssumption DEF SentBound
<1>2. ASSUME UNCHANGED sent PROVE SentBound'
  BY <1>0, <1>2, NodesAssumption DEF SentBound
<1> QED
  BY <1>1, <1>2 DEF Next, CtrlReady, ExecuteFrame, StopRunning, HandleControl, HandleControlReq,
                    OnResComplete, Lose, Stop, vars, clock

(* CheckCompleteCtrl throws away only what is older than the backlog, and  *)
(* takes nothing from what is on its way.                                  *)
LEMMA HostHasChecked ==
    ASSUME Inv, NEW n \in Nodes, NEW S \in SUBSET Packets, NEW M, stack[n] \subseteq S,
           ctrlTick' = ctrlTick, CheckCompleteCtrl(n, S, sent'[n], M),
           \A c \in Active : \A t \in 0 .. sent'[c] :
                HostHasIn(IF n = Host THEN S ELSE stack[Host], M, c, t)
    PROVE  HostHas'
<1>1. PICK new \in SUBSET Packets, r \in Int : Effect(n, S, sent'[n], M, new, r)
  BY CheckCompleteEffect DEF Inv
<1>2. /\ stack' = [stack EXCEPT ![n] = stack'[n]]
      /\ \A p \in S : p.tick >= ctrlTick[n] - Backlog => p \in stack'[n]
      /\ M \subseteq msgs'
  BY <1>1 DEF Effect
<1>3. SUFFICES ASSUME NEW c \in Active, NEW t \in 0 .. sent'[c], t >= ctrlTick[Host] - Backlog
               PROVE  HasCtrl(stack'[Host], c, t) \/ OnItsWay(msgs', c, t)
  BY DEF HostHas, HostHasIn, OnItsWay, HasCtrl, CtrlsFor
<1>4. HasCtrl(IF n = Host THEN S ELSE stack[Host], c, t) \/ OnItsWay(M, c, t)
  BY <1>3 DEF HostHasIn
<1>5. CASE OnItsWay(M, c, t)
  BY <1>2, <1>5 DEF OnItsWay
<1>6. CASE n = Host /\ HasCtrl(S, c, t)
  <2>1. PICK p \in S : p.client = c /\ p.tick = t
    BY <1>6 DEF HasCtrl, CtrlsFor
  <2>2. p \in stack'[Host]
    BY <1>2, <1>3, <1>6, <2>1
  <2> QED
    BY <2>1, <2>2 DEF HasCtrl, CtrlsFor
<1>7. CASE n # Host /\ HasCtrl(stack[Host], c, t)
  <2>1. stack'[Host] = stack[Host]
    BY <1>2, <1>7, NodesAssumption DEF Inv, TypeOK
  <2> QED
    BY <1>7, <2>1
<1> QED
  BY <1>4, <1>5, <1>6, <1>7

(* More packets in the stack and on their way do no harm. *)
LEMMA HostHasMore ==
    ASSUME NEW S, NEW M, NEW S2, NEW M2, S \subseteq S2, M \subseteq M2, NEW c, NEW t,
           HostHasIn(S, M, c, t)
    PROVE  HostHasIn(S2, M2, c, t)
BY DEF HostHasIn, HasCtrl, CtrlsFor, OnItsWay

(* What was sent to the host and what it has got stays in its stack as     *)
(* long as the backlog reaches, or is still on its way.                    *)
LEMMA HostHasKept ==
    ASSUME Inv, HostHas, [Next]_vars
    PROVE  HostHas'
<1>0. /\ sent \in [Nodes -> Nat \cup {-1}] /\ ctrlTick[Host] \in Nat
      /\ \A n \in Nodes : stack[n] \in SUBSET Packets
      /\ \A m \in msgs : m.kind = "Control" => m.pkt \in Packets
      /\ Host \in Nodes /\ Active \subseteq Nodes
  BY NodesAssumption DEF Inv, TypeOK, Messages
<1>1. ASSUME NEW n \in Nodes, NEW i \in Inputs, DoInput(n, i) PROVE HostHas'
  <2> DEFINE p == [client |-> n, tick |-> sent[n] + 1, ctrl |-> [c \in {n} |-> i]]
             S == stack[n] \cup {p}
             M == msgs \cup {ControlMsg(n, m, p) : m \in InputReceivers(n)}
  <2>1. n \in Active /\ ctrlTick' = ctrlTick
    BY <1>1 DEF DoInput, CtrlNeeded, clock
  <2>2. sent' = [sent EXCEPT ![n] = sent[n] + 1] /\ sent'[n] = sent[n] + 1 /\ sent[n] + 1 \in Nat
    <3>1. sent' = [sent EXCEPT ![n] = sent[n] + 1]
      BY <1>1 DEF DoInput
    <3>2. sent[n] \in Nat \cup {-1}
      BY <1>0
    <3> QED
      BY <1>0, <3>1, <3>2
  <2>3. CheckCompleteCtrl(n, S, sent'[n], M)
    BY <1>1, <2>2 DEF DoInput
  <2>4. p \in Packets /\ p.client = n /\ p.tick = sent[n] + 1
    <3>1. p.ctrl \in [{n} -> Inputs] /\ {n} \in SUBSET Active /\ n # All
      BY <2>1, NodesAssumption
    <3>2. p.ctrl \in Controls
      BY <3>1 DEF Controls
    <3> QED
      BY <2>1, <2>2, <3>1, <3>2 DEF Packets
  <2> HIDE DEF p
  <2>5. ASSUME NEW c \in Active, NEW t \in 0 .. sent'[c]
        PROVE  HostHasIn(IF n = Host THEN S ELSE stack[Host], M, c, t)
    <3>1. CASE t \in 0 .. sent[c]
      <4>1. HostHasIn(stack[Host], msgs, c, t)
        BY <3>1 DEF HostHas
      <4>2. stack[Host] \subseteq (IF n = Host THEN S ELSE stack[Host]) /\ msgs \subseteq M
        OBVIOUS
      <4> HIDE DEF S, M
      <4> QED
        BY <4>1, <4>2, HostHasMore
    <3>2. CASE t \notin 0 .. sent[c]
      <4>1. c = n /\ t = sent[n] + 1
        BY <1>0, <2>2, <3>2
      <4>2. CASE n = Host
        BY <2>4, <4>1, <4>2 DEF HostHasIn, HasCtrl, CtrlsFor
      <4>3. CASE n # Host
        <5>1. Host \in InputReceivers(n)
          BY <1>0, <4>3 DEF InputReceivers
        <5>2. ControlMsg(n, Host, p) \in M
          BY <5>1
        <5>3. OnItsWay(M, c, t)
          <6> HIDE DEF M
          <6> QED
            BY <2>4, <4>1, <5>2 DEF OnItsWay, ControlMsg
        <5> QED
          BY <5>3 DEF HostHasIn
      <4> QED
        BY <4>2, <4>3
    <3> QED
      BY <3>1, <3>2
  <2>6. S \in SUBSET Packets /\ stack[n] \subseteq S
    BY <1>0, <2>4
  <2> HIDE DEF S, M
  <2> QED
    BY <2>1, <2>3, <2>5, <2>6, HostHasChecked
<1>2. ASSUME NEW n \in Nodes, CheckCompleteCtrl(n, stack[n], sent[n], msgs), UNCHANGED <<sent, ctrlTick>>
      PROVE  HostHas'
  <2>1. \A c \in Active : \A t \in 0 .. sent'[c] :
          HostHasIn(IF n = Host THEN stack[n] ELSE stack[Host], msgs, c, t)
    BY <1>2 DEF HostHas
  <2> QED
    BY <1>0, <1>2, <2>1, HostHasChecked
<1>3. ASSUME NEW n \in Nodes, ExecuteFrame(n) PROVE HostHas'
  <2>1. UNCHANGED <<sent, stack, msgs>> /\ ctrlTick'[Host] >= ctrlTick[Host] /\ ctrlTick'[Host] \in Nat
    <3>1. ctrlTick' \in [Nodes -> Nat]
      BY <1>3, ExecuteFrameInv DEF Inv, TypeOK
    <3> QED
      BY <1>0, <1>3, <3>1, TickGrows DEF ExecuteFrame
  <2>2. Backlog \in Nat
    BY BacklogAssumption
  <2>3. SUFFICES ASSUME NEW c \in Active, NEW t \in 0 .. sent[c], t >= ctrlTick'[Host] - Backlog
                 PROVE  HasCtrl(stack[Host], c, t) \/ OnItsWay(msgs, c, t)
    BY <2>1 DEF HostHas, HostHasIn, HasCtrl, CtrlsFor, OnItsWay
  <2>4. t >= ctrlTick[Host] - Backlog
    BY <1>0, <2>1, <2>2, <2>3
  <2> QED
    BY <2>4 DEF HostHas, HostHasIn
<1>4. ASSUME UNCHANGED <<sent, stack, ctrlTick>>,
             \A m \in msgs : m.kind = "Control" /\ m.to = Host => m \in msgs'
      PROVE  HostHas'
  BY <1>4 DEF HostHas, HostHasIn, HasCtrl, CtrlsFor, OnItsWay
<1>5. ASSUME NEW n \in Nodes, NEW m \in msgs, HandleControl(n, m) PROVE HostHas'
  <2>1. m.kind = "Control" /\ m.to = n /\ UNCHANGED <<sent, ctrlTick>>
    BY <1>5 DEF HandleControl, clock
  <2>2. ASSUME NEW S \in SUBSET Packets, stack[n] \subseteq S, HasCtrl(S, m.pkt.client, m.pkt.tick),
               NEW c \in Active, NEW t \in 0 .. sent'[c]
        PROVE  HostHasIn(IF n = Host THEN S ELSE stack[Host], msgs \ {m}, c, t)
    <3>1. SUFFICES ASSUME t >= ctrlTick[Host] - Backlog
                   PROVE  HasCtrl(IF n = Host THEN S ELSE stack[Host], c, t) \/ OnItsWay(msgs \ {m}, c, t)
      BY DEF HostHasIn
    <3>2. HasCtrl(stack[Host], c, t) \/ OnItsWay(msgs, c, t)
      BY <2>1, <3>1 DEF HostHas, HostHasIn
    <3>3. CASE HasCtrl(stack[Host], c, t)
      BY <2>2, <3>3 DEF HasCtrl, CtrlsFor
    <3>4. CASE OnItsWay(msgs, c, t)
      <4>1. PICK x \in msgs : /\ x.kind = "Control" /\ x.to = Host /\ x.from = c
                              /\ x.pkt.client = c /\ x.pkt.tick = t
        BY <3>4 DEF OnItsWay
      <4>2. CASE x = m
        BY <2>1, <2>2, <4>1, <4>2
      <4>3. CASE x # m
        BY <4>1, <4>3 DEF OnItsWay
      <4> QED
        BY <4>2, <4>3
    <3> QED
      BY <3>2, <3>3, <3>4
  <2>3. CASE HasCtrl(stack[n], m.pkt.client, m.pkt.tick) /\ msgs' = msgs \ {m} /\ UNCHANGED stack
    <3>1. \A c \in Active : \A t \in 0 .. sent'[c] : HostHasIn(stack[Host], msgs \ {m}, c, t)
      BY <1>0, <2>2, <2>3
    <3> QED
      BY <2>1, <2>3, <3>1 DEF HostHas, HostHasIn, HasCtrl, CtrlsFor, OnItsWay
  <2>4. CASE CheckCompleteCtrl(n, stack[n] \cup {m.pkt}, sent[n], msgs \ {m})
    <3>1. stack[n] \cup {m.pkt} \in SUBSET Packets
      BY <1>0, <2>1
    <3>2. HasCtrl(stack[n] \cup {m.pkt}, m.pkt.client, m.pkt.tick)
      BY DEF HasCtrl, CtrlsFor
    <3>3. \A c \in Active : \A t \in 0 .. sent'[c] :
            HostHasIn(IF n = Host THEN stack[n] \cup {m.pkt} ELSE stack[Host], msgs \ {m}, c, t)
      BY <2>2, <3>1, <3>2
    <3> QED
      BY <2>1, <2>4, <3>1, <3>3, HostHasChecked
  <2> QED
    BY <1>5, <2>3, <2>4 DEF HandleControl
<1>6. ASSUME NEW n \in Nodes, NEW m \in msgs, HandleControlReq(n, m) PROVE HostHas'
  BY <1>4, <1>6 DEF HandleControlReq, clock
<1>7. ASSUME NEW m \in msgs, Lose(m) PROVE HostHas'
  <2>1. m.to # Host
    BY <1>7, LinksAssumption DEF Lose
  <2> QED
    BY <1>4, <1>7, <2>1 DEF Lose, clock
<1>8. ASSUME UNCHANGED <<sent, stack, ctrlTick, msgs>> PROVE HostHas'
  BY <1>4, <1>8
<1> QED
  BY <1>1, <1>2, <1>3, <1>5, <1>6, <1>7, <1>8
     DEF Next, CtrlReady, StopRunning, OnResComplete, Stop, vars, clock

(* At first what was sent ahead is in every stack. *)
LEMMA InitBacklog == Init => BacklogInv
<1> SUFFICES ASSUME Init PROVE BacklogInv
  OBVIOUS
<1>1. SentBound
  BY NodesAssumption, PreSendsAssumption, BacklogAssumption DEF Init, SentBound
<1>2. HostHas
  BY NodesAssumption DEF Init, HostHas
<1> QED
  BY <1>1, <1>2 DEF BacklogInv

(* Nobody sends more than the PreSend ahead, and the host has or gets      *)
(* whatever is sent.                                                       *)
THEOREM BacklogInvariant == Spec => []BacklogInv
<1>1. Inv /\ BacklogInv /\ [Next]_vars => BacklogInv'
  BY SentBoundKept, HostHasKept DEF BacklogInv
<1> QED
  BY <1>1, Invariant, InitBacklog, PTL DEF Spec
-----------------------------------------------------------------------------
(* What is ready anywhere was sent by every activated client, unless the   *)
(* game is asynchronous.                                                   *)
LEMMA ReadySent ==
    ASSUME Inv, DecidedInv, Mode # "Async", NEW n \in Nodes, NEW c \in Active
    PROVE  ready[n] <= sent[c]
<1>1. ready[n] \in Nat \cup {-1} /\ sent[c] \in Nat \cup {-1}
  BY NodesAssumption DEF Inv, TypeOK
<1>2. CASE ready[n] = -1
  BY <1>1, <1>2
<1>3. CASE ready[n] # -1
  <2>1. ready[n] \in 0 .. ready[n]
    BY <1>1, <1>3
  <2>2. PICK p \in packed : p.tick = ready[n]
    BY <2>1 DEF DecidedInv, ReadyPacked
  <2>3. c \in DOMAIN p.ctrl
    BY DEF Inv, PackedFaithful
  <2>4. p.tick < Len(input[c]) /\ Len(input[c]) = sent[c] + 1
    BY <2>3 DEF Inv, PackedFaithful, InputCounted
  <2> QED
    BY <1>1, <2>2, <2>4
<1> QED
  BY <1>2, <1>3

(* ClearCtrl never throws away a control that an activated client may      *)
(* still ask for: what holds a client back by more is that the others wait *)
(* for its control, which it sends no more than the PreSend ahead.         *)
LEMMA BacklogEnough == Inv /\ DecidedInv /\ BacklogInv => BacklogSuffices
<1> SUFFICES ASSUME Inv, DecidedInv, BacklogInv, Mode # "Async", NEW n \in Nodes, NEW c \in Active
             PROVE  ctrlTick[n] - Backlog <= ready[c] + 1
  BY DEF BacklogSuffices
<1>1. /\ ctrlTick[n] \in Nat /\ ctrlTick[c] \in Nat /\ sent[c] \in Int
      /\ ready[n] \in Int /\ ready[c] \in Int /\ Backlog \in Nat
  BY NodesAssumption, BacklogAssumption DEF Inv, TypeOK
<1>2. ctrlTick[n] <= ready[n] + 1 /\ ctrlTick[c] <= ready[c] + 1
  <2>1. \A m \in Nodes : ready[m] \in Int /\ ctrlTick[m] \in Nat
    BY DEF Inv, TypeOK
  <2>2. c \in Nodes
    BY NodesAssumption
  <2> QED
    BY <2>1, <2>2 DEF Inv, TickReady
<1>3. ready[n] <= sent[c]
  BY ReadySent
<1>4. sent[c] < ctrlTick[c] + Backlog
  BY DEF BacklogInv, SentBound
<1> QED
  BY <1>1, <1>2, <1>3, <1>4

(* For every number of clients, PreSend and backlog, control that a client *)
(* may still be asked for is not yet out of its backlog (ClearCtrl).       *)
THEOREM BacklogSufficesHolds == Spec => []BacklogSuffices
BY Invariant, DecidedInvariant, BacklogInvariant, BacklogEnough, PTL

(* Whatever is lost between clients, the host has or gets the control that *)
(* any client it waits for still misses.                                   *)
THEOREM HostCanAnswerHolds == Spec => []HostCanAnswer
<1>1. Inv /\ DecidedInv /\ BacklogInv => HostCanAnswer
  <2> SUFFICES ASSUME Inv, DecidedInv, BacklogInv, Mode # "Async", NEW n \in Nodes, NEW c \in Active,
                      n \in Active \/ TargetTick \in 0 .. Backlog,
                      NEW t \in ready[n] + 1 .. Len(input[c]) - 1
               PROVE  HasCtrl(stack[Host], c, t) \/ OnItsWay(msgs, c, t)
    BY DEF HostCanAnswer, OnItsWay
  <2>1. /\ ready[n] \in Nat \cup {-1} /\ sent[c] \in Int /\ Len(input[c]) = sent[c] + 1
        /\ ctrlTick[Host] \in Nat /\ Backlog \in Nat /\ Host \in Nodes
    BY NodesAssumption, BacklogAssumption DEF Inv, TypeOK, InputCounted
  <2>2. t \in 0 .. sent[c] /\ t >= ready[n] + 1
    BY <2>1
  <2>3. CASE n \in Active
    <3>1. ctrlTick[Host] - Backlog <= ready[n] + 1
      BY <2>1, <2>3, BacklogEnough DEF BacklogSuffices
    <3>2. t >= ctrlTick[Host] - Backlog
      BY <2>1, <2>2, <3>1
    <3> QED
      BY <2>2, <3>2 DEF BacklogInv, HostHas, HostHasIn
  <2>4. CASE TargetTick \in 0 .. Backlog
    <3>1. ready[Host] < TargetTick
      <4>1. ready[Host] \in Nat \cup {-1}
        BY <2>1 DEF Inv, TypeOK
      <4>2. CASE ready[Host] = -1
        BY <2>4, <4>2
      <4>3. CASE ready[Host] # -1
        <5>1. ready[Host] \in 0 .. ready[Host]
          BY <4>1, <4>3
        <5>2. PICK p \in packed : p.tick = ready[Host]
          BY <2>1, <5>1 DEF DecidedInv, ReadyPacked
        <5> QED
          BY <2>1, <2>4, <5>2 DEF DecidedInv, PackedBeforeTarget, BeforeTarget
      <4> QED
        BY <4>2, <4>3
    <3>2. ctrlTick[Host] <= ready[Host] + 1 /\ ready[Host] \in Int
      BY <2>1 DEF Inv, TypeOK, TickReady
    <3>3. t >= ctrlTick[Host] - Backlog
      BY <2>1, <2>2, <2>4, <3>1, <3>2
    <3> QED
      BY <2>2, <3>3 DEF BacklogInv, HostHas, HostHasIn
  <2> QED
    BY <2>3, <2>4
<1> QED
  BY <1>1, Invariant, DecidedInvariant, BacklogInvariant, PTL
=============================================================================
