------------------------- MODULE GameControlNetwork -------------------------
(***************************************************************************)
(* The control exchange of a running network game, C4GameControlNetwork    *)
(* driven by C4GameControl::Prepare/Execute/Ticks: every activated client  *)
(* sends one control packet per control tick, the packets of all clients   *)
(* are packed into one complete control, and every client executes the     *)
(* complete controls tick by tick.                                         *)
(*                                                                         *)
(* A client is two threads that share the control stack: the main thread   *)
(* (DoInput, CtrlReady, ExecuteFrame) and the network thread               *)
(* (HandleControl, HandleControlReq, OnResComplete).  A step is what runs  *)
(* under CtrlCSec, so the two interleave where the code lets them, between *)
(* two steps of C4Game::Execute.                                           *)
(*                                                                         *)
(* The set of activated clients, the control mode, the control rate and    *)
(* the target tick stay what they are; fEnabled is true and no synchronous *)
(* control is queued.  GameNetwork models their changes.                   *)
(*                                                                         *)
(* An operator whose name ends in a word after "_" is its namesake with a  *)
(* plausible bug; nothing here uses it.                                    *)
(***************************************************************************)
EXTENDS Integers, Sequences, FiniteSets

CONSTANTS
    Nodes,      \* the clients that run the game, activated or not
    Active,     \* the activated ones, the list of CopyClientList
    Host,       \* the client with ID C4ClientIDHost
    All,        \* C4ClientIDAll, the client ID of a complete control
    Mode,       \* C4GameControlNetworkMode
    Inputs,     \* what a client can put into the control of one tick
    Joins,      \* the inputs with a player join that needs a resource
    PreSends,   \* the values CalcPerformance gives iControlPreSend
    Rate,       \* ControlRate, frames per control tick
    Backlog,    \* C4ControlBacklog
    TargetTick, \* iTargetTick, or -1 when the game runs on
    Requesting, \* clients whose request of Init is still on its way
    Unreliable, \* clients that may lose what they send each other
    Impatient,  \* whether C4ControlRequestInterval may end before all has arrived
    MaxFrame    \* bound on frame

ASSUME NodesAssumption == Active \subseteq Nodes /\ Host \in Active /\ All \notin Nodes
ASSUME ModeAssumption == Mode \in {"Decentral", "Central", "Async"}
ASSUME InputsAssumption == Joins \subseteq Inputs /\ Inputs # {}
ASSUME PreSendsAssumption == PreSends \subseteq Nat \ {0} /\ 1 \in PreSends
ASSUME RateAssumption == Rate \in Nat \ {0}
(* C4GameControlNetwork.h:29: "must be smaller than C4ControlBacklog!" *)
ASSUME BacklogAssumption == Backlog \in Nat /\ \A p \in PreSends : p < Backlog
ASSUME TargetTickAssumption == TargetTick \in Nat \cup {-1}
(* Connections to the host are not lost: their loss removes the client. *)
ASSUME LinksAssumption ==
    Requesting \subseteq Nodes /\ Unreliable \subseteq Nodes \ {Host} /\ Impatient \in BOOLEAN
ASSUME MaxFrameAssumption == MaxFrame \in Nat

VARIABLES
    frame,      \* frame[n]: Game.FrameCounter
    ctrlTick,   \* ctrlTick[n]: Game.Control.ControlTick
    preSend,    \* preSend[n]: iControlPreSend
    sent,       \* sent[n]: iControlSent
    ready,      \* ready[n]: iControlReady
    waiting,    \* waiting[n]: iWaitStart # -1
    running,    \* running[n]: fRunning
    stack,      \* stack[n]: the packets in pCtrlStack
    loaded,     \* loaded[n]: the joins whose resource is complete
    msgs,       \* the packets and requests on their way
    input,      \* input[c]: every control c sent, in tick order
    packed,     \* every complete control some client packed
    log         \* log[n]: the complete controls n executed

clock == <<frame, ctrlTick, preSend>>
history == <<input, packed, log>>
vars == <<clock, waiting, running, sent, ready, stack, loaded, msgs, history>>
-----------------------------------------------------------------------------
(* C4GameControlPacket: the control of one client, or of all, for a tick. *)
Controls == UNION {[cs -> Inputs] : cs \in SUBSET Active}
Packets ==
    {p \in [client : Active \cup {All}, tick : Nat, ctrl : Controls] :
        p.client # All => DOMAIN p.ctrl = {p.client}}
Messages == [kind : {"Control"}, from : Nodes, to : Nodes, pkt : Packets]
              \cup [kind : {"ControlReq"}, from : Nodes, to : Nodes, tick : Nat]

ControlMsg(n, m, p) == [kind |-> "Control", from |-> n, to |-> m, pkt |-> p]
ControlReqMsg(n, m, t) == [kind |-> "ControlReq", from |-> n, to |-> m, tick |-> t]

(* getCtrl; no client has two packets for one tick. *)
CtrlsFor(S, c, t) == {p \in S : p.client = c /\ p.tick = t}
HasCtrl(S, c, t) == CtrlsFor(S, c, t) # {}
getCtrl(S, c, t) == CHOOSE p \in CtrlsFor(S, c, t) : TRUE

ClearCtrl_Current(S, t) == IF t < 0 THEN S ELSE {p \in S : p.tick > t + Backlog}
ClearCtrl(S, t) == {p \in S : p.tick >= t}

IsCtrlFrame(f) == f % Rate = 0

(* The control tick of a later frame f, by the rate of now. *)
getCtrlTick(n, f) == f \div Rate + ctrlTick[n] - frame[n] \div Rate

MaySend(n) == TargetTick >= 0 => sent[n] < TargetTick

IsSendingDue_OneMore(n) == getCtrlTick(n, frame[n] + preSend[n]) >= sent[n]
IsSendingDue(n) == getCtrlTick(n, frame[n] + preSend[n]) > sent[n]

CtrlNeeded(n) == n \in Active /\ MaySend(n) /\ IsSendingDue(n)

(* C4Control::PreExecute: no join in it waits for its resource, where the  *)
(* resources of the joins in complete are complete.                        *)
PreExecute(complete, p) ==
    \A c \in DOMAIN p.ctrl : p.ctrl[c] \in Joins => p.ctrl[c] \in complete
-----------------------------------------------------------------------------
(* PackCompleteCtrl: the controls of all clients, or, when the host of an  *)
(* asynchronous game waited too long, of those that are there.             *)
PackComplete_Latest(S, t) ==
    [client |-> All, tick |-> t,
     ctrl |-> [c \in {c \in Active : HasCtrl(S, c, t)} |->
                (CHOOSE p \in S : p.client = c /\ \A q \in S : q.client = c => q.tick <= p.tick).ctrl[c]]]
PackComplete(S, t) ==
    [client |-> All, tick |-> t,
     ctrl |-> [c \in {c \in Active : HasCtrl(S, c, t)} |-> getCtrl(S, c, t).ctrl[c]]]

(* Who gets the control of client n, and who a complete control it packed: *)
(* BroadcastMsgToClients and SendMsgToHost in DoInput, and                 *)
(* BroadcastMsgToConnClients in PackCompleteCtrl.                          *)
InputReceivers_NotHost(n) == Nodes \ {n, Host}
InputReceivers(n) == (IF Mode = "Decentral" THEN Nodes ELSE {Host}) \ {n}
CompleteReceivers(n) == IF Mode = "Decentral" THEN {} ELSE Nodes \ {n}

(* What CheckCompleteCtrl wants before it packs tick t, everything before  *)
(* it being ready: the own control is sent, the target is not reached, the *)
(* client is one that packs, and all controls are there or late.           *)
OwnSent(n, sentNow, t) == n \in Active => sentNow >= t

BeforeTarget_OneLess(t) == TargetTick >= 0 => t < TargetTick - 1
BeforeTarget(t) == TargetTick >= 0 => t < TargetTick

IsPacker_Any(n) == TRUE
IsPacker(n) == Mode = "Decentral" \/ n = Host

AllThere_Any(S, late, t) == TRUE
AllThere(S, late, t) == late \/ \A c \in Active : HasCtrl(S, c, t)

MayPack(n, S, sentNow, late, t) ==
    /\ ~HasCtrl(S, All, t)
    /\ OwnSent(n, sentNow, t)
    /\ BeforeTarget(t)
    /\ IsPacker(n)
    /\ AllThere(S, late, t)

(* Tick t can become ready: it is complete, or can be made so, and         *)
(* nothing in it waits for a resource, with what this step has loaded.     *)
Reachable_NotLoaded(n, S, sentNow, late, t) ==
    HasCtrl(S, All, t) \/ MayPack(n, S, sentNow, late, t)
Reachable(n, S, sentNow, late, t) ==
    \/ HasCtrl(S, All, t) /\ PreExecute(loaded'[n], getCtrl(S, All, t))
    \/ MayPack(n, S, sentNow, late, t) /\ PreExecute(loaded'[n], PackComplete(S, t))

(* The waiting time of an asynchronous game (AsyncMaxWait) may be over. *)
LateOutcomes_Never(n) == {FALSE}
LateOutcomes(n) == {FALSE} \cup {Mode = "Async" /\ waiting[n]}

(* C4ControlRequestInterval is over since the last request and the last    *)
(* packed control.                                                         *)
DueOutcomes(M) == {FALSE} \cup {Impatient \/ M = {}}

(* A client that is short of its target then asks for what it misses. *)
Recover_LastReady(n, sentNow, readyNow) ==
    {ControlReqMsg(n, m, readyNow) : m \in Nodes \ {n}}
Recover(n, sentNow, readyNow) ==
    IF readyNow < TargetTick /\ (n \in Active => sentNow > readyNow)
    THEN {ControlReqMsg(n, m, readyNow + 1) :
            m \in (IF Mode = "Central" THEN {Host} ELSE Nodes) \ {n}}
    ELSE {}

(* What gets packed on the way to r, and for the tick after it when that   *)
(* one is not ready for execution.                                         *)
NewControls(n, S, sentNow, late, r) ==
    {PackComplete(S, t) : t \in {t \in ready[n] + 1 .. r + 1 : MayPack(n, S, sentNow, late, t)}}

(* CheckCompleteCtrl of client n, when its stack is S, it has sent its     *)
(* control up to sentNow and M is on its way: the loop takes ready to r,   *)
(* the last tick that can be reached, packing what is not complete.        *)
AdvanceTo(r, n, S, sentNow, M, late, due) ==
    LET new == NewControls(n, S, sentNow, late, r)
    IN  /\ r >= ready[n]
        /\ \A t \in ready[n] + 1 .. r : Reachable(n, S, sentNow, late, t)
        /\ ~Reachable(n, S, sentNow, late, r + 1)
        /\ due => new = {}
        /\ ready' = [ready EXCEPT ![n] = r]
        /\ stack' = [stack EXCEPT ![n] = ClearCtrl(S \cup new, ctrlTick[n] - Backlog)]
        /\ packed' = packed \cup new
        /\ msgs' = M \cup {ControlMsg(n, m, p) : m \in CompleteReceivers(n), p \in new}
                     \cup (IF due THEN Recover(n, sentNow, r) ELSE {})

Advance(n, S, sentNow, M) ==
    \E late \in LateOutcomes(n), due \in DueOutcomes(M), r \in {ready[n]} \cup {p.tick : p \in S} :
        AdvanceTo(r, n, S, sentNow, M, late, due)

CheckCompleteCtrl(n, S, sentNow, M) ==
    IF running[n]
    THEN Advance(n, S, sentNow, M)
    ELSE /\ stack' = [stack EXCEPT ![n] = S]
         /\ msgs' = M
         /\ UNCHANGED <<ready, packed>>
-----------------------------------------------------------------------------
(* Init: nothing sent, nothing ready; the requests of Requesting for the   *)
(* control from tick 0 on are on their way to everybody.                   *)
Init ==
    /\ frame = [n \in Nodes |-> 0]
    /\ ctrlTick = [n \in Nodes |-> 0]
    /\ preSend = [n \in Nodes |-> 1]
    /\ sent = [n \in Nodes |-> -1]
    /\ ready = [n \in Nodes |-> -1]
    /\ waiting = [n \in Nodes |-> FALSE]
    /\ running = [n \in Nodes |-> TRUE]
    /\ stack = [n \in Nodes |-> {}]
    /\ loaded \in [Nodes -> SUBSET Joins]
    /\ msgs = {m \in {ControlReqMsg(a, b, 0) : a \in Requesting, b \in Nodes} : m.from # m.to}
    /\ input = [c \in Active |-> <<>>]
    /\ packed = {}
    /\ log = [n \in Nodes |-> <<>>]

(* C4GameControlNetwork::Execute, which begins every Prepare: on a control *)
(* frame the client notes since when it waits for its control, which only  *)
(* an asynchronous game makes use of.                                      *)
Execute(n) ==
    /\ frame[n] < MaxFrame
    /\ waiting' = [waiting EXCEPT ![n] = @ \/ (IsCtrlFrame(frame[n]) /\ Mode = "Async")]

(* Prepare, its loop: client n sends its control for the next tick.  Who   *)
(* submits a join has its resource.                                        *)
DoInput(n, i) ==
    LET t == sent[n] + 1
        p == [client |-> n, tick |-> t, ctrl |-> [c \in {n} |-> i]]
    IN  /\ Execute(n)
        /\ CtrlNeeded(n)
        /\ i \in Joins => i \in loaded[n]
        /\ sent' = [sent EXCEPT ![n] = t]
        /\ input' = [input EXCEPT ![n] = Append(@, i)]
        /\ UNCHANGED <<clock, running, loaded, log>>
        /\ CheckCompleteCtrl(n, stack[n] \cup {p}, t,
                             msgs \cup {ControlMsg(n, m, p) : m \in InputReceivers(n)})

(* Prepare, its last step: on a control frame the main thread looks again  *)
(* whether the control is ready.                                           *)
CtrlReady(n) ==
    /\ Execute(n)
    /\ IsCtrlFrame(frame[n]) /\ ~CtrlNeeded(n)
    /\ UNCHANGED <<clock, running, sent, loaded, input, log>>
    /\ CheckCompleteCtrl(n, stack[n], sent[n], msgs)

(* C4Game::Execute after Prepare: GetControl and execution of the control  *)
(* on a control frame, then Ticks.  A control that cannot be retrieved is  *)
(* reported and skipped; the frame goes on.                                *)
ExecuteFrame(n) ==
    /\ frame[n] < MaxFrame
    /\ ~CtrlNeeded(n)
    /\ IsCtrlFrame(frame[n]) => ready[n] >= ctrlTick[n]
    /\ IF IsCtrlFrame(frame[n]) /\ HasCtrl(stack[n], All, ctrlTick[n])
       THEN /\ log' = [log EXCEPT ![n] = Append(@, getCtrl(stack[n], All, ctrlTick[n]))]
            /\ waiting' = [waiting EXCEPT ![n] = FALSE]
            /\ \E ps \in PreSends : preSend' = [preSend EXCEPT ![n] = ps]
       ELSE UNCHANGED <<log, waiting, preSend>>
    /\ frame' = [frame EXCEPT ![n] = @ + 1]
    /\ ctrlTick' = [ctrlTick EXCEPT ![n] = IF IsCtrlFrame(frame[n] + 1) THEN @ + 1 ELSE @]
    /\ UNCHANGED <<running, sent, ready, stack, loaded, msgs, input, packed>>

(* The target tick is reached and no control is there for it:              *)
(* C4Network2::CheckStatusReached stops the exchange.                      *)
StopRunning(n) ==
    /\ running[n] /\ TargetTick >= 0
    /\ ctrlTick[n] >= TargetTick /\ IsCtrlFrame(frame[n]) /\ ready[n] < ctrlTick[n]
    /\ running' = [running EXCEPT ![n] = FALSE]
    /\ UNCHANGED <<clock, waiting, sent, ready, stack, loaded, msgs, history>>

(* HandleControl: a control that is there already is dropped, any other    *)
(* one goes to the stack.  The search and AddCtrl are not under one lock:  *)
(* what the main thread adds in between is added a second time.            *)
HandleControl(n, m) ==
    /\ m.kind = "Control" /\ m.to = n
    /\ UNCHANGED <<clock, waiting, running, sent, loaded, input, log>>
    /\ \/ /\ HasCtrl(stack[n], m.pkt.client, m.pkt.tick)
          /\ msgs' = msgs \ {m}
          /\ UNCHANGED <<ready, stack, packed>>
       \/ CheckCompleteCtrl(n, stack[n] \cup {m.pkt}, sent[n], msgs \ {m})

(* HandleControlReq: from the requested tick on, the complete control of   *)
(* every tick, or else everything there is of it, up to the first tick of  *)
(* which there is nothing.                                                 *)
Answer(S, from) ==
    {p \in S : /\ p.tick >= from
               /\ \A t \in from .. p.tick : \E q \in S : q.tick = t
               /\ p.client = All \/ ~HasCtrl(S, All, p.tick)}

HandleControlReq(n, m) ==
    /\ m.kind = "ControlReq" /\ m.to = n
    /\ msgs' = (msgs \ {m}) \cup {ControlMsg(n, m.from, p) : p \in Answer(stack[n], m.tick)}
    /\ UNCHANGED <<clock, waiting, running, sent, ready, stack, loaded, history>>

(* The resource of join i is complete at n. *)
OnResComplete(n, i) ==
    /\ i \in Joins \ loaded[n]
    /\ loaded' = [loaded EXCEPT ![n] = @ \cup {i}]
    /\ CheckCompleteCtrl(n, stack[n], sent[n], msgs)
    /\ UNCHANGED <<clock, waiting, running, sent, input, log>>

(* The connection between two clients that are not the host is lost with   *)
(* what was on its way.                                                    *)
Lose(m) ==
    /\ {m.from, m.to} \subseteq Unreliable
    /\ msgs' = msgs \ {m}
    /\ UNCHANGED <<clock, waiting, running, sent, ready, stack, loaded, history>>

(* The bound is reached. *)
Stop == (\A n \in Nodes : frame[n] = MaxFrame) /\ UNCHANGED vars

Next ==
    \/ \E n \in Nodes :
        \/ \E i \in Inputs : DoInput(n, i)
        \/ CtrlReady(n)
        \/ ExecuteFrame(n)
        \/ StopRunning(n)
        \/ \E m \in msgs : HandleControl(n, m) \/ HandleControlReq(n, m)
        \/ \E i \in Joins : OnResComplete(n, i)
    \/ \E m \in msgs : Lose(m)
    \/ Stop

Spec == Init /\ [][Next]_vars

(* The main thread runs C4Game::Execute again and again, and the network   *)
(* thread handles packets as long as there are any.  It takes those of a   *)
(* connection in the order they were sent, so that neither a control that  *)
(* is new to n nor a request waits for ever while other packets come.      *)
MainThreadFairness(n) ==
    /\ WF_vars((\E i \in Inputs : DoInput(n, i)) \/ ExecuteFrame(n) \/ StopRunning(n))
    /\ WF_vars(CtrlReady(n))

PacketsTo(n) == {m \in msgs : m.to = n}
ControlReqsTo(n) == {m \in PacketsTo(n) : m.kind = "ControlReq"}
NewControlsTo(n) ==
    {m \in PacketsTo(n) : m.kind = "Control" /\ ~HasCtrl(stack[n], m.pkt.client, m.pkt.tick)}
Taken(M) == ~(M \subseteq msgs')

NetworkThreadFairness(n) ==
    /\ []<>(PacketsTo(n) = {}) \/ []<><<Taken(PacketsTo(n))>>_vars
    /\ []<>(ControlReqsTo(n) = {}) \/ []<><<Taken(ControlReqsTo(n))>>_vars
    /\ []<>(NewControlsTo(n) = {}) \/ []<><<Taken(NewControlsTo(n))>>_vars
    /\ \A i \in Joins : WF_vars(OnResComplete(n, i))

FairSpec == Spec /\ \A n \in Nodes : MainThreadFairness(n) /\ NetworkThreadFairness(n)

(* Only the host's main thread is sure to run. *)
HostFairSpec == Spec /\ MainThreadFairness(Host)
-----------------------------------------------------------------------------
TypeOK ==
    /\ frame \in [Nodes -> Nat]
    /\ ctrlTick \in [Nodes -> Nat]
    /\ preSend \in [Nodes -> PreSends]
    /\ sent \in [Nodes -> Nat \cup {-1}]
    /\ ready \in [Nodes -> Nat \cup {-1}]
    /\ waiting \in [Nodes -> BOOLEAN]
    /\ running \in [Nodes -> BOOLEAN]
    /\ stack \in [Nodes -> SUBSET Packets]
    /\ loaded \in [Nodes -> SUBSET Joins]
    /\ msgs \in SUBSET Messages
    /\ input \in [Active -> Seq(Inputs)]
    /\ packed \in SUBSET Packets
    /\ log \in [Nodes -> Seq(Packets)]

(* Whatever the delays of the packets, the order of their arrival and the  *)
(* moment of the two threads' steps, two clients that have executed a      *)
(* control tick have executed the same control for it: what GetControl     *)
(* hands to C4GameControl::Execute is the same everywhere.                 *)
Agreement ==
    \A n, m \in Nodes : \A k \in DOMAIN log[n] \cap DOMAIN log[m] : log[n][k] = log[m][k]

(* Every client executes every tick, once and in order: the control of the *)
(* current tick can always be retrieved when CtrlReady said it is there,   *)
(* and LogFatal in C4GameControl::Execute is never reached.                *)
NoTickSkipped ==
    \A n \in Nodes :
        /\ \A k \in DOMAIN log[n] : log[n][k].tick = k - 1
        /\ Len(log[n]) = IF IsCtrlFrame(frame[n]) THEN ctrlTick[n] ELSE ctrlTick[n] + 1

(* What is executed for a tick is what each client put in for it, unchanged *)
(* and in the tick it was sent for; no client is left out unless the game  *)
(* is asynchronous, and the host never.                                    *)
FaithfulControl ==
    \A n \in Nodes : \A k \in DOMAIN log[n] :
        LET ctrl == log[n][k].ctrl
        IN  /\ \A c \in DOMAIN ctrl : k <= Len(input[c]) /\ ctrl[c] = input[c][k]
            /\ IF Mode = "Async" THEN Host \in DOMAIN ctrl ELSE DOMAIN ctrl = Active

(* No client throws away, in ClearCtrl, a control that an activated client *)
(* may still ask it for: C4ControlBacklog exceeds what the PreSend lets     *)
(* the clients get apart.                                                  *)
BacklogSuffices ==
    Mode # "Async" => \A n \in Nodes, c \in Active : ctrlTick[n] - Backlog <= ready[c] + 1

(* Whatever two clients lose of what they send each other, the host has or  *)
(* will get the control that any client still misses, so that a request    *)
(* (CheckCompleteCtrl, HandleControlReq) can bring it.  A client that the  *)
(* host does not wait for, deactivated or in an asynchronous game, may     *)
(* fall behind by more than the backlog.                                   *)
HostCanAnswer ==
    \A n \in Nodes, c \in Active :
        Mode # "Async" /\ (n \in Active \/ TargetTick \in 0 .. Backlog) =>
            \A t \in ready[n] + 1 .. Len(input[c]) - 1 :
                \/ HasCtrl(stack[Host], All, t) \/ HasCtrl(stack[Host], c, t)
                \/ \E m \in msgs : /\ m.kind = "Control" /\ m.to = Host /\ m.from = c
                                  /\ m.pkt.client = c /\ m.pkt.tick = t

(* A player join is executed only where its resource is complete           *)
(* (C4GameControl::Execute asserts PreExecute).                            *)
ResourcesPresent == \A n \in Nodes : \A k \in DOMAIN log[n] : PreExecute(loaded[n], log[n][k])

(* With a target tick set, nobody executes it or packs a control for it.   *)
StopsAtTarget ==
    TargetTick >= 0 => /\ \A n \in Nodes : Len(log[n]) <= TargetTick
                       /\ \A p \in packed : p.tick < TargetTick

(* A control that an asynchronous game packs without a client's part is    *)
(* the control the host is waiting for at that time.                       *)
LateOnlyForCurrentTick ==
    [][\A p \in packed' \ packed : DOMAIN p.ctrl # Active => p.tick = ctrlTick[Host]]_vars

(* The control exchange is a lockstep of the packed controls. *)
decided ==
    [k \in 1 .. Cardinality({p.tick : p \in packed}) |-> (CHOOSE p \in packed : p.tick = k - 1).ctrl]
executed == [n \in Nodes |-> [k \in DOMAIN log[n] |-> log[n][k].ctrl]]

L == INSTANCE Lockstep WITH Clients <- Nodes
ImplementsLockstep == L!Spec

(* Every client gets to the target tick and stays there, all of them at    *)
(* the same tick: C4Network2 waits for that before it goes on.             *)
AllReachTarget ==
    <>[](\A n \in Nodes : ctrlTick[n] = TargetTick /\ ~running[n])

(* Without a target and with reliable connections the game never stalls. *)
NeverStalls == \A n \in Nodes : <>(frame[n] = MaxFrame)

(* The host of an asynchronous game never stalls, whoever is silent. *)
HostNeverStalls == <>(frame[Host] = MaxFrame)
=============================================================================
