----------------------------- MODULE GameNetwork -----------------------------
(***************************************************************************)
(* The status protocol of a network game, C4Network2, and what it is for:  *)
(* the host brings all clients to a tick where the game is paused, goes on *)
(* or executes synchronous control, a control that is not sent with the    *)
(* control of a tick (C4GameControlNetwork::SyncControl): the activation,  *)
(* deactivation and removal of clients.                                    *)
(*                                                                         *)
(* The host announces a status (Go or Pause, with a target tick), every    *)
(* client runs up to it, stops and tells the host, and when all have done  *)
(* so the host sends the synchronous control to execute and acknowledges   *)
(* the status.                                                             *)
(*                                                                         *)
(* A step is an event of one node: a handler with everything it calls is a *)
(* function from node records to node records, and what the handler sends  *)
(* collects in the field out.  Packets between two nodes stay in order;    *)
(* the network thread takes controls out of a connection as they come,     *)
(* while packets for the main thread wait for it.                          *)
(*                                                                         *)
(* A client that joins the running game gets the game as it was saved at a *)
(* synchronisation (the dynamic data), loads it, and chases the others,    *)
(* which do not wait for it until it has acknowledged a status; when it    *)
(* has players it asks to be activated.                                    *)
(*                                                                         *)
(* Players vote on pauses and on removals: the host pauses the game for a  *)
(* vote, counts, and executes the result as synchronous control.           *)
(*                                                                         *)
(* The control mode is decentral or central and does not change, there is  *)
(* no lobby, saving the game succeeds, and nothing is older than the       *)
(* backlog; GameControlNetwork has the control exchange in detail, and     *)
(* NetworkRes how the saved game gets to the client.                       *)
(*                                                                         *)
(* An operator whose name ends in a word after "_" is its namesake with a  *)
(* plausible bug; nothing here uses it.                                    *)
(***************************************************************************)
EXTENDS Integers, Sequences, FiniteSets, SequencesExt

CONSTANTS
    Clients, \* the clients there may be
    Host,    \* the client with ID C4ClientIDHost
    All,     \* C4ClientIDAll, the client ID of a complete control
    Settings \* the games, see Setting

Syncs ==
    [type : {"Activate", "Deactivate", "Set", "Remove", "Synchronize"}, client : Clients]

(* What can be voted on, by type and data, and the end of a vote on it.    *)
Subjects == [type : {"Kick"}, data : Clients \ {Host}] \cup [type : {"Pause"}, data : BOOLEAN]
VoteEnds == [type : {"VoteEnd"}, subject : Subjects, approve : BOOLEAN]
Votes == [by : Clients, subject : Subjects, approve : BOOLEAN]

(* The clients of a game, the control mode, ControlRate, iControlPreSend,  *)
(* the synchronous controls the host may issue, the clients that may       *)
(* disappear, those that join the running game and those of them that have *)
(* players, whether the host may pause and resume, what users may start a  *)
(* vote on and the clients that have a vote, whether commands come before  *)
(* the last one is over and votes before the game is paused for them,      *)
(* C4NetMaxBehind4Activation; and the bounds: on the commands, on the      *)
(* frame of commands and joins, and on the frame of the client that is     *)
(* furthest, see CanExecute.                                               *)
Setting ==
    [nodes : {N \in SUBSET Clients : Host \in N}, mode : {"Decentral", "Central"},
     rate : Nat \ {0}, preSend : Nat \ {0},
     syncControls : SUBSET {x \in Syncs : x.type \in {"Activate", "Deactivate", "Set"}},
     crashing : SUBSET (Clients \ {Host}), joining : SUBSET (Clients \ {Host}),
     playing : SUBSET (Clients \ {Host}), pausing : BOOLEAN, subjects : SUBSET Subjects,
     voters : SUBSET Clients, hasty : BOOLEAN, maxBehind : Nat,
     maxCommands : Nat, maxStart : Nat, maxFrame : Nat]

ASSUME ClientsAssumption == Host \in Clients /\ All \notin Clients /\ IsFiniteSet(Clients)
ASSUME SettingsAssumption == Settings \subseteq Setting

VARIABLES
    setting,  \* the game, which does not change
    node,     \* node[n]: the state of client n, see Init
    net,      \* net[n][m]: the packets from n to m on their way
    gone,     \* the clients that disappeared
    commands  \* the number of commands the host got

vars == <<setting, node, net, gone, commands>>

Nodes == setting.nodes
Mode == setting.mode
Rate == setting.rate
PreSend == setting.preSend
Crashing == setting.crashing
MaxFrame == setting.maxFrame
-----------------------------------------------------------------------------
(* C4GameControlPacket: the control of a client for a tick, told apart by  *)
(* how often the client had been activated, or the complete control.       *)
ClientPacket(n, t, epoch) == [client |-> n, tick |-> t, ctrl |-> [c \in {n} |-> epoch]]

CtrlsFor(s, c, t) == {p \in s.stack : p.client = c /\ p.tick = t}
HasCtrl(s, c, t) == CtrlsFor(s, c, t) # {}

(* getCtrl finds what was added last. *)
getCtrl(s, c, t) ==
    CHOOSE p \in CtrlsFor(s, c, t) :
        \A q \in CtrlsFor(s, c, t) : \A d \in DOMAIN q.ctrl : q.ctrl[d] <= p.ctrl[d]

ControlTick(s) == s.frame \div Rate
IsCtrlFrame(s) == s.frame % Rate = 0
getNextControlTick(s) == IF IsCtrlFrame(s) THEN ControlTick(s) ELSE ControlTick(s) + 1
CtrlTickReached(s, t) == ControlTick(s) >= t /\ IsCtrlFrame(s)

Send(s, R, ms) == [s EXCEPT !.out = [m \in Nodes |-> IF m \in R THEN @[m] \o ms ELSE @[m]]]
Broadcast(s, n, msg) == Send(s, Nodes \ {n}, <<msg>>)

ControlMsg(p) == [kind |-> "Control", pkt |-> p]
ControlReqMsg(t) == [kind |-> "ControlReq", tick |-> t]
ControlPktMsg(x) == [kind |-> "ControlPkt", ctrl |-> x]
ExecSyncCtrlMsg(t) == [kind |-> "ExecSyncCtrl", tick |-> t]
StatusMsg(state, t) == [kind |-> "Status", state |-> state, tick |-> t]
StatusAckMsg(state, t) == [kind |-> "StatusAck", state |-> state, tick |-> t]
ActivateReqMsg(f) == [kind |-> "ClientActReq", frame |-> f]
VoteMsg(v) == [kind |-> "Vote", vote |-> v]

(* The dynamic data: the game when it was saved, and for which tick.       *)
NoDynamic == [tick |-> -1, frame |-> -1, log |-> <<>>]
JoinDataMsg(s) ==
    [kind |-> "JoinData", state |-> s.state, tick |-> s.goal, active |-> s.active,
     dynamic |-> s.dynamic]

ByTick(S) == SetToSortSeq(S, LAMBDA p, q : p.tick < q.tick)
ControlMsgs(S) == LET ps == ByTick(S) IN [i \in DOMAIN ps |-> ControlMsg(ps[i])]
-----------------------------------------------------------------------------
(* C4GameControlNetwork, the exchange *)

(* The stop tick: the target or the first queued synchronous control. *)
BeforeStop(s, t) ==
    /\ s.target >= 0 => t < s.target
    /\ s.queue # <<>> => t < Head(s.queue).tick

MayPack(s, n, t) ==
    /\ ~HasCtrl(s, All, t)
    /\ s.activated => s.sent >= t
    /\ BeforeStop(s, t)
    /\ Mode = "Decentral" \/ n = Host
    /\ \A c \in s.clients : HasCtrl(s, c, t)

PackComplete(s, t) ==
    [client |-> All, tick |-> t, ctrl |-> [c \in s.clients |-> getCtrl(s, c, t).ctrl[c]]]

(* The last tick that can become ready: complete, or to be packed. *)
LastReady(s, n) ==
    CHOOSE r \in {s.ready} \cup {p.tick : p \in s.stack} :
        /\ r >= s.ready
        /\ \A t \in s.ready + 1 .. r : HasCtrl(s, All, t) \/ MayPack(s, n, t)
        /\ ~HasCtrl(s, All, r + 1) /\ ~MayPack(s, n, r + 1)

Recover_LastReady(s, n) ==
    IF s.due /\ s.ready < s.target
    THEN Send([s EXCEPT !.due = FALSE], Nodes \ {n}, <<ControlReqMsg(s.ready)>>)
    ELSE s
Recover(s, n) ==
    IF s.due /\ s.ready < s.target /\ (s.activated => s.sent > s.ready)
    THEN Send([s EXCEPT !.due = FALSE],
              (IF Mode = "Central" THEN {Host} ELSE Nodes) \ {n}, <<ControlReqMsg(s.ready + 1)>>)
    ELSE s

PackUpTo(s, n, r) ==
    LET new == {PackComplete(s, t) : t \in {t \in s.ready + 1 .. r : ~HasCtrl(s, All, t)}}
    IN  Recover(Send([s EXCEPT !.ready = r, !.stack = @ \cup new],
                     (IF Mode = "Central" THEN Nodes ELSE {}) \ {n}, ControlMsgs(new)), n)

CheckCompleteCtrl(s, n) == IF s.running THEN PackUpTo(s, n, LastReady(s, n)) ELSE s

(* CopyClientList *)
CopyClientList_Not(s) == s
CopyClientList(s) == [s EXCEPT !.clients = s.active]

(* SetRunning; what is not a change is ignored. *)
SetRunning_Started(s, n, running, target) ==
    IF s.running = running /\ s.target = target THEN s
    ELSE LET set == [s EXCEPT !.running = TRUE, !.target = target]
         IN  CheckCompleteCtrl(CopyClientList(set), n)
SetRunning(s, n, running, target) ==
    IF s.running = running /\ s.target = target THEN s
    ELSE LET set == [s EXCEPT !.running = running, !.target = target]
         IN  IF running THEN CheckCompleteCtrl(CopyClientList(set), n) ELSE set

(* C4GameControl::Prepare, the loop: DoInput while CtrlNeeded. *)
DoInput(s, n) ==
    LET due == (s.frame + PreSend) \div Rate
        last == IF s.target >= 0 /\ s.target < due THEN s.target ELSE due
        ps == {ClientPacket(n, t, s.epoch) : t \in s.sent + 1 .. last}
    IN  IF ~s.activated \/ ps = {} THEN s
        ELSE CheckCompleteCtrl(
                 Send([s EXCEPT !.sent = last, !.stack = @ \cup ps],
                      (IF Mode = "Decentral" THEN Nodes ELSE {Host}) \ {n}, ControlMsgs(ps)), n)

HandleControl(s, n, p) ==
    IF HasCtrl(s, p.client, p.tick) THEN s
    ELSE CheckCompleteCtrl([s EXCEPT !.stack = @ \cup {p}], n)

(* From the requested tick on the complete controls, or else all there is. *)
HandleControlReq(s, from, t) ==
    Send(s, {from},
         ControlMsgs({p \in s.stack : /\ p.tick >= t
                                      /\ \A u \in t .. p.tick : \E q \in s.stack : q.tick = u
                                      /\ p.client = All \/ ~HasCtrl(s, All, p.tick)}))
-----------------------------------------------------------------------------
(* C4GameControlNetwork, the synchronous control *)

(* SetActivated of the local client. *)
SetActivated(s, activated) ==
    IF s.activated = activated THEN s
    ELSE IF activated
         THEN [s EXCEPT !.activated = TRUE, !.sent = getNextControlTick(s) - 1, !.epoch = @ + 1]
         ELSE [s EXCEPT !.activated = FALSE]

(* SendJoinData, with the dynamic data at hand: all that wait for them.    *)
WithJoinData(s, cs) ==
    [Send(s, cs, <<JoinDataMsg(s)>>) EXCEPT
        !.peers = [c \in DOMAIN @ |-> IF c \in cs THEN "Chasing" ELSE @[c]]]

(* C4Network2::OnGameSynchronized, with CreateDynamic *)
OnGameSynchronized(s) ==
    LET saved == [s EXCEPT !.needed = FALSE,
                           !.dynamic = [tick |-> getNextControlTick(s), frame |-> s.frame, log |-> s.log]]
    IN  IF s.needed THEN WithJoinData(saved, {c \in DOMAIN s.peers : s.peers[c] = "Joining"}) ELSE s

(* Executing a control may change the status, and that execute more.       *)
RECURSIVE ExecControlPacket(_, _, _)

ExecControl(s, n, ctrl) == FoldLeft(LAMBDA t, x : ExecControlPacket(t, n, x), s, ctrl)

(* ExecQueuedSyncCtrl: what is too late is reported and dropped. *)
ExecQueuedSyncCtrl(s, n) ==
    LET now == SelectSeq(s.queue, LAMBDA q : q.tick = ControlTick(s))
        rest(t) == [t EXCEPT !.queue = SelectSeq(@, LAMBDA q : q.tick > ControlTick(s)),
                             !.late = @ \/ \E i \in DOMAIN s.queue : s.queue[i].tick < ControlTick(s)]
    IN  IF now = <<>> THEN rest(s)
        ELSE CopyClientList(rest(FoldLeft(LAMBDA t, q : ExecControl(t, n, q.ctrl), s, now)))

AddSyncCtrlToQueue(s, ctrl, t) ==
    LET entry == [tick |-> t, ctrl |-> ctrl]
    IN  [s EXCEPT !.queue = SelectSeq(@, LAMBDA q : q.tick <= t) \o <<entry>>
                              \o SelectSeq(@, LAMBDA q : q.tick > t)]

(* ExecSyncControl with a tick, of the host and on PID_ExecSyncCtrl *)
ExecSyncControlAt(s, n, t) ==
    LET taken == [s EXCEPT !.sync = <<>>]
    IN  CASE s.sync = <<>> -> s
          [] s.sync # <<>> /\ ControlTick(s) = t -> ExecControl(taken, n, s.sync)
          [] s.sync # <<>> /\ ControlTick(s) > t -> [taken EXCEPT !.late = TRUE]
          [] s.sync # <<>> /\ ControlTick(s) < t -> AddSyncCtrlToQueue(taken, s.sync, t)

ExecSyncControl(s, n) ==
    IF s.sync = <<>> THEN s
    ELSE ExecSyncControlAt(Broadcast(s, n, ExecSyncCtrlMsg(ControlTick(s))), n, ControlTick(s))
-----------------------------------------------------------------------------
(* C4Network2, the status *)

isFrozen_Pausing(s) == s.state = "Pause"
isFrozen(s) == s.state = "Pause" /\ s.acked
isRunning(s) == s.state = "Go" /\ s.acked

OnStatusReached(s, n) == SetRunning([s EXCEPT !.halted = TRUE], n, FALSE, -1)

OnStatusAck(s, n) ==
    IF s.state = "Pause" THEN [s EXCEPT !.halted = TRUE]
    ELSE [SetRunning(s, n, TRUE, -1) EXCEPT !.halted = FALSE]

AllClientsReady_Any(s) == TRUE
AllClientsReady(s) == \A c \in DOMAIN s.peers : s.peers[c] # "NotReady"

(* The status that is acknowledged is the one after ExecSyncControl.       *)
Acknowledge(s, n) == OnStatusAck(Broadcast(s, n, StatusAckMsg(s.state, s.goal)), n)

CheckStatusAck(s, n) ==
    IF n = Host /\ s.reached /\ ~s.acked /\ AllClientsReady(s)
    THEN Acknowledge(ExecSyncControl([s EXCEPT !.acked = TRUE], n), n)
    ELSE s

CtrlReady(s, n) == CheckCompleteCtrl(s, n)

(* The status is reached: at its tick, with no more control to execute     *)
(* unless the client is chasing.                                           *)
HasReached_Tick(s) == CtrlTickReached(s, s.goal)
HasReached(s) == CtrlTickReached(s, s.goal) /\ (s.chasing \/ s.ready < ControlTick(s))

(* RequestActivate of a client, C4NetActivationReqInterval being over.     *)
RequestActivate(s, n) ==
    IF n \in s.active THEN [s EXCEPT !.asked = FALSE]
    ELSE IF ~s.reached THEN [s EXCEPT !.delayed = TRUE]
    ELSE Send([s EXCEPT !.asked = TRUE], {Host}, <<ActivateReqMsg(s.frame)>>)

DelayedRequest_Lost(s, n) == [s EXCEPT !.delayed = FALSE]
DelayedRequest(s, n) == IF s.delayed THEN RequestActivate([s EXCEPT !.delayed = FALSE], n) ELSE s

(* CheckStatusReached: the control of the current tick is checked only     *)
(* when the target tick is reached.                                        *)
TellReached(s, n) ==
    IF n = Host THEN CheckStatusAck(s, n)
    ELSE DelayedRequest(Send([s EXCEPT !.goal = ControlTick(s)], {Host},
                             <<StatusAckMsg(s.state, ControlTick(s))>>), n)

StopOrGoOn(s, n) ==
    IF HasReached(s) THEN TellReached(OnStatusReached([s EXCEPT !.reached = TRUE], n), n)
    ELSE [SetRunning(s, n, TRUE, s.goal) EXCEPT !.halted = FALSE]

CheckStatusReached(s, n) ==
    IF s.reached \/ ~s.inGame THEN s
    ELSE StopOrGoOn(IF CtrlTickReached(s, s.goal) /\ ~s.chasing THEN CtrlReady(s, n) ELSE s, n)

(* C4Network2ClientList::ResetReady *)
ResetReady_Not(peers) == peers
ResetReady(peers) == [c \in DOMAIN peers |-> IF peers[c] = "Ready" THEN "NotReady" ELSE peers[c]]

ChangeGameStatus(s, n, state, t) ==
    CheckStatusReached(
        Broadcast([s EXCEPT !.state = state, !.goal = t, !.peers = ResetReady(@),
                            !.reached = FALSE, !.acked = FALSE], n, StatusMsg(state, t)), n)

HandleStatus(s, n, state, t) ==
    CheckStatusReached([s EXCEPT !.state = state, !.goal = t, !.reached = FALSE, !.acked = FALSE], n)

(* HandleStatusAck of the host, from client c: who is further on than the  *)
(* target sets a new one ...                                               *)
NewTarget_Not(s, t) == FALSE
NewTarget(s, t) == ~s.acked /\ t > s.goal

Answer(s, c, state, t) == IF s.acked THEN Send(s, {c}, <<StatusAckMsg(state, t)>>) ELSE s

HandleClientAck(s, c, state, t) ==
    LET changed == IF NewTarget(s, t) THEN ChangeGameStatus(s, Host, state, t) ELSE s
    IN  IF state # s.state \/ t < s.goal \/ s.peers[c] \in {"Joining", "Remove"} THEN s
        ELSE CheckStatusAck([Answer(changed, c, state, t) EXCEPT !.peers[c] = "Ready"], Host)

(* ... and of a client *)
HandleHostAck(s, n, state, t) ==
    IF state = s.state /\ t = s.goal /\ s.reached
    THEN OnStatusAck([s EXCEPT !.acked = TRUE, !.chasing = FALSE], n)
    ELSE s

Sync(s, n) ==
    IF ~s.acked THEN CheckStatusAck(s, n)
    ELSE IF isFrozen(s) THEN s
    ELSE ChangeGameStatus(s, n, s.state, getNextControlTick(s))

(* C4GameControlNetwork::DoInput of the host, for synchronous control *)
DoSyncInput(s, x) ==
    LET told == Broadcast(s, Host, ControlPktMsg(x))
    IN  IF isFrozen(s)
        THEN Broadcast(ExecControlPacket(told, Host, x), Host, ExecSyncCtrlMsg(ControlTick(s)))
        ELSE Sync([told EXCEPT !.sync = Append(@, x)], Host)

(* C4ClientList::CtrlRemove *)
CtrlRemove(s, c) ==
    DoSyncInput([s EXCEPT !.peers[c] = "Remove"], [type |-> "Remove", client |-> c])

(* HandleControlPkt of a client *)
ExecOrKeep(s, n, x) ==
    IF isFrozen(s) THEN ExecControlPacket(s, n, x) ELSE [s EXCEPT !.sync = Append(@, x)]

HandleControlPkt(s, n, x) == ExecOrKeep(ExecQueuedSyncCtrl(s, n), n, x)
-----------------------------------------------------------------------------
(* C4Network2, the votes *)

(* The clients that the host knows. *)
Listed(s, c) == c = Host \/ s.peers[c] \notin {"Unknown", "Removed"}

(* GetVote finds the first one. *)
VotesOn(s, x) == SelectSeq(s.votes, LAMBDA v : v.subject = x)
HasVoted(s, c, x) == \E i \in DOMAIN s.votes : s.votes[i].by = c /\ s.votes[i].subject = x
GetVote(s, c, x) == SelectSeq(VotesOn(s, x), LAMBDA v : v.by = c)[1]

(* C4Network2::Pause, with the flag *)
PauseForVote(s, n) ==
    IF n = Host /\ isRunning(s)
    THEN [ChangeGameStatus(s, n, "Pause", getNextControlTick(s)) EXCEPT !.pausedForVote = TRUE]
    ELSE s

(* C4ControlVote::Execute: the host counts, and half of the votes against  *)
(* the subject are enough.                                                 *)
CountVotes(s, x) ==
    LET electorate == {c \in setting.voters : Listed(s, c)}
        voted(approve) == {c \in electorate : HasVoted(s, c, x) /\ GetVote(s, c, x).approve = approve}
        approved == Cardinality(voted(TRUE)) * 2 > Cardinality(electorate)
        rejected == Cardinality(voted(FALSE)) * 2 >= Cardinality(electorate)
    IN  IF approved \/ rejected
        THEN DoSyncInput(s, [type |-> "VoteEnd", subject |-> x, approve |-> approved])
        ELSE s

ExecVote(s, n, v) ==
    LET added == [s EXCEPT !.votes = Append(@, v)]
    IN  IF n = Host THEN CountVotes(PauseForVote(added, n), v.subject) ELSE added

(* C4Network2::Vote, of the user; direct control goes to everybody.        *)
Vote(s, n, x, approve) ==
    LET v == [by |-> n, subject |-> x, approve |-> approve]
    IN  IF HasVoted(s, n, x) THEN s
        ELSE ExecVote(Broadcast(PauseForVote(s, n), n, VoteMsg(v)), n, v)

WithoutVotes(s, x) == SelectSeq(s.votes, LAMBDA v : v.subject # x)

(* The game goes on with the last vote, unless it was decided to pause it. *)
EndVote_Paused(s, n, x, approve) == [s EXCEPT !.votes = WithoutVotes(s, x)]
EndVote(s, n, x, approve) ==
    LET decided == approve /\ x.type = "Pause"
        ended == [s EXCEPT !.votes = WithoutVotes(s, x),
                           !.pausedForVote = IF decided THEN ~x.data ELSE @]
    IN  CASE ended.votes # <<>> \/ ~ended.pausedForVote -> ended
          [] ended.votes = <<>> /\ ended.pausedForVote /\ n # Host -> [ended EXCEPT !.pausedForVote = FALSE]
          [] ended.votes = <<>> /\ ended.pausedForVote /\ n = Host ->
                [ChangeGameStatus(ended, n, "Go", ControlTick(ended)) EXCEPT !.pausedForVote = FALSE]

(* C4ControlVoteEnd::Execute *)
RemoveByVote(s, n, c) ==
    CASE n = Host /\ Listed(s, c) -> CtrlRemove(s, c)
      [] n = c -> [s EXCEPT !.left = TRUE]
      [] OTHER -> s

Decide(s, n, x) ==
    IF x.approve /\ x.subject.type = "Kick" THEN RemoveByVote(s, n, x.subject.data) ELSE s

ExecVoteEnd(s, n, x) == Decide(EndVote(s, n, x.subject, x.approve), n, x)

(* C4ControlClientRemove::Execute *)
ExecClientRemove(s, n, c) ==
    CASE n = c -> [s EXCEPT !.left = TRUE]
      [] n = Host -> [s EXCEPT !.active = @ \ {c}, !.linked = @ \ {c}, !.peers[c] = "Removed"]
      [] n \notin {c, Host} -> [s EXCEPT !.active = @ \ {c}]

(* C4ControlClientUpdate::Execute, C4ControlSynchronize::Execute and those *)
ExecControlPacket(s, n, x) ==
    LET logged == [s EXCEPT !.log = Append(@, x)]
        local(t, a) == IF x.client = n THEN SetActivated(t, a) ELSE t
    IN  CASE x.type = "Activate" -> local([logged EXCEPT !.active = @ \cup {x.client}], TRUE)
          [] x.type = "Deactivate" -> local([logged EXCEPT !.active = @ \ {x.client}], FALSE)
          [] x.type = "Remove" -> ExecClientRemove(logged, n, x.client)
          [] x.type = "Synchronize" -> OnGameSynchronized(logged)
          [] x.type = "VoteEnd" -> ExecVoteEnd(logged, n, x)
          [] OTHER -> logged
-----------------------------------------------------------------------------
(* C4Network2, the runtime join *)

(* SendJoinData: dynamic data of a tick that is over are of no use. *)
SendJoinData(s, c) ==
    IF s.dynamic.tick >= ControlTick(s) THEN WithJoinData(s, {c})
    ELSE DoSyncInput([s EXCEPT !.needed = TRUE], [type |-> "Synchronize", client |-> Host])

OnClientConnect(s, c) ==
    LET linked == [s EXCEPT !.linked = @ \cup {c}]
    IN  IF s.peers[c] = "Joining" THEN SendJoinData(linked, c) ELSE linked

(* The game is not loaded yet.  What control has been sent since it was    *)
(* saved may have been sent before the client was connected.               *)
HandleJoinData_OneLess(s, msg) ==
    LET next == msg.dynamic.tick - 2
    IN  Send([s EXCEPT !.state = msg.state, !.goal = msg.tick, !.reached = FALSE, !.acked = FALSE,
                       !.active = msg.active, !.clients = msg.active, !.dynamic = msg.dynamic,
                       !.frame = msg.dynamic.frame, !.sent = next, !.ready = next],
             {Host}, <<ControlReqMsg(next + 1)>>)
HandleJoinData(s, msg) ==
    LET next == msg.dynamic.tick - 1
    IN  Send([s EXCEPT !.state = msg.state, !.goal = msg.tick, !.reached = FALSE, !.acked = FALSE,
                       !.active = msg.active, !.clients = msg.active, !.dynamic = msg.dynamic,
                       !.frame = msg.dynamic.frame, !.sent = next, !.ready = next],
             {Host}, <<ControlReqMsg(next + 1)>>)

(* JoinLocalPlayer, if there is a player, RetrieveScenario, the loading of *)
(* the game and FinalInit                                                  *)
Loaded(s, n) ==
    LET joined == IF n \in setting.playing THEN RequestActivate(s, n) ELSE s
    IN  CheckStatusReached([joined EXCEPT !.inGame = TRUE, !.log = s.dynamic.log], n)

(* HandleActivateReq of the host, for a client that is at frame f *)
HandleActivateReq(s, c, f) ==
    IF s.peers[c] \in {"Ready", "NotReady"} /\ c \notin s.active
         /\ (isRunning(s) => f >= s.frame - setting.maxBehind)
    THEN DoSyncInput(s, [type |-> "Activate", client |-> c])
    ELSE s
-----------------------------------------------------------------------------
(* The game as it is when the first Go is acknowledged; who joins later    *)
(* has an empty one.                                                       *)
Init ==
    /\ setting \in Settings
    /\ node = [n \in Nodes |-> LET member == n \notin setting.joining IN
        [frame |-> 0,           \* Game.FrameCounter
         activated |-> member,  \* fActivated
         epoch |-> 0,           \* how often n was activated again
         sent |-> -1,           \* iControlSent
         ready |-> -1,          \* iControlReady
         running |-> member,    \* fRunning
         target |-> -1,         \* iTargetTick
         halted |-> FALSE,      \* HaltCount > 0
         stack |-> {},          \* pCtrlStack
         clients |-> Nodes \ setting.joining, \* pClients
         active |-> Nodes \ setting.joining,  \* the activated clients in Game.Clients
         state |-> IF member THEN "Go" ELSE "Init",  \* Status
         goal |-> 0,            \* its target tick
         reached |-> TRUE,      \* fStatusReached
         acked |-> TRUE,        \* fStatusAck
         peers |-> [c \in IF n = Host THEN Nodes \ {Host} ELSE {} |->
                      IF c \in setting.joining THEN "Unknown" ELSE "Ready"],
                                \* C4Network2ClientStatus, of the host only
         linked |-> IF n = Host THEN Nodes \ setting.joining ELSE {},
                                \* the clients that are connected to the host
         needed |-> FALSE,      \* fDynamicNeeded
         dynamic |-> NoDynamic, \* ResDynamic, iDynamicTick
         inGame |-> member,     \* Game.IsRunning
         chasing |-> ~member,   \* fChasing
         asked |-> FALSE,       \* iLastActivateRequest is set
         delayed |-> FALSE,     \* fDelayedActivateReq
         votes |-> <<>>,        \* Votes
         pausedForVote |-> FALSE,
         cut |-> {},            \* the clients the host has lost the connection to
         left |-> FALSE,        \* Clear: n has been removed
         sync |-> <<>>,         \* SyncControl
         queue |-> <<>>,        \* pSyncCtrlQueue
         late |-> FALSE,        \* got synchronous control for a tick that was over
         log |-> <<>>,          \* the controls n executed
         due |-> FALSE,         \* iNextControlReqeust is over, in this step
         out |-> [m \in Nodes |-> <<>>]]]  \* what n sends in this step
    /\ net = [n \in Nodes |-> [m \in Nodes |-> <<>>]]
    /\ gone = {}
    /\ commands = 0

IsFor(thread, msg) == (msg.kind \in {"Control", "ControlReq"}) <=> (thread = "network")

(* C4ControlRequestInterval is over: what was asked for has arrived. *)
DueOutcomes ==
    {FALSE, \A n, m \in Nodes : \A i \in DOMAIN net[n][m] : ~IsFor("network", net[n][m][i])}

(* Client c leaves or disappears, and with it the end of what it sent to   *)
(* each.                                                                   *)
WithoutClient(q, c) ==
    {[n \in Nodes |-> [m \in Nodes |->
         CASE m = c -> <<>>
           [] m # c /\ n = c -> SubSeq(q[c][m], 1, Min({kept[m], Len(q[c][m])}))
           [] OTHER -> q[n][m]]]
     : kept \in [Nodes \ {c} -> 0 .. Max({Len(q[c][m]) : m \in Nodes})]}

(* Node n goes to state s, the rest of the packets being those of rest. *)
Becomes(n, s, rest) ==
    LET linked == (IF n = Host THEN s.linked \cup node[Host].linked ELSE node[Host].linked) \ gone
        sent == [rest EXCEPT ![n] =
                    [m \in Nodes |-> IF m \in linked THEN @[m] \o s.out[m] ELSE <<>>]]
    IN  /\ node' = [node EXCEPT ![n] = [s EXCEPT !.due = FALSE, !.out = [m \in Nodes |-> <<>>]]]
        /\ net' \in IF s.left THEN WithoutClient(sent, n) ELSE {sent}
        /\ gone' = IF s.left THEN gone \cup {n} ELSE gone

(* C4Game::Execute: status, control, and the frame if it can be executed. *)
Prepare(s, n) ==
    IF IsCtrlFrame(s) THEN CtrlReady(DoInput(ExecQueuedSyncCtrl(s, n), n), n) ELSE DoInput(s, n)

(* Beyond MaxFrame, when clients join or vote, one goes only to reach a    *)
(* status or another client.                                               *)
CanExecute(s) ==
    /\ ~s.halted
    /\ \/ s.frame < MaxFrame
       \/ /\ setting.joining # {} \/ setting.subjects # {}
          /\ ~s.reached \/ \E m \in Nodes \ gone : node[m].frame > s.frame
    /\ IsCtrlFrame(s) => s.ready >= ControlTick(s)

ExecuteFrame(s) ==
    IF CanExecute(s)
    THEN [s EXCEPT !.frame = @ + 1,
                   !.log = IF IsCtrlFrame(s) THEN Append(@, getCtrl(s, All, ControlTick(s))) ELSE @]
    ELSE s

Executed(n, due) ==
    ExecuteFrame(Prepare(CheckStatusReached([node[n] EXCEPT !.due = due], n), n))

GameExecute(n) ==
    /\ n \in Nodes \ gone /\ node[n].inGame
    /\ \E due \in DueOutcomes : Becomes(n, Executed(n, due), net)
    /\ UNCHANGED <<setting, commands>>

(* The packet at i is the next one of its thread. *)
IsNext(q, i) ==
    IF IsFor("network", q[i]) THEN \A j \in 1 .. i - 1 : ~IsFor("network", q[j]) ELSE i = 1

HandleInGame(s, n, from, msg) ==
    CASE msg.kind = "ControlReq" -> HandleControlReq(s, from, msg.tick)
      [] msg.kind = "Status" -> HandleStatus(s, n, msg.state, msg.tick)
      [] msg.kind = "StatusAck" /\ n = Host -> HandleClientAck(s, from, msg.state, msg.tick)
      [] msg.kind = "StatusAck" /\ n # Host -> HandleHostAck(s, n, msg.state, msg.tick)
      [] msg.kind = "ControlPkt" -> HandleControlPkt(s, n, msg.ctrl)
      [] msg.kind = "ExecSyncCtrl" -> ExecSyncControlAt(s, n, msg.tick)
      [] msg.kind = "ClientActReq" -> HandleActivateReq(s, from, msg.frame)
      [] msg.kind = "Vote" -> ExecVote(s, n, msg.vote)

(* A client that has no join data yet keeps controls and ignores the rest. *)
HandleJoined(s, n, from, msg) ==
    CASE msg.kind = "Control" -> HandleControl(s, n, msg.pkt)
      [] msg.kind = "JoinData" -> IF s.state = "Init" THEN HandleJoinData(s, msg) ELSE s
      [] msg.kind \notin {"Control", "JoinData"} /\ s.state = "Init" -> s
      [] OTHER -> HandleInGame(s, n, from, msg)

(* The host has closed the connection to a client that it removed.         *)
Handle(s, n, from, msg) ==
    CASE n = Host /\ ~Listed(s, from) -> s
      [] n # Host \/ Listed(s, from) -> HandleJoined(s, n, from, msg)

HandlePacket(n, m) ==
    /\ n \in Nodes \ gone
    /\ m \in Nodes
    /\ \E i \in DOMAIN net[m][n] :
        /\ IsNext(net[m][n], i)
        /\ Becomes(n, Handle(node[n], n, m, net[m][n][i]), [net EXCEPT ![m][n] = RemoveAt(@, i)])
    /\ UNCHANGED <<setting, commands>>

(* Whether packets of the status protocol are on their way. *)
InTransit ==
    \E n, m \in Nodes : \E i \in DOMAIN net[n][m] : ~IsFor("network", net[n][m][i])

(* HandleConn of the host, with Join: the client is in the list.           *)
Join(c) ==
    /\ c \in setting.joining \ gone
    /\ node[Host].peers[c] = "Unknown" /\ node[Host].frame <= setting.maxStart
    /\ Becomes(Host, [node[Host] EXCEPT !.peers[c] = "Joining"], net)
    /\ UNCHANGED <<setting, commands>>

(* HandleConnRe of the host: the connection is accepted.                   *)
MayConnect(c) ==
    c \in setting.joining \ gone /\ c \notin node[Host].linked
      /\ node[Host].peers[c] \notin {"Unknown", "Remove", "Removed"}

Connect(c) ==
    /\ MayConnect(c)
    /\ Becomes(Host, OnClientConnect(node[Host], c), net)
    /\ UNCHANGED <<setting, commands>>

(* Unless the client is hasty, what was sent before it had the dynamic     *)
(* data is handled before the game is loaded.                              *)
MayLoad(c) ==
    /\ c \in setting.joining \ gone /\ ~node[c].inGame /\ node[c].state # "Init"
    /\ setting.hasty \/ \A i \in DOMAIN net[Host][c] : IsFor("network", net[Host][c][i])

LoadGame(c) ==
    /\ MayLoad(c)
    /\ Becomes(c, Loaded(node[c], c), net)
    /\ UNCHANGED <<setting, commands>>

(* UpdateChaseTarget: C4NetChaseTargetUpdateInterval is over.  Unless it   *)
(* is hasty that is long enough for the last target to arrive and for the  *)
(* host to come to a later tick, but not for the client to reach it or for *)
(* its answers to come.                                                    *)
Chasing == {c \in DOMAIN node[Host].peers \ gone : node[Host].peers[c] = "Chasing"}
IsHeard(c) == \A i \in DOMAIN net[Host][c] : net[Host][c][i].kind \notin {"JoinData", "Status"}
MayChase ==
    /\ Chasing # {}
    /\ setting.hasty \/ \A c \in Chasing : IsHeard(c) /\ node[c].goal < ControlTick(node[Host])

UpdateChaseTarget ==
    /\ MayChase
    /\ Becomes(Host, Send(node[Host], Chasing, <<StatusMsg(node[Host].state, ControlTick(node[Host]))>>), net)
    /\ UNCHANGED <<setting, commands>>

(* A client asks again to be activated, as long as it is not: when         *)
(* C4NetActivationReqInterval is over and, unless it is hasty, the request *)
(* before has been answered or ignored.                                    *)
MayAsk(c) ==
    /\ c \in Nodes \ gone /\ node[c].asked
    /\ setting.hasty \/ (~InTransit /\ node[Host].sync = <<>>)

AskForActivation(c) ==
    /\ MayAsk(c)
    /\ Becomes(c, RequestActivate(node[c], c), net)
    /\ UNCHANGED <<setting, commands>>

(* A command the host gets, from its user or by itself. *)
Command(s) ==
    /\ setting.hasty \/ (node[Host].acked /\ ~InTransit)
    /\ commands < setting.maxCommands /\ node[Host].frame <= setting.maxStart
    /\ Becomes(Host, s, net)
    /\ commands' = commands + 1
    /\ UNCHANGED setting

(* C4Game::Pause and Unpause *)
Pause ==
    /\ setting.pausing /\ isRunning(node[Host])
    /\ Command(ChangeGameStatus(node[Host], Host, "Pause", getNextControlTick(node[Host])))

Start ==
    /\ setting.pausing /\ ~isRunning(node[Host])
    /\ Command(ChangeGameStatus(node[Host], Host, "Go", ControlTick(node[Host])))

(* Synchronous control of the host: an inactive client is deactivated, one *)
(* that has input again is activated (HandleActivateReq), or the game is   *)
(* set up differently.                                                     *)
SyncInput(x) ==
    /\ x \in setting.syncControls
    /\ x.type = "Activate" => x.client \notin node[Host].active \cup gone
    /\ x.type = "Deactivate" => x.client \in node[Host].active
    /\ Command(DoSyncInput(node[Host], x))

(* A user starts a vote, as Game.Pause, Game.Unpause and the menus do.     *)
StartVote(c, x) ==
    /\ c \in setting.voters \ gone /\ x \in setting.subjects
    /\ node[c].state # "Init" /\ VotesOn(node[c], x) = <<>>
    /\ x.type = "Pause" => (x.data <=> isRunning(node[c]))
    /\ setting.hasty \/ (node[Host].acked /\ ~InTransit)
    /\ commands < setting.maxCommands /\ node[c].frame <= setting.maxStart
    /\ Becomes(c, Vote(node[c], c, x, TRUE), net)
    /\ commands' = commands + 1
    /\ UNCHANGED setting

(* A user answers, in C4VoteDialog.  Unless it is hasty the game is paused *)
(* by then.                                                                *)
AnswerVote(c, x, approve) ==
    /\ c \in setting.voters \ gone
    /\ VotesOn(node[c], x) # <<>> /\ ~HasVoted(node[c], c, x)
    /\ setting.hasty \/ isFrozen(node[c])
    /\ Becomes(c, Vote(node[c], c, x, approve), net)
    /\ UNCHANGED <<setting, commands>>

(* C4NetVotingTimeout is over, for the first vote.  By then everything has *)
(* arrived but votes that have just been given.                            *)
MayTimeOut_Running == node[Host].votes # <<>> /\ isRunning(node[Host])
MayTimeOut ==
    /\ node[Host].votes # <<>> /\ node[Host].acked
    /\ \A n, m \in Nodes : \A i \in DOMAIN net[n][m] :
        IsFor("network", net[n][m][i]) \/ net[n][m][i].kind = "Vote"

VoteTimeout ==
    /\ MayTimeOut
    /\ Becomes(Host, DoSyncInput(node[Host], [type |-> "VoteEnd", approve |-> FALSE,
                                             subject |-> Head(node[Host].votes).subject]), net)
    /\ UNCHANGED <<setting, commands>>

(* Client c disappears. *)
Crash(c) ==
    /\ c \in Crashing \ gone /\ node[Host].peers[c] # "Unknown"
    /\ gone' = gone \cup {c}
    /\ net' \in WithoutClient(net, c)
    /\ UNCHANGED <<setting, node, commands>>

IsDisconnected(c) ==
    /\ c \in gone \ node[Host].cut /\ net[c][Host] = <<>>
    /\ Listed(node[Host], c)

(* The host finds out, removes the client and starts again with the status *)
(* if that is not reached.                                                 *)
Retry(s) == IF s.reached THEN s ELSE ChangeGameStatus(s, Host, s.state, ControlTick(s))

OnClientDisconnect(c) ==
    /\ IsDisconnected(c)
    /\ Becomes(Host, Retry(CheckStatusAck(CtrlRemove([node[Host] EXCEPT !.cut = @ \cup {c}], c), Host)), net)
    /\ UNCHANGED <<setting, commands>>

Next ==
    \/ \E n \in Clients : GameExecute(n)
    \/ \E n, m \in Clients : HandlePacket(n, m)
    \/ Pause
    \/ Start
    \/ \E x \in Syncs : SyncInput(x)
    \/ \E c \in Clients : Crash(c) \/ OnClientDisconnect(c)
    \/ \E c \in Clients : Join(c) \/ Connect(c) \/ LoadGame(c) \/ AskForActivation(c)
    \/ UpdateChaseTarget
    \/ \E c \in Clients, x \in Subjects :
        StartVote(c, x) \/ \E approve \in BOOLEAN : AnswerVote(c, x, approve)
    \/ VoteTimeout

Spec == Init /\ [][Next]_vars

(* Both threads of a client keep running, the host notices that a          *)
(* connection is closed, the connection of a client that joins is accepted *)
(* and the game loaded, however often a chase target comes in between, and *)
(* the timers run.  This is weak fairness of all actions but the commands, *)
(* Crash and Join, and strong fairness of LoadGame, with what enables them *)
(* spelled out for TLC, which is slow to find it out.                      *)
Idle(n) == \A due \in DueOutcomes : [Executed(n, due) EXCEPT !.due = FALSE] = node[n]

Fairness ==
    /\ \A n \in Clients :
        []<>(n \notin Nodes \ gone \/ ~node[n].inGame \/ Idle(n)) \/ []<><<GameExecute(n)>>_vars
    /\ \A n, m \in Clients :
        []<>({n, m} \subseteq Nodes => net[m][n] = <<>>) \/ []<><<HandlePacket(n, m)>>_vars
    /\ \A c \in Clients :
        /\ []<>(~IsDisconnected(c)) \/ []<><<OnClientDisconnect(c)>>_vars
        /\ []<>(~MayConnect(c)) \/ []<><<Connect(c)>>_vars
        /\ <>[](~MayLoad(c)) \/ []<><<LoadGame(c)>>_vars
        /\ []<>(~MayAsk(c)) \/ []<><<AskForActivation(c)>>_vars
    /\ []<>(~MayChase) \/ []<><<UpdateChaseTarget>>_vars
    /\ []<>(~MayTimeOut) \/ []<><<VoteTimeout>>_vars

FairSpec == Spec /\ Fairness
-----------------------------------------------------------------------------
(* The packets and controls of the game. *)
Epochs == 0 .. setting.maxCommands + 1
Ctrls == UNION {[cs -> Epochs] : cs \in SUBSET Nodes}
Packets == [client : Nodes \cup {All}, tick : Nat, ctrl : Ctrls]
Controls == Syncs \cup VoteEnds
Dynamics == [tick : Nat, frame : Nat, log : Seq(Packets \cup Controls)]
Messages ==
    [kind : {"Control"}, pkt : Packets] \cup [kind : {"ControlReq", "ExecSyncCtrl"}, tick : Nat]
      \cup [kind : {"ControlPkt"}, ctrl : Controls] \cup [kind : {"Vote"}, vote : Votes]
      \cup [kind : {"Status", "StatusAck"}, state : {"Go", "Pause"}, tick : Nat]
      \cup [kind : {"ClientActReq"}, frame : Nat]
      \cup [kind : {"JoinData"}, state : {"Go", "Pause"}, tick : Nat, active : SUBSET Nodes,
            dynamic : Dynamics]

TypeOK ==
    /\ setting \in Settings
    /\ \A n \in Nodes :
        node[n] \in
          [frame : Nat, activated : BOOLEAN, epoch : Epochs, sent : Nat \cup {-1},
           ready : Nat \cup {-1}, running : BOOLEAN, target : Nat \cup {-1}, halted : BOOLEAN,
           stack : SUBSET Packets, clients : SUBSET Nodes, active : SUBSET Nodes,
           state : {"Init", "Go", "Pause"}, goal : Nat, reached : BOOLEAN, acked : BOOLEAN,
           peers : [IF n = Host THEN Nodes \ {Host} ELSE {} ->
                      {"Unknown", "Joining", "Chasing", "Ready", "NotReady", "Remove",
                       "Removed"}],
           linked : SUBSET Nodes, needed : BOOLEAN, dynamic : {NoDynamic} \cup Dynamics,
           inGame : BOOLEAN, chasing : BOOLEAN, asked : BOOLEAN, delayed : BOOLEAN,
           votes : Seq(Votes), pausedForVote : BOOLEAN, cut : SUBSET gone, left : BOOLEAN,
           sync : Seq(Controls), queue : Seq([tick : Nat, ctrl : Seq(Controls)]), late : BOOLEAN,
           log : Seq(Packets \cup Controls), due : {FALSE}, out : [Nodes -> {<<>>}]]
    /\ net \in [Nodes -> [Nodes -> Seq(Messages)]]
    /\ gone = {n \in gone : n \in Crashing \/ node[n].left}
    /\ commands \in 0 .. setting.maxCommands

InGame == {n \in Nodes \ gone : node[n].inGame}

(* All clients execute the same: the complete controls of the ticks and,   *)
(* between them at the same places, the synchronous controls.  A client    *)
(* may be behind another one, but never on a way of its own, unless it is  *)
(* a way nobody can follow it on, when it has disappeared.  What           *)
(* C4ControlSyncCheck reports as "Synchronization loss!" does not happen.  *)
SameLog ==
    \A n, m \in InGame : IsPrefix(node[n].log, node[m].log) \/ IsPrefix(node[m].log, node[n].log)

(* No client gets synchronous control for a tick that it has left behind.  *)
(* C4GameControlNetwork::ExecSyncControl, about that case: "The host       *)
(* should make sure this doesn't happen."                                  *)
NeverLate == \A n \in Nodes : ~node[n].late

(* When the host's network is frozen, all clients stand at the tick of the *)
(* host, and a synchronous control can be executed at once.                *)
(* C4Network2::isFrozen: '"frozen" means all clients are garantueed to be  *)
(* in the same tick.'                                                      *)
FrozenTogether ==
    isFrozen(node[Host]) =>
        \A c \in DOMAIN node[Host].peers \ gone :
            node[Host].peers[c] = "Ready" => node[c].frame = node[Host].frame

(* The host and the clients that have joined.                              *)
Members == {n \in Nodes \ gone : Listed(node[Host], n)}

(* Every status the host announces is acknowledged in the end, whatever    *)
(* happened on the way: the clients reach it, with the same history.       *)
Settles ==
    <>[](\A n \in Members : /\ node[n].log = node[Host].log
                            /\ node[n].acked /\ node[n].state = node[Host].state)

(* Unless it ends in a pause, the game goes on: nobody waits for a client  *)
(* that was deactivated, nor for a target or a stop that is over.          *)
GoesOn == <>[](isRunning(node[Host]) => \A n \in Members : node[n].frame >= MaxFrame)

(* A client that has players is activated in the end, however far it is    *)
(* behind when it asks, and whatever the host is doing.                    *)
Activates == <>[](\A n \in Members \cap setting.playing : n \in node[Host].active /\ node[n].activated)

(* Every vote ends, at everybody, whoever votes or leaves and when: by a   *)
(* majority or the time that is over.                                      *)
VotesEnd == <>[](\A n \in Members : node[n].votes = <<>>)

(* A pause for a vote ends with the votes: the game stands still only when *)
(* that is what was decided last, or the host paused it by itself.         *)
PauseDecisions ==
    SelectSeq(node[Host].log, LAMBDA x :
        "subject" \in DOMAIN x /\ x.approve /\ x.subject.type = "Pause")
Resumes ==
    <>[](\/ isRunning(node[Host]) \/ setting.pausing
         \/ PauseDecisions # <<>> /\ Last(PauseDecisions).subject.data)
=============================================================================
