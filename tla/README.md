# LegacyClonk in TLA+

TLA+ modules about the network of LegacyClonk (`src/src/*.cpp`): how the clients of a
game execute the same control in the same tick although each of them runs the whole
game; how the host makes them stop, go on, and change the set of clients together, and
lets clients join; and what this rests on: reliable packets over UDP, connections that
may break, and files that clients load from each other. TLC checks small instances;
TLAPS proves the safety of the control exchange, of the exchange of resources, of a
connection that is lost and recovered, and of reliable UDP, for every instance.

## The system

A game is executed by every client, frame by frame, from the same input. The program is
a lockstep: what differs between two clients is found later by a checksum
(`C4ControlSyncCheck`, "Synchronization loss!") and ends the game. A frame with
`FrameCounter % ControlRate == 0` begins a *control tick*, for which the *complete
control*, made of one packet of every activated client, is needed. Other control is
not tied to a tick when it is given: *synchronous control* (a client is activated,
deactivated, removed) waits until the host has brought all clients to one tick.

### Inventory

| Component | Source | State | Operations | Hard parts |
|---|---|---|---|---|
| Control exchange | `C4GameControlNetwork` | `pCtrlStack`, `iControlSent`, `iControlReady`, `iTargetTick`, `fRunning`, `pClients`, `SyncControl`, `pSyncCtrlQueue`, `iWaitStart`, `iNextControlReqeust` | `DoInput`, `CtrlReady`, `GetControl`, `HandleControl`, `HandleControlReq`, `CheckCompleteCtrl`, `PackCompleteCtrl`, `SetRunning`, `SetActivated`, `ExecSyncControl`, `HandleControlPkt` | two threads on one stack; order and loss of packets; a bounded backlog; recovery by request |
| Game control | `C4GameControl`, `C4Game::Execute` | `ControlTick`, `FrameCounter`, `ControlRate`, `HaltCount` | `Prepare`, `Execute`, `Ticks`, `CtrlTickReached` | a frame is repeated until its control is there |
| Status protocol | `C4Network2`, `C4Network2ClientList` | `Status`, `fStatusReached`, `fStatusAck`, `NCS_*` of every client | `ChangeGameStatus`, `HandleStatus`, `HandleStatusAck`, `CheckStatusReached`, `CheckStatusAck`, `Sync`, `Pause`, `Start`, `OnClientDisconnect` | clients in different ticks; new rounds on top of old ones; a client that disappears |
| Runtime join | `C4Network2` | `ResDynamic`, `iDynamicTick`, `fDynamicNeeded`, `fChasing`, `fDelayedActivateReq`, `iLastActivateRequest` | `Join`, `OnClientConnect`, `SendJoinData`, `CreateDynamic`, `HandleJoinData`, `UpdateChaseTarget`, `RequestActivate`, `HandleActivateReq` | the game goes on while a client loads and catches up |
| Clients | `C4Client`, `C4ControlClientUpdate`, `C4ControlClientRemove` | activated clients | activation, removal | executed as synchronous control, in one tick everywhere |
| Voting | `C4Network2`, `C4ControlVote`, `C4ControlVoteEnd` | `Votes`, `fPausedForVote`, `iVoteStartTime` | `Vote`, `AddVote`, `EndVote`, `C4Game::Pause`, `Unpause`, `C4VoteDialog` | votes are executed where they arrive, their end in one tick everywhere; the game is paused meanwhile; voters leave, votes time out |
| Connections | `C4Network2IO`, `C4Network2IOConnection` | `Status`, `fAutoAccept`, packet counters, `pPacketLog`, `pMsgConn` | accept, `Send`, ping, `CheckTimeout`, `OnDisconn`, `CreatePostMortem`, `PID_PostMortem` | two threads set one status; resending over another connection |
| Reliable UDP | `C4NetIOUDP` | packet counters, fragments, packets not acknowledged | `Connect`, `Send`, `OnRecv`, `Check`, `OnTimeout` | loss, duplicates, order, restarts |
| Resources | `C4Network2Res` | chunk ranges, loads, what others have | discover, status, request, load, remove | several sources, timeouts, failing files |
| Players | `C4Network2Players`, `C4PlayerInfo` | player infos | request, join | ids given by the host |
| Threads | `C4InteractiveThread`, `StdScheduler` | event queue | `PushEvent`, `ProcessEvents` | what is read in one thread and used in the other |
| Records | `C4Record` | log of controls | record, replay | |
| Everything else | script engine, landscape, objects, GUI, groups, league, IRC | | | not part of the network protocol |

How they interact: `C4Game::Execute` calls `C4Network2::Execute` (status), then
`C4GameControl::Prepare` (send and complete control), and when that says the control is
there and the game is not halted, executes it and counts the tick. The network thread
hands `PID_Control` and `PID_ControlReq` to `C4GameControlNetwork` directly
(`C4Packet2.cpp`), and everything about resources to `C4Network2ResList`; the rest is
queued for the main thread. `C4Network2` sets the target tick and starts and stops the
exchange; the exchange calls `C4Network2::Sync` when the host has synchronous control,
and `C4Network2` calls `ExecSyncControl` when all clients have acknowledged. All packets
go over a `C4Network2IOConnection`, and that uses TCP or `C4NetIOUDP`.

What makes them correct: all clients execute the same control for a tick, every tick
once, and each client's input in the tick it was sent for; nobody goes past a target;
synchronous control is executed at the same place by everybody, also by a client that
joins in the middle; what is lost can be asked for; packets are handed over once and in
order, whatever happens below; and nobody waits for ever.

## The modules

| Module | Models |
|---|---|
| `Lockstep` | what the exchange promises: controls are decided one after the other, and every client executes the decided ones in order |
| `GameControlNetwork` | the control exchange with its two threads, in decentral, central and asynchronous mode |
| `GameControlNetwork_proofs` | theorems about it: types, agreement, order, faithfulness; targets, resources of joins, refinement of `Lockstep`; the backlog, and that the host can answer requests |
| `GameNetwork` | the status protocol with synchronous control on top of the exchange; clients that join, are deactivated, activated, removed, voted out, and disappear |
| `NetIOUDP` | reliable UDP between two computers |
| `NetIOUDP_proofs` | theorems about it: types, and that no packet is left out |
| `NetIOUDP_connections` | further theorems: packets of one connection, in order; why a connection is closed for "starvation" |
| `NetworkIOConnection` | a connection between two clients, its packet log and post mortem, with two threads on each side |
| `NetworkIOConnection_proofs` | theorems about it: types, and what a log and the connection carry |
| `NetworkIOConnection_recovery` | further theorems: what a post mortem recovers, and that nothing is sent after it |
| `NetworkIOConnection_order` | further theorems: the order in which messages are handled |
| `NetworkResChunkData` | the ranges of chunks of a resource, as an algorithm |
| `NetworkResChunkData_proofs` | lemmas about it: what each operation does with the set of chunks that the ranges stand for |
| `NetworkRes` | how clients load a resource from each other |
| `NetworkRes_proofs` | theorems about it: limits, ranges, no chunk twice, and that what is present is right |
| `MCGameControlNetwork`, `MCGameNetwork`, `MCNetIOUDP`, `MCNetworkIOConnection`, `MCNetworkRes` | values of constants for TLC |

They build on each other by what they promise: `NetIOUDP` hands over what was sent, in
order and once; `NetworkIOConnection` takes such a channel (and loses it) and hands
messages to the two threads, those of one kind in order; `GameNetwork` and
`GameControlNetwork` take that for granted between clients, the latter even less.
`NetworkRes` is where the saved game and the players' files come from that
`HandleJoinData` and `OnResComplete` wait for.

An operator with a word after an underscore (`AllThere_Any`) is its namesake with a
plausible bug. It belongs to no specification; put in place of the original it shows
that a property notices the bug.

### GameControlNetwork

The variables are the fields of the class, one function over the clients for each:
`sent` (`iControlSent`), `ready` (`iControlReady`), `stack` (`pCtrlStack`), `preSend`
(`iControlPreSend`), `running` (`fRunning`), `waiting` (`iWaitStart` is set), with
`frame` and `ctrlTick` of the game. `msgs` are the packets on their way, in any order:
the control of a client for a tick, a complete control, a request. `input`, `packed` and
`log` are history: what every client put in, what anybody packed, what every client
executed. `loaded` says which player joins find their resource at a client.

An action is what a thread does in one go: `DoInput`, `CtrlReady` and `ExecuteFrame` are
the stages of `C4Game::Execute`, between which the network thread may run;
`HandleControl`, `HandleControlReq` and `OnResComplete` are its handlers. Each of them
ends, as in the code, in `CheckCompleteCtrl`, which takes `ready` to the last tick that
is complete or can be packed (the loop of the code, said as the tick where it stops) and
may ask for what is missing. The search in `HandleControl` and the following `AddCtrl`
are two critical sections, so that a control may be handled as new although the main
thread has just added it.

The time is left out: `iControlPreSend` becomes any of `PreSends` where `CalcPerformance`
sets it, and the waiting time of an asynchronous host and the interval between requests
may be over at any moment, or, unless `Impatient`, the latter only when all packets have
arrived.

### GameNetwork

The state of a client is one record, since a handler of this protocol calls through
three classes: `HandleStatus` calls `CheckStatusReached`, that calls `CtrlReady`,
`OnStatusReached` and `SetRunning`, which calls `CheckCompleteCtrl`. Each function of the
code is an operator from record to record under the name of the function, what it sends
collects in `out`, and an action applies one handler to the state of one client
(`GameExecute` is `C4Game::Execute` as a whole). `log` is what the client executed,
complete controls and synchronous controls in their order. Packets between two clients
stay in order, but those for the network thread overtake those for the main thread.
The epoch in a client's control tells apart what it sent before and after an activation.

A joining client first is in the host's list (`Join`), then connected (`Connect`), and
asks for the game: the host sends what it has saved, if that is still of use, or first
synchronises and saves (`SendJoinData`, `OnGameSynchronized`; the saved game is the log
up to there). The client takes over the status and the list of activated clients, asks
for the control since then (`HandleJoinData`), loads the game (`LoadGame`), runs after the
others, told from time to time how far they are (`UpdateChaseTarget`), and when it
acknowledges a status it is a client like the others. If it has players it asks to be
activated (`RequestActivate`), at once, or, when its status is not reached, later
(`DelayedRequest`), and again as long as nothing comes of it (`AskForActivation`).

A vote (`StartVote`, `AnswerVote`) is direct control: it is sent to everybody and executed
where it arrives (`ExecVote`). The host pauses the game with the first one and counts
(`CountVotes`); the end of the vote is synchronous control, and with the last one the game
goes on unless it was decided to pause it (`EndVote`). `voters` are the clients that have a
player, one each and without teams. That the decision may start the game and remove a
client means that a control changes the status while it is executed, in the middle of an
acknowledgement; hence `ExecControlPacket` is recursive. A client that was voted out or
removed leaves (`left`), and the host takes no more packets of it.

The host gets commands: `Pause`, `Start` and `SyncInput`. What happens in a game is a
`Setting`. Unless a setting is `hasty`, a command comes only when the last status is
acknowledged and no packet of the status protocol is on its way, the seconds between two
requests are long enough for the answer, and users answer a vote when the game is paused for
it. The seconds between two chase targets are long enough for one to arrive and for the host
to come to another tick (`MayChase`), but a target is sent while answers to older ones are
on their way, while the game is loaded, and when it runs after the others. The ten seconds
of a vote are always enough for everything but votes to arrive, so that they may end while
an answer is on its way (`MayTimeOut`). A join is not a command and comes at any time.

Left out: the lobby, the change of the control mode, asynchronous mode, votes to cancel
the round, joins during a vote, the two minutes between two votes of a client (the bound
on commands stands for them), the backlog (no stack gets old enough), the failure to save
the game, and other synchronous control while a client joins (see the hazards).

### NetIOUDP

`peer[s]` is the `C4NetIOUDP::Peer` of side `s`: `o` (`iOPacketCounter`), `opackets`
(`OPackets`), `i` (`iIPacketCounter`), `r` (`iRIPacketCounter`), `ipackets` (the
fragments in `IPackets`), `timer` and `asked` (`iNextReCheck`, `iLastPacketAsked`),
`retries`. `got` and `first` are history. A fragment carries the life of its sender
instead of data, so that a packet put together from two connections shows. The actions
are the entries of the class: `Receive` (`Execute` and `OnPacket`), `Connect`, `CloseAddr`
(`Close` of an address, which the application does where it may also refuse), `Send`,
`DoCheck`, `OnTimeout`, with `ReCheckDue` for the clock, and the network: `Lose`,
`Duplicate`, `Overtake`, and `Restart` of a program. A side that closes has no peer any
more: `Closed` peers are deleted before they could do anything. A packet is sent only over
a connection that works: the application hears of one when it does (`OnConn`), and a
broadcast goes to open peers only.

The list of sent packets holds `Backlog` of them; what it drops unacknowledged lies below
`thrown`. A side that is asked for a fragment it does not have closes the connection
("starvation"), and `starved` says why: for what was thrown away, or for what was cleared
as acknowledged.

### NetworkIOConnection

`conn[s]` is the `C4Network2IOConnection`, `wire[s]` what is on its way over it,
`other[s]` what goes over the connection that the two clients have besides, `events[s]`
the queue of `C4InteractiveThread`. An action is one handler of one thread. Two handlers
are cut where the other thread may come in between with an effect: `HandleConn`
and `HandleConnRe` of the main thread look at the status and set it afterwards, and
`PID_PostMortem` is handled packet by packet (`ReceivePostMortem`, `RecoverPacket`) before
the connection is removed. `sent`,
`handled` and `recovered` are history. The early return of `Send` after a post mortem is
left out, and `NoneAfterPostMortem` says that it is never taken, as the assertion before
it does.

### NetworkRes and NetworkResChunkData

`res[n]` is the `C4Network2Res` of client `n`: `loading`, `removed`, `chunks` (`Chunks`),
`dirty`, `discovering`, `loads` (`pLoads`), `clients` (`pCChunks`). `file[n]` are the
chunks that are right in the file itself. Chunk data are sets here; `NetworkResChunkData`
has the ranges and the merging of the code, as functions, and `RangesRight` compares the
two for every set of chunks that a client comes to have. Discovery is one exchange of
question and answer, status and chunks are packets; the timers do what they do at any
moment, except that a timeout is over only when nothing can come any more, or as a
"Stall", which is a fault like a client that leaves or a file that cannot be written. The
host may remove the dynamic data at any moment (`RemoveDynamic`); as other clients do with
what they remove, it keeps the file until nobody has asked for it for some time, and a
client that was told of it asks before that (`Unasked`).

## What is checked

Every passing run names its properties in the `.cfg`; for each property there is a
mutant of the code that breaks it in that run (`PROJECT.json`).

| Run | Instance | Shows |
|---|---|---|
| `decentral` | decentral, 2 clients, backlog 2, a request of `Init`, target tick 3, 4 frames | `Agreement`, `NoTickSkipped`, `BacklogSuffices`, `AllReachTarget`, refinement of `Lockstep` |
| `recovery` | decentral, 3 clients, one deactivated, losses between the two that are not the host | `TypeOK`, `HostCanAnswer` |
| `central` | central, 2 clients, 2 inputs, one of them a join, target tick 2, 1 frame, requests while the control is on its way | `FaithfulControl`, `ResourcesPresent`, `NeverStalls` |
| `async` | asynchronous, 2 clients, PreSend 1 or 2, backlog 3, 3 frames | `HostNeverStalls`, refinement of `Lockstep` |
| `status` | 2 clients: decentral with 3 commands and 4 frames; or one joins, in both modes, with and without disappearing; or up to 2 votes, on the removal of one, which may disappear, or on a pause, which either or both decide | `TypeOK`, `SameLog`, `NeverLate`, `FrozenTogether`, `Settles`, `GoesOn`, `Activates`, `VotesEnd`, `Resumes` |
| `removal` | 3 clients: decentral, one disappears; or central, 2 frames per tick, 2 commands | `SameLog`, `NeverLate`, `FrozenTogether` |
| `udp` | 2 computers, one sends packets of 1 and 2 fragments and keeps 2 packets, four networks | `TypeOK`, `InOrder`, `NeverStarves`, `Establishes`, `CatchesUp` |
| `connection` | 2 clients, up to 3 messages, for either thread, single and broadcast; who know each other or not | `TypeOK`, `InOrder`, `Recovers`, `Delivers`, `Settles`, `NoneAfterPostMortem` |
| `resources` | 2 or 3 clients, 1 to 4 chunks, six games with up to 2 faults | `TypeOK`, `RangesRight`, `LoadedOnce`, `Intact`, `Loads` |

The bounds. A client sends its control PreSend frames ahead, so with two frames more than
that it has sent, executed and left behind controls that another one still waits for; in
`decentral` the backlog is the smallest that the code allows and is cut while the other
client is two ticks behind. Two inputs are enough to tell a wrong control from the right
one, and `FaithfulControl` is checked with two, in `central`: there is a target, as only
then a missing control is asked for, and the interval between requests may end at any
moment, so that a control comes twice and late, alone and as part of a complete one; while
tick 0 is executed, inputs for tick 1 are on their way. The other runs compare what clients
execute with each other, and one input is enough to see who takes part. That in an
asynchronous game, too, the inputs are the right ones and nobody goes past the target
(`StopsAtTarget`) is left to the proofs. Three clients matter where one of
them knows more than another about a third: for recovery and for a crash. In `removal` one
frame is enough for the crash: the client that disappears can be needed for tick 0 by the
host while another client, which has all controls, is already past it and makes the host
move the target. In `status` the commands and joins come in the host's first frames, so
that the status they lead to is reached before the last frame; otherwise the liveness
properties would fail for want of frames. For the same reason a game with joins or votes
may run past its last frame, only to reach a status or another client (`CanExecute`).

With two votes in `status` two on one subject can be on their way at once, one started by
each client, or one after the end of the other.

In `udp` one side sends three fragments, as two packets or three: there is a fragment
before and one after another one of two, a packet of two comes first or last. `MaxAsk` is
1, so that a check must ask twice for two fragments. `Backlog` is 2, so that the list of
sent packets runs over when all are of one fragment, and connections are closed for it; the
other side sends only what the protocol itself does, since two that send are too large. The
networks are: one that loses two datagrams, with a second connection
after the first; one that loses, doubles or reorders one; one that is perfect while a
program restarts and connects again; and a slow one where the application refuses. A
double and a loss together, and a reordering together with a restart, are too large or
run into what the protocol does not promise, see below. In `connection` a message is sent
before, over and after the connection; a third one shows what is left out in the middle.
In `resources` four chunks make two ranges with a gap. `MaxLoad` of 3 allows two loads, one
for each peer; with two peers both limits are reached together, and only the proof of
`TypeOK` takes them apart.

`GameExecute` may leave everything as it is (the client polls), so `GameNetwork` never
deadlocks; in `GameControlNetwork` every client may only stop at the bound (`Stop`), and
TLC looks for any other deadlock. The other three really stop: when everything is sent,
received or loaded and the counts of the bounds are used up, hence `CHECK_DEADLOCK FALSE`;
that nobody stops too early is what their liveness properties say.

### Where the code does not do what it says

Three runs end in a violation; `PROJECT.json` has the lines.

* `reactivated`: a client that is deactivated and activated again within the ticks it
  has already sent control for sends a second control for one of them. The others keep
  the first one, the client itself executes the second (`SameLog`, decentral mode; in
  central mode, `removal`, the host's copy decides).
* `frozen`: the host pauses while a client joins. The host stops when there is no more
  control for the tick, the chasing client at the target itself, and the host counts its
  acknowledgement: the pause is acknowledged with the two in different ticks
  (`FrozenTogether`; the comment in `isFrozen`).
* `rerouted`: a packet that was sent over a connection when it was already closed is to
  be rerouted by the post mortem. But when the receiver has closed the connection, too,
  what the post mortem brings is dropped (`Reroutes`; `Recovers` is what holds).

More counterexamples have a configuration but are not among the runs; `tlc -config
MCX.cfg M` shows them:

* `MCAsyncLate.cfg` of `MCGameControlNetwork`: "async mode: wait n extra frames for slow
  clients" (`C4GameControlNetwork.cpp:753`). The host waits for the current tick; further
  ticks are packed without the slow clients, and without a wait, in the same call
  (`LateOnlyForCurrentTick`).
* `MCStaleAck.cfg` of `MCGameNetwork`: an acknowledgement names a state and a tick, so
  that one of an earlier round can count for a new one when commands follow each other
  quickly. The host then executes synchronous control while a client has left the tick
  (`NeverLate`; "The host should make sure this doesn't happen").
* `MCRepeatedTarget.cfg` of `MCGameNetwork`: the same for a joining client. A host that
  stands still for the five seconds between two chase targets sends one tick twice; the
  client answers both, and the second answer counts as the acknowledgement of the status
  for its own activation, which the host executes in a tick that the client has not
  reached (`SameLog`).
* `MCVoted.cfg` of `MCGameNetwork`: when the votes of two players of three are in before
  the pause for the vote is acknowledged, the end of the vote is executed inside
  `CheckStatusAck` (`C4Network2.cpp:2044`). It starts the game again, and the
  acknowledgement that follows is one of this new status, which nobody has reached; the
  host starts, and with it whoever gets the acknowledgement. The removal that was decided
  then comes for a tick that a client has left, which does not execute it (`NeverLate`, the
  same comment).
* `MCOvertaken.cfg` of `MCGameNetwork`: in decentral mode with three clients the host may
  have all controls of the target tick when others lack one. It executes the tick, they
  stop before it, and the pause is acknowledged (`FrozenTogether`).
* `MCStaysClosed.cfg` of `MCNetworkIOConnection`: "Connection can't return from these"
  (`C4Network2IO.cpp:1320`, an assertion). The network thread closes a connection between
  the check and the acceptance in `HandleConnRe`, and it is accepted again; in a build
  without assertions messages then go over it until it is forgotten.
* `MCAbandoned.cfg` of `MCNetworkRes`: when the source leaves while two clients load, each
  of them takes every status of the other as "discovered a source: reset timeout"
  (`C4Network2Res.cpp:888`), though neither has what is missing, and neither ever gives
  up (`GivesUp`); a game that waits for the resource waits for ever.
* `MCRelisted.cfg` of `MCNetworkRes`: `SendChunk` (`C4Network2Res.cpp:848`) does not look
  whether the chunk is there. When packets are late beyond all timeouts, a client that has
  dropped the resource and looks for it again answers a request of before with what its
  new file holds, and the receiver counts the chunk as present (`StaysIntact`).

So the properties of the passing runs hold under conditions: commands that wait for each
other; chase targets of different ticks; votes among two clients, answered when the game is
paused; in decentral mode no activation after a deactivation; for `FrozenTogether` no pause
while a client joins, and two clients or central mode; for `Recovers` a connection that the
receiver has not closed; for `Loads` a source that stays, or nobody else who looks for the
resource; for `LoadedOnce` and `Intact` a source that stays and no timeout before its time,
for `Intact` also files that can be read. `NeverStarves` is about networks that only lose
datagrams, and about the first connection that is closed for starvation: the sides hear of
the end of a connection at different times, and one may take the old one for the next;
`Establishes` and `CatchesUp` end with it, too (`GivenUp`). `InOrder` of `NetIOUDP` does not
hold of a network that keeps datagrams of an old connection until the next one has begun:
nothing in a datagram says which one it belongs to (`C4NetIO.cpp:3331`), so no network here
does both.

### Fairness

`FairSpec` of `GameControlNetwork` asks that each client's main thread goes on with
`C4Game::Execute`, which the application calls in a loop, and that its network thread
takes packets as long as there are any; since a connection keeps their order, neither a
control that is new nor a request waits for ever while others come. The stages of `Execute`
are weakly fair together, `CtrlReady` by itself because it may have a recovery to do.
Nothing asks that a packet is lost or that the waiting time is over; `HostFairSpec` has only
the host's main thread.

`FairSpec` of `GameNetwork` is the same for `GameExecute` and `HandlePacket`, with the
host noticing that a connection is closed, accepting a connection, and its timers, that of
the votes among them, all weakly fair. `LoadGame` is strongly fair: loading is a loop of
the client's own
(`RetrieveScenario`) which a chase target that arrives meanwhile does not stop. Commands,
joins and crashes are never forced.

`FairSpec` of `NetIOUDP` is weak fairness of `Receive`, `DoCheck`, `ReCheckDue` and
`OnTimeout`: the network thread executes the class again and again (`C4NetIOUDP::Execute`
does the timers before it waits for packets). A network that loses a bounded number is
fair by its bound. `FairSpec` of `NetworkIOConnection` is weak fairness of each thread as
a whole, and of the timeout of a connection that is lost. `FairSpec` of `NetworkRes` is
weak fairness of the handlers and the timers of each client.

## What is proved

### The control exchange

For all values of the constants that satisfy the assumptions of `GameControlNetwork` (any
number of clients, any mode, rate and backlog, losses and early requests included):

* `TypeCorrect`: `TypeOK`.
* `NoTickSkippedHolds`: every client executes every tick, once and in order, and the
  control of the tick is always there when it is due.
* `AgreementHolds`: all clients execute the same control for a tick.
* `FaithfulControlHolds`: it is what the clients put in for that tick.
* `ImplementsLockstepHolds`: the exchange implements `Lockstep`, step by step.
* `StopsAtTargetHolds`: nobody executes the target tick or packs a control for it.
* `ResourcesPresentHolds`: a player join is executed only where its resource is complete.
* `BacklogSufficesHolds`: nobody throws away a control that an activated client may still
  ask for.
* `HostCanAnswerHolds`: the host has or gets every control that a client misses which it
  waits for.

None of these is inductive. The invariant of the first four (`Inv`) adds what they rest
on. Every packet, in a stack or on its way, is genuine: a client's packet is what that
client has on record for the tick, a complete control is one that was packed
(`StacksGenuine`, `MessagesGenuine`). What was packed holds the parts of all activated
clients, or, in asynchronous mode, of the host at least (`PackedFaithful`), so two
complete controls for one tick are equal: in decentral and central mode because their
parts are; in asynchronous mode because only the host packs, and it has what it packed in
its stack or is past it (`PackedByHost`, `PackedUnique`). A client has the complete
control of every tick from the current one to the last ready one, since `ClearCtrl` keeps
more than that (`ReadyThere`), and a tick under way is ready (`TickReady`).
`CheckPreserves` shows once that `CheckCompleteCtrl` keeps all this, and the actions use
it.

`DecidedInv` is about what has been decided, that is packed by anybody: the ticks that are
packed have no gap, none reaches the target, and what a client calls ready is packed and
its joins find their resource there. A step that packs several ticks in one
`CheckCompleteCtrl` decides several controls of `Lockstep` at once, in their order; that
they continue the sequence is the absence of gaps, and that they change nothing that was
decided is `PackedUnique`.

`BacklogInv` relates the clocks of the clients. A client sends its control no further
ahead than its PreSend allows and no further than the tick it can complete (`SentBound`,
with the arithmetic of the control rate in a lemma of its own), so that the clients that
wait for each other are apart by less than the backlog. What a client has sent the host
has, or gets, or needs no more (`HostHas`). An asynchronous host does not wait for slow
clients, so that both properties leave it out.

The assumptions used are those of the module: `Rate > 0`, that the host is activated, and
that the backlog exceeds what a client may send ahead.

### Resources

For all values of the constants that satisfy the assumptions of `NetworkRes` (any number
of clients and chunks, any limits, all faults):

* `ResourceTypeCorrect`: `TypeOK`. What is loaded is missing, loaded once, asked of a
  client that said what it has, and within the limits; a resource is being loaded as long
  as it is listed and not complete.
* `RangesRightHolds`: `RangesRight`. The operations on the ranges of a client do what those
  on sets do, for any number of chunks and whatever they have grown together from.
* `LoadedOnceHolds`: as long as the source is there and no timeout is over too early, what
  is on its way is waited for, by one load, and each chunk is loaded from a client that
  has it.
* `IntactHolds`: then, and as long as files can be read, what is present is right.

`Inv` says of every client and packet alone what they may be. It is kept by all faults;
most of the proof is that the loads which `StartNewLoads` starts, in any order of the
clients, leave the limits and the distinctness of the loads as they are.

`RangesRight` needs of the clients only that their chunks are chunks; the rest is
sequential, and is proved in `NetworkResChunkData_proofs`. Chunk data describe a set
(`Describes`) if their ranges are in order with a gap after each, cover the set, and the
count is its size. There is one way to describe a set (`SameData`), so it is enough that
each operation returns chunk data that describe the right set. While `AddChunkRange` merges,
the ranges before the one that grows and those after it are in order, but that one may
reach over several of them (`Merging`); a call of `MergeRanges` takes in one
(`MergeStep`), so there are enough repetitions for all (`MergeAllResult`). `Merge`,
`GetNegative` and the loads of `GetChunkToRetrieve` add one range after the other
(`MergeResult`, `GetNegativeResult`, `AddChunksResult`), and `getPresentChunk` finds the
chunk with a number since the lengths of the ranges before it are the number of chunks below
(`PresentChunks`). These are inductions over the length of a sequence or the size of a
set. The induction theorem of the library is out of the prover's reach, as its hypothesis
is an operator; what is used instead is that a set of numbers which is not empty has a least
element (`LeastNumber`, from the well-foundedness of "less than"), taken of the numbers
that are not in a set (`Induction`). A fold is a function that is chosen by its recursive
equation, so for each fold there is a lemma that such a function exists, and one that names
its values step by step (`FoldExists`, `MergeSteps`, `GetNegativeSteps`, `LengthSteps`).

`CalmInv` is about clients and packets together, as long as the source is there and
nothing stalls. A packet belongs to a load of its owner (`Wanted`), and there is only one
for a load (`Unique`). What a client has heard or is about to hear of another one is still
there (`Known`, `Heard`), because chunks are only added: nobody drops a resource it loads,
as the source can always be asked, and nobody drops one it has while it may be asked for
it. The source drops the dynamic data only when nobody needs them any more: a client that
has removed a resource does not take it up again (`Retired`), and once the source has
dropped it nobody loads it or has yet to hear of it (`Gone`). This is where the proof needs
the condition, and where the counterexample to `StaysIntact` begins. A load whose packet is
on its way is not given up, since its timeout waits for the packet to be lost. `RightInv`
adds that chunks on their way and in the files are right.

### Connections

For all values of the constants that satisfy the assumptions of `NetworkIOConnection` (any
messages, any number of them, sides that trust each other or not):

* `ConnectionTypeCorrect`: `TypeOK`. A log is as long as its counters say and begins no
  later than what the other side counts next; nobody has counted more than was sent; and
  every message in a log, on its way, queued or handled was sent by the other side.
* `RecoversHolds`: a post mortem that comes to an accepted connection leaves no message to
  the network thread unhandled.
* `InOrderHolds`: no message is handled twice, and those for one thread in the order they
  were sent, except that one over this connection may overtake an older one that went over
  the other connection before the change.
* `NoneAfterPostMortemHolds`: after its post mortem a side sends nothing over the
  connection. This is the `PostMortems` of the invariant of the second one: when the post
  mortem is made, nothing that could make the connection the one for messages again is left
  in the queue of the main thread.

`Carried` is the invariant of the first. `Genuine` follows each message through the log,
the connection, the other connection with its post mortems, and the queue of the main
thread. `Logs` says that a log has the numbers from `LogStart` on without a gap. `Wires`
is what makes counting work: what is on its way over the connection is, number for number,
what the sender has logged from the receiver's next number on, all of it while both sides
have the connection, a first part of it when one of them has lost it; and no ping there
names a packet that is not counted, so that `ClearPacketLog` never takes too much. `Lives`
says that the loss of a connection is told once, and after everything else.

`Recoverable` adds what the post mortem needs. A message that is lost must still be in the
log, numbered from where the receiver stopped counting (`Kept`). That would fail if a
packet were counted but not handled because the receiver has not accepted the connection
yet: so `PID_Conn` is the first packet and a side that trusts the other one accepts with
it (`Firsts`), and the answer that makes it accept for good comes before any message
(`Answers`). The log must not grow after the post mortem was made from it: when the main
thread hears of the loss, nothing that could make the connection the one for messages
again is left in its queue (`PostMortems`). While the packets of a post mortem are handled
one by one, each packet of the log is handled or still to come (`Brought`).

`Orderly` adds the order (`Orders`). What was received, handled or waiting in the queue of
the main thread, is in order (`Ordered`). What still comes over the connection, or is left
of a post mortem that is being handled, is younger than all of it, and so is what the
other connection still brings than what it has brought (`Behind`, `InTurn`). This is not
inductive without a claim about the way back to the other connection: a message that goes
over it after the loss must not be handled before those that the post mortem brings. A
sender changes back only when it hears of the loss, and then its post mortem, if the log
holds anything, is the first thing it sends; so, while the receiver still has the
connection, a message over the other connection that is younger than one of this
connection that was not received comes behind the post mortem there (`Rerouted`).
TLC has found `Orders` true of the instance of `connection`; the theorem needs no bound on
the messages.

### Reliable UDP

For all values of the constants that satisfy the assumptions of `NetIOUDP` (packets of any
size, any limits, and any network: also one that loses, doubles, delays and reorders
datagrams while programs restart and connect again, which the instance of `udp` does not
combine):

* `UdpTypeCorrect`: `TypeOK`.
* `NoneLeftOutHolds`: `NoneLeftOut`, the first part of `InOrder`. What a side hands over
  begins with the number that the other side told, and every packet begins where the one
  before it ended.

`Sound` is the inductive invariant; it says of each side that its peer is `Good`, and no
more of the datagrams under way than their form, so nothing depends on what the network
does with them. A good peer keeps fragments that fit together: each with a number of its
own inside its packet, packets that are equal or do not overlap, all above `i` (`Fits`).
That is what `AddFragment` and `PacketList::AddPacket` check before they take a fragment,
and the proof needs all of it. `HandedOver` says that the packets handed over follow each
other from `first` on and reach exactly to `i`. When fragments are complete up to the end of
a packet they are a row (`Row`): every number from `i` on has one fragment, the packets
begin where the last one ended, and there are as many fragments as numbers (`RowInOrder`,
`RowLength`), so `i` moves to the end of the last one. These lemmas speak of the numbers of
a finite set in order, which `Sorted` defines by the count of smaller numbers; so they
follow from the theorems about cardinality, without an induction. `Own`, `Waits` and `Rests`
say what is kept for a resend, that nothing is handed over before a connection works, and
what is left of a peer that is closed.

TLC has found `Sound` and `NoneLeftOut` true of eight million states of an instance of two
networks, the lossy one and one with restarts, delays, losses and duplicates together,
where the second part of `InOrder` fails.

Two theorems have a condition, which the instance of `udp` satisfies
(`ConditionsAssumption`; TLC evaluates it). It is about the constants only:

* `InOrderHolds`: `InOrder`, if no network mixes connections (`NeverMixes`); where losses
  and further connections come together, until a connection is closed for starvation
  (`GivenUp`).
* `NeverStarvesHolds`: `NeverStarves`, if the networks that only lose datagrams lose no
  more than there are tries to connect (`Patient`). There is no bound on the list of sent
  packets or on what is sent: the list may run over, and then the connection may be closed
  for starvation; for another reason it is not.

The conditions come from the protocol. Nothing in a datagram says to which connection it
belongs, so a network that keeps one of an old connection until the next one has begun
mixes them. And a side that runs out of tries closes a connection while the other one may
still work. A list of sent packets that runs over throws away what was never acknowledged,
and when that is lost and asked for, the connection is closed. Only one side knows this at
first; so where it may connect again, its Conn meets the old peer of the other side, which
takes the new connection for the old one, and neither property says anything from there on.
Within the conditions there is no bound on packets, their sizes, faults and restarts.

`Connected` is the invariant of both. `NeverMixes` lists three kinds of network, and each
has its own reason. In all of them what a side has received, and what is under way to it,
is of a life that the other side has had, and what it keeps for a resend of its own present
life (`Tagged`); where nobody may connect again there is only one life (`Once`). Where
nothing is lost, doubled or overtaken, datagrams form one queue, and the lives in it are
parted (`Trail`): between the data of two lives, from what the receiver holds to what the
sender says next, there is the Conn of a new peer, with the number 0; and when that
arrives, the receiver forgets what it has, unless that is the number it expects, and then
it has received nothing yet.

Where datagrams are only lost, no connection ends until one is closed for what its list has
thrown away (`Steady`, which `Connected` has as an alternative to that). `Linked` is what two sides
know of each other. A number that one has received up to, or says in a Check, lies between
two packets of the other (`Between`), which still has all fragments from it on but those
it has thrown away (`KeptFrom`). The Checks under way acknowledge more and more
(`Precedes`), so that clearing the list for one of them leaves what the later ones ask for
(`ClearedKeeps`, `LinkedClears`), and a Check that cannot be answered in full asks for what
was thrown away. A Conn under way finds that
nothing was received, since a Conn comes before all data (`LinkedGreets`). `Waiting` counts
the tries: a side that is not connected has lost a datagram for each but the last one, and
for that one, too, unless its Conn or an answer is still on its way; so nobody runs out of
tries in a network that loses no more than there are. TLC has found `Tagged`, `Trail` and
`Steady`, said over the values of an instance, true of instances with more faults than
that of `udp`.

### Only model-checked

The invariants of `GameNetwork`, whose handlers execute a list of control packets by a
recursive operator, of which the prover cannot speak; and all liveness (the prover does not
do fairness).

## What is not modelled

* Of the modelled components: private control, and of direct control all but votes
  (executed where it arrives, with no claim of order), sync checks, the change to local
  mode and of the control mode, the lobby and the start of the game; votes to cancel the
  round and teams, streaming and the league; forwarding, passwords, the puncher and
  simultaneous connections; multicast, which the game never turns on; derived resources,
  binary compatibility and the search for local files.
* Player infos: lists the host keeps and hands out; only the request for activation that
  comes with a join is here.
* League, IRC, references, GUI: their state is not shared with the protocol.
* The script engine, landscape, objects, rendering, groups, records: sequential programs
  with large data. They are most of the source, and a frame of them is one step here; so
  the modules cover a small part of the lines of the program, and the core of its network
  protocol.

## Plan

1. Proofs: `TypeOK` and `NeverLate` of `GameNetwork`, with `ExecControlPacket` said without
   recursion.
2. Models: the lobby and the change of the control mode in `GameNetwork`, two
   clients that join at once, votes while a client joins.

Runs stay at two or three clients and three to five frames.
