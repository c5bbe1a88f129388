----------------------------- MODULE NetworkRes ------------------------------
(***************************************************************************)
(* The exchange of a resource, a file that every client of a game needs    *)
(* (C4Network2Res, C4Network2ResList, run by the network thread).          *)
(*                                                                         *)
(* The resource is cut into chunks.  A client that loads it asks all       *)
(* others once a second who has it (PID_NetResDis), is told which chunks   *)
(* they have (PID_NetResStat), requests chunks from several of them at a   *)
(* time (PID_NetResReq, PID_NetResData), and tells them what it has got,   *)
(* so that clients which are still loading serve each other.               *)
(*                                                                         *)
(* Time is abstract: what the timers do happens at any moment, but a       *)
(* timeout is over only when what was waited for cannot come any more,     *)
(* unless the network stalls (the fault "Stall").  Packets of one kind     *)
(* keep their order between two clients; requests and data go over two     *)
(* connections, and nothing depends on their order.                        *)
(*                                                                         *)
(* A loaded file is what its chunks were filled with: a chunk of the file  *)
(* is right, or it has never been written or was written with something    *)
(* else.                                                                   *)
(***************************************************************************)
EXTENDS NetworkResChunkData

CONSTANTS
    Clients,        \* the clients of the game
    Source,         \* the client that adds the resource by file
    MaxLoad,        \* C4NetResMaxLoad
    MaxLoadPerPeer, \* C4NetResMaxLoadPerPeerPerFile
    Settings        \* the games, see Setting

(* A client leaves; a timeout is over although the answer is on its way;   *)
(* the file of the resource cannot be read, or not written.                *)
Fault == {"SourceLeaves", "OtherLeaves", "Stall", "ReadError", "WriteError"}

(* The clients of the game, the number of chunks, whether the game is done *)
(* with the resource when it has it (the dynamic data of a scenario) or    *)
(* keeps it, what may go wrong and a bound on how often.                   *)
Setting ==
    [clients : SUBSET Clients, chunks : Nat \ {0}, dynamic : BOOLEAN,
     faults : SUBSET Fault, often : Nat]

ASSUME ClientsAssumption == IsFiniteSet(Clients) /\ Source \in Clients
ASSUME LimitsAssumption == {MaxLoad, MaxLoadPerPeer} \subseteq Nat \ {0}
ASSUME SettingsAssumption == Settings \subseteq Setting

VARIABLES
    setting, \* the game, which does not change
    left,   \* how often something may still go wrong
    res,    \* res[n]: the C4Network2Res of n
    file,   \* file[n]: the chunks that are right in the file of n
    online, \* the clients connected to each other
    needed, \* the clients whose game still needs the resource
    status, \* status[m][n]: the chunks n says it has, on their way to m
    net     \* the requests and data on their way

vars == <<setting, left, res, file, online, needed, status, net>>
-----------------------------------------------------------------------------
(* C4Network2Res: in the list, fLoading, fRemoved, Chunks, fDirty, whether *)
(* iDiscoverStartTime is set, pLoads, pCChunks.  Chunk data are the sets   *)
(* of chunks that NetworkResChunkData keeps as ranges, see RangesRight.    *)
NoRes ==
    [listed |-> FALSE, loading |-> FALSE, removed |-> FALSE, chunks |-> {},
     dirty |-> FALSE, discovering |-> FALSE, loads |-> {}, clients |-> <<>>]

Chunks == 0 .. setting.chunks - 1

SetByFile == [NoRes EXCEPT !.listed = TRUE, !.chunks = Chunks]
SetLoad == [NoRes EXCEPT !.listed = TRUE, !.loading = TRUE]

Req(n, m, k) == [type |-> "Req", from |-> n, to |-> m, chunk |-> k]
Data(n, m, k, content) == [type |-> "Data", from |-> n, to |-> m, chunk |-> k, content |-> content]

LoadingChunks(r) == {load.chunk : load \in r.loads}
LoadsAt(r, m) == Cardinality({load \in r.loads : load.client = m})

LoadsToStart_NoPeerLimit(r, m) ==
    IF m \notin online \/ Cardinality(r.loads) + 1 >= MaxLoad
    THEN {}
    ELSE {[chunk |-> k, client |-> m] : k \in r.clients[m] \ (r.chunks \cup LoadingChunks(r))}

LoadsToStart_Again(r, m) ==
    IF m \notin online \/ Cardinality(r.loads) + 1 >= MaxLoad \/ LoadsAt(r, m) >= MaxLoadPerPeer
    THEN {}
    ELSE {[chunk |-> k, client |-> m] : k \in r.clients[m] \ r.chunks}

(* What StartLoad may request from m: nothing when all slots are used,     *)
(* there are enough loads at m or m is not connected.                      *)
LoadsToStart(r, m) ==
    IF m \notin online \/ Cardinality(r.loads) + 1 >= MaxLoad \/ LoadsAt(r, m) >= MaxLoadPerPeer
    THEN {}
    ELSE {[chunk |-> k, client |-> m] :
              k \in r.clients[m] \ (r.chunks \cup LoadingChunks(r))}

(* The outcomes of StartLoad.                                              *)
StartLoad(r, m) ==
    LET starts == LoadsToStart(r, m)
    IN  IF starts = {} THEN {r} ELSE {[r EXCEPT !.loads = @ \cup {load}] : load \in starts}

WithinLimits(r) ==
    Cardinality(r.loads) < MaxLoad /\ \A m \in Clients : LoadsAt(r, m) <= MaxLoadPerPeer

(* The outcomes of StartNewLoads: clients in shuffled order, each loaded   *)
(* from as long as StartLoad starts something.  Such are the loads of      *)
(* different chunks within the limits that leave, for each client, nothing *)
(* to load from it after those from the clients up to it.                  *)
StartNewLoads(r) ==
    LET Started(L) == [r EXCEPT !.loads = @ \cup L]
        able == {m \in DOMAIN r.clients : LoadsToStart(r, m) # {}}
        UpTo(i, order, L) == {load \in L : \E j \in 1 .. i : order[j] = load.client}
    IN  {Started(L) : L \in
            {L \in SUBSET UNION {LoadsToStart(r, m) : m \in able} :
                /\ \A l1, l2 \in L : l1.chunk = l2.chunk => l1 = l2
                /\ WithinLimits(Started(L))
                /\ \E order \in SetToSeqs(able) : \A i \in DOMAIN order :
                      LoadsToStart(Started(UpTo(i, order, L)), order[i]) = {}}}

(* The requests sent for the loads that r started after old.               *)
Requests(n, old, r) == {Req(n, load.client, load.chunk) : load \in r.loads \ old.loads}

RemoveLoads(r, loads) == [r EXCEPT !.loads = @ \ loads]

(* EndLoad with ClearLoad.                                                 *)
EndLoad(r) ==
    [r EXCEPT !.loading = FALSE, !.loads = {}, !.clients = <<>>,
              !.discovering = FALSE]
-----------------------------------------------------------------------------
(* What goes wrong is counted.                                             *)
Fails(fault) == fault \in setting.faults /\ left > 0 /\ left' = left - 1
FailsIf(fault, failed) == IF failed THEN Fails(fault) ELSE UNCHANGED left

Others(n) == online \ {n}

(* Being loaded, and not given up (OnTimer).                               *)
Loading(n) == n \in online /\ res[n].loading /\ ~res[n].removed

Init ==
    /\ setting \in Settings
    /\ left = setting.often
    /\ res = [n \in Clients |-> IF n = Source THEN SetByFile ELSE NoRes]
    /\ file = [n \in Clients |-> IF n = Source THEN Chunks ELSE {}]
    /\ online = setting.clients
    /\ needed = setting.clients \ {Source}
    /\ status = [m \in Clients |-> [n \in Clients |-> <<>>]]
    /\ net = {}

(* The game needs the resource: AddByCore, and AddLoad for want of a local *)
(* file that fits.  A resource that is listed is found, be it removed.     *)
AddByCore(n) ==
    /\ n \in online \cap needed
    /\ ~res[n].listed
    /\ res' = [res EXCEPT ![n] = SetLoad]
    /\ file' = [file EXCEPT ![n] = {}]
    /\ UNCHANGED <<online, needed, status, net, left, setting>>

(* The timer: NeedsDiscover and SendDiscover.  What it does for a resource *)
(* that is not being loaded serves the display only, and since when it     *)
(* discovers matters while there are no loads only.                        *)
SendDiscover(n) ==
    /\ Loading(n) /\ ~res[n].discovering
    /\ res[n].loads = {}
    /\ res' = [res EXCEPT ![n].discovering = TRUE]
    /\ UNCHANGED <<file, online, needed, status, net, left, setting>>

(* PID_NetResDis, which n sends every second, comes to m.                  *)
OnDiscover(m, n) ==
    /\ Loading(n)
    /\ m \in Others(n) /\ res[m].listed
    /\ status[n][m] = <<>>
    /\ status' = [status EXCEPT ![n][m] = <<res[m].chunks>>]
    /\ UNCHANGED <<res, file, online, needed, net, left, setting>>

(* The timer: a resource that has changed.  The source is not told, it     *)
(* loads nothing.                                                          *)
SendStatus(n) ==
    /\ n \in online
    /\ res[n].listed /\ res[n].dirty /\ ~res[n].removed
    /\ \A m \in Others(n) : status[m][n] = <<>>
    /\ res' = [res EXCEPT ![n].dirty = FALSE]
    /\ status' = [m \in Clients |-> IF m \in Others(n) \ {Source}
                                    THEN [status[m] EXCEPT ![n] = <<res[n].chunks>>]
                                    ELSE status[m]]
    /\ UNCHANGED <<file, online, needed, net, left, setting>>

(* From now on C is what m is known to have.                               *)
Hears(r, m, C) ==
    [r EXCEPT !.discovering = FALSE,
              !.clients = [l \in DOMAIN @ \cup {m} |-> IF l = m THEN C ELSE @[l]]]

OnStatus(n, m) ==
    /\ status[n][m] # <<>>
    /\ status' = [status EXCEPT ![n][m] = Tail(@)]
    /\ IF res[n].loading
       THEN LET heard == Hears(res[n], m, Head(status[n][m]))
            IN  \E r \in StartLoad(heard, m) :
                    /\ res' = [res EXCEPT ![n] = r]
                    /\ net' = net \cup Requests(n, heard, r)
       ELSE UNCHANGED <<res, net>>
    /\ UNCHANGED <<file, online, needed, left, setting>>

(* What SendChunk finds in the file: nothing where it ends, and anything   *)
(* before.                                                                 *)
Contents(m, k) == IF k \in file[m] THEN {"Right"} ELSE {"Nothing", "Wrong"}

(* SendChunk does not look whether the chunk is present, and sends what    *)
(* ResChunk.Set has left, also when it fails.                              *)
OnRequest(m) ==
    \E req \in net : \E unread \in BOOLEAN, content \in Contents(m, req.chunk) :
        /\ req.type = "Req" /\ req.to = m
        /\ unread => res[m].listed
        /\ FailsIf("ReadError", unread)
        /\ net' = (net \ {req}) \cup
                  (IF res[m].listed
                   THEN {Data(m, req.from, req.chunk, IF unread THEN "Nothing" ELSE content)}
                   ELSE {})
        /\ UNCHANGED <<res, file, online, needed, status, setting>>

(* C4Network2ResChunk::AddTo *)
Written(F, data) ==
    CASE data.content = "Right" -> F \cup {data.chunk}
      [] data.content = "Wrong" -> F \ {data.chunk}
      [] data.content = "Nothing" -> F

WithChunk(r, k) ==
    RemoveLoads([r EXCEPT !.chunks = @ \cup {k}, !.dirty = TRUE],
                {load \in r.loads : load.chunk = k})

Added_Regardless(r, k, unwritten) == WithChunk(r, k)

(* Only a chunk that is in the file counts as present.                     *)
Added(r, k, unwritten) == IF unwritten THEN r ELSE WithChunk(r, k)

OnChunk(n) ==
    \E data \in net : \E unwritten \in BOOLEAN :
        /\ data.type = "Data" /\ data.to = n
        /\ unwritten => res[n].loading
        /\ FailsIf("WriteError", unwritten)
        /\ IF res[n].loading
           THEN LET added == Added(res[n], data.chunk, unwritten)
                IN  \E r \in IF added.chunks = Chunks THEN {EndLoad(added)} ELSE StartNewLoads(added) :
                        /\ res' = [res EXCEPT ![n] = r]
                        /\ net' = (net \ {data}) \cup Requests(n, added, r)
           ELSE net' = net \ {data} /\ UNCHANGED res
        /\ file' = IF res[n].loading /\ ~unwritten
                   THEN [file EXCEPT ![n] = Written(@, data)]
                   ELSE file
        /\ UNCHANGED <<online, needed, status, setting>>

(* Nothing is on its way for this load.                                    *)
Lost(n, load) ==
    \A packet \in net : packet.chunk = load.chunk =>
        packet # Req(n, load.client, load.chunk) /\ ~(packet.type = "Data" /\ packet.from = load.client /\ packet.to = n)

LoadTimeout(n) ==
    /\ Loading(n)
    /\ \E loads \in (SUBSET res[n].loads) \ {{}} :
        LET rest == RemoveLoads(res[n], loads)
        IN  /\ FailsIf("Stall", \E load \in loads : ~Lost(n, load))
            /\ \E r \in StartNewLoads(rest) :
                    /\ res' = [res EXCEPT ![n] = r]
                    /\ net' = net \cup Requests(n, rest, r)
    /\ UNCHANGED <<file, online, needed, status, setting>>

(* What n and the others have told each other has arrived.                 *)
Quiet(n) == \A m \in Others(n) : status[n][m] = <<>> /\ status[m][n] = <<>>

DiscoverTimeout(n) ==
    /\ Loading(n)
    /\ res[n].loads = {} /\ res[n].discovering
    /\ FailsIf("Stall", ~Quiet(n) \/ \E m \in Others(n) : res[m].listed)
    /\ res' = [res EXCEPT ![n].removed = TRUE]
    /\ UNCHANGED <<file, online, needed, status, net, setting>>

(* The game removes the resource of a client that is gone (RemoveAtClient) *)
(* or that it has used (RetrieveScenario).                                 *)
RemoveRes(n) ==
    /\ n \in online \ {Source}
    /\ res[n].listed /\ ~res[n].removed
    /\ Source \notin online \/ (setting.dynamic /\ ~res[n].loading)
    /\ res' = [res EXCEPT ![n].removed = TRUE]
    /\ needed' = needed \ {n}
    /\ UNCHANGED <<file, online, status, net, left, setting>>

(* The host is past the tick of the dynamic data.                          *)
RemoveDynamic ==
    /\ Source \in online
    /\ res[Source].listed /\ ~res[Source].removed
    /\ setting.dynamic
    /\ res' = [res EXCEPT ![Source].removed = TRUE]
    /\ UNCHANGED <<file, online, needed, status, net, left, setting>>

(* Nobody asks for the resource of n (SendDiscover, SendChunk); every      *)
(* client that has it or loads it does so once a second, and one that was  *)
(* told of the dynamic data does before long.                              *)
Unasked(n) ==
    /\ Quiet(n)
    /\ \A m \in Others(n) :
          IF res[m].listed THEN res[m].removed ELSE n = Source => m \notin needed
    /\ \A packet \in net : ~(packet.type = "Req" /\ packet.to = n)

(* OnShareFree: C4NetResDeleteTime after the last request.                 *)
OnShareFree(n) ==
    /\ n \in online
    /\ res[n].listed /\ res[n].removed
    /\ FailsIf("Stall", ~Unasked(n))
    /\ res' = [res EXCEPT ![n] = NoRes]
    /\ file' = [file EXCEPT ![n] = {}]
    /\ UNCHANGED <<online, needed, status, net, setting>>

(* A client leaves the game, with all that is on its way from and to it.   *)
Leave(n) ==
    /\ n \in online
    /\ Fails(IF n = Source THEN "SourceLeaves" ELSE "OtherLeaves")
    /\ online' = online \ {n}
    /\ status' = [m \in Clients |-> [l \in Clients |-> IF n \in {l, m} THEN <<>> ELSE status[m][l]]]
    /\ net' = {packet \in net : n \notin {packet.from, packet.to}}
    /\ UNCHANGED <<res, file, needed, setting>>

DoLoad_NoTimeout(n) == DiscoverTimeout(n)

(* The timer looks after the loads, or else after the discovery.           *)
DoLoad(n) == LoadTimeout(n) \/ DiscoverTimeout(n)

(* PID_NetResDis comes to m and its answer to n, by turns.                 *)
AskAndAnswer(n, m) == OnDiscover(m, n) \/ OnStatus(n, m)

Next ==
    \E n \in Clients :
        \/ AddByCore(n)
        \/ SendDiscover(n)
        \/ SendStatus(n)
        \/ OnRequest(n)
        \/ OnChunk(n)
        \/ DoLoad(n)
        \/ RemoveRes(n)
        \/ RemoveDynamic
        \/ OnShareFree(n)
        \/ Leave(n)
        \/ \E m \in Clients : AskAndAnswer(n, m)

Spec == Init /\ [][Next]_vars

(* The network thread handles what arrives and runs its timers.            *)
Fairness ==
    /\ \A n \in Clients : WF_vars(OnRequest(n))
    /\ \A n \in Clients \ {Source} :
        /\ WF_vars(SendDiscover(n))
        /\ WF_vars(OnChunk(n))
        /\ WF_vars(DoLoad(n))
        /\ \A m \in Clients \ {n} : WF_vars(AskAndAnswer(n, m))

FairSpec == Spec /\ Fairness
-----------------------------------------------------------------------------
(* What is being loaded is missing, loaded once, from clients that said    *)
(* what they have, and within the limits; only a resource that is not      *)
(* complete is being loaded.                                               *)
TypeOK ==
    /\ online \subseteq Clients /\ needed \subseteq Clients
    /\ \A n \in Clients :
        LET r == res[n] IN
        /\ {r.listed, r.loading, r.removed, r.dirty, r.discovering} \subseteq BOOLEAN
        /\ r.chunks \subseteq Chunks /\ \A m \in DOMAIN r.clients : r.clients[m] \subseteq Chunks
        /\ r.loading <=> r.listed /\ r.chunks # Chunks
        /\ r.loads # {} => r.loading
        /\ \A load \in r.loads :
            load.client \in DOMAIN r.clients /\ load.chunk \in Chunks \ r.chunks
        /\ \A l1, l2 \in r.loads : l1.chunk = l2.chunk => l1 = l2
        /\ WithinLimits(r)
        /\ file[n] \subseteq Chunks
        /\ \A m \in Clients : ToSet(status[n][m]) \subseteq SUBSET Chunks /\ Len(status[n][m]) <= 1

(* The operations on ranges do with the chunk data of a client what those  *)
(* on sets do, whatever is added: they leave ranges in order that do not   *)
(* touch, whose lengths add up to the count.                               *)
RangesRight ==
    \A n \in online :
        LET S == res[n].chunks
            Ranges(T) == RangesOf(setting.chunks, T)
        IN  /\ \A k \in Chunks : \A i \in 1 .. setting.chunks - k :
                  AddChunkRange(Ranges(S), k, i) = Ranges(S \cup k .. k + i - 1)
            /\ GetNegative(Ranges(S)) = Ranges(Chunks \ S)
            /\ isComplete(Ranges(S)) <=> S = Chunks
            /\ \A m \in DOMAIN res[n].clients :
                  ChunksToRetrieve(Ranges(S), Ranges(res[n].clients[m]), LoadingChunks(res[n]))
                      = res[n].clients[m] \ (S \cup LoadingChunks(res[n]))

(* As long as the source is there and no timeout is over too early.        *)
Calm == "Stall" \notin setting.faults /\ Source \in online

(* Whoever waits for a packet, and for which load.                         *)
Owner(packet) == IF packet.type = "Req" THEN packet.from ELSE packet.to
LoadOf(packet) ==
    [chunk |-> packet.chunk, client |-> IF packet.type = "Req" THEN packet.to ELSE packet.from]

(* Then what is requested or sent is still waited for: no chunk is loaded  *)
(* twice, from two clients or again from the same one, and each from a     *)
(* client that has it.  (Otherwise a client may drop the resource and list *)
(* it anew in the middle of it.)                                           *)
LoadedOnce ==
    Calm =>
        /\ \A packet \in net :
            /\ LoadOf(packet) \in res[Owner(packet)].loads
            /\ \A p \in net : Owner(p) = Owner(packet) /\ p.chunk = packet.chunk => p = packet
        /\ \A n \in online : \A load \in res[n].loads : load.chunk \in res[load.client].chunks

(* A client that has a chunk according to its chunk data has it right in   *)
(* its file, so that what it passes on and what it plays with at the end   *)
(* is the file of the source: then, and as long as the files can be read.  *)
(* (SendChunk does not look whether the chunk that is requested is there.) *)
Intact ==
    Calm /\ "ReadError" \notin setting.faults =>
        \A n \in Clients : res[n].chunks \subseteq file[n]

(* The same when timeouts may be over too early, which does not hold: a    *)
(* client that drops the resource and lists it anew answers a request from *)
(* before with what its new file holds.                                    *)
StaysIntact ==
    "ReadError" \notin setting.faults =>
        \A n \in Clients : res[n].chunks \subseteq file[n]

(* As long as the source is there a client gets the resource, whoever else *)
(* leaves or fails; without it the client gives up, unless another one has *)
(* the resource or looks for it.  If the network stalls, it may give up    *)
(* too early, or draw again and again a client that has dropped the        *)
(* resource.                                                               *)
Loads ==
    \A n \in Clients :
        res[n].loading /\ "Stall" \notin setting.faults ~>
            \/ ~res[n].loading \/ n \notin online
            \/ Source \notin online /\ (res[n].removed \/ \E m \in Others(n) : res[m].listed)

(* A client that cannot get the resource any more gives up.                *)
GivesUp ==
    \A n \in Clients : res[n].loading ~> ~res[n].loading \/ res[n].removed \/ n \notin online
=============================================================================
