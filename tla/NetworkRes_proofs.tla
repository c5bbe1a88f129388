-------------------------- MODULE NetworkRes_proofs --------------------------
(***************************************************************************)
(* The exchange of a resource, for any clients, chunks, limits of loads    *)
(* and faults: what is loaded at all times, and what comes of it as long   *)
(* as the source is there and no timeout is too early.                     *)
(***************************************************************************)
EXTENDS NetworkRes, NetworkResChunkData_proofs

-----------------------------------------------------------------------------
(* The types.  What a client has heard of is a set of chunks for each of   *)
(* some others.                                                            *)
Load == [chunk : Chunks, client : Clients]
Resource ==
    [listed : BOOLEAN, loading : BOOLEAN, removed : BOOLEAN, chunks : SUBSET Chunks,
     dirty : BOOLEAN, discovering : BOOLEAN, loads : SUBSET Load,
     clients : UNION {[S -> SUBSET Chunks] : S \in SUBSET Clients}]
Packet ==
    {Req(n, m, k) : n \in Clients, m \in Clients, k \in Chunks}
    \cup {Data(n, m, k, content) : n \in Clients, m \in Clients, k \in Chunks,
                                   content \in {"Right", "Wrong", "Nothing"}}

Types ==
    /\ setting \in Setting /\ left \in Nat
    /\ online \subseteq Clients /\ needed \subseteq Clients
    /\ res \in [Clients -> Resource]
    /\ file \in [Clients -> SUBSET Chunks]
    /\ status \in [Clients -> [Clients -> Seq(SUBSET Chunks)]]
    /\ net \subseteq Packet

(* A resource is loaded as long as it is listed and not complete.  What is *)
(* loaded is missing, and a client with that many chunks is known.         *)
Well(r) ==
    /\ r.loading <=> r.listed /\ r.chunks # Chunks
    /\ ~r.listed => r = NoRes
    /\ ~r.loading => r.loads = {} /\ DOMAIN r.clients = {}
    /\ \A load \in r.loads : load.client \in DOMAIN r.clients /\ load.chunk \notin r.chunks
    /\ \A l1, l2 \in r.loads : l1.chunk = l2.chunk => l1 = l2
    /\ WithinLimits(r)

(* One status at a time is on its way between two connected clients. *)
Told ==
    \A n, m \in Clients :
        /\ Len(status[n][m]) <= 1
        /\ status[n][m] # <<>> => n \in online /\ m \in online /\ n # m

(* What may be the resource of the source: it never loads it.              *)
OfSource(r) == r \in {SetByFile, [SetByFile EXCEPT !.removed = TRUE], NoRes}

(* A client that has not listed the resource has no file of it, the source *)
(* has all of it until it has dropped it, and packets are between clients  *)
(* that have not left.                                                     *)
Connected ==
    /\ \A n \in Clients : ~res[n].listed => file[n] = {}
    /\ OfSource(res[Source]) /\ Source \notin needed
    /\ res[Source].listed => file[Source] = Chunks
    /\ Told
    /\ \A packet \in net : packet.from \in online /\ packet.to \in online

Inv == Types /\ (\A n \in Clients : Well(res[n])) /\ Connected

(* As long as it is calm, nobody that loads gives up; what a client has    *)
(* heard of another one is still there; what is on its way is waited for,  *)
(* once for each chunk, and asked for where it was said to be.  Whoever    *)
(* has removed the resource needs it no more, and when the source has      *)
(* dropped it nobody there needs it or loads it.                           *)
Heard ==
    \A n, m \in Clients :
        /\ status[n][m] # <<>> => Head(status[n][m]) \subseteq res[m].chunks
        /\ n \in online /\ m \in DOMAIN res[n].clients =>
              /\ res[n].clients[m] \subseteq res[m].chunks
              /\ status[n][m] # <<>> => res[n].clients[m] \subseteq Head(status[n][m])
Wanted == \A n \in Clients : res[n].loading => ~res[n].removed
Awaited == \A packet \in net : LoadOf(packet) \in res[Owner(packet)].loads
Unique ==
    \A p, q \in net : Owner(p) = Owner(q) /\ p.chunk = q.chunk => p = q
Known ==
    \A n \in online : \A load \in res[n].loads : load.chunk \in res[n].clients[load.client]

Retired == \A n \in Clients \ {Source} : res[n].removed => n \notin needed
Gone == ~res[Source].listed => \A n \in online : n \notin needed /\ ~res[n].loading

CalmInv ==
    Calm =>
        /\ Wanted
        /\ Heard
        /\ Awaited
        /\ Unique
        /\ Known
        /\ Retired
        /\ Gone

(* If files can be read, too, what is there is right, and so is what is on *)
(* its way.                                                                *)
Right == \A n \in Clients : res[n].chunks \subseteq file[n]
RightData == \A packet \in net : packet.type = "Data" => packet.content = "Right"

RightInv == Calm /\ "ReadError" \notin setting.faults => Right /\ RightData
-----------------------------------------------------------------------------
(* There are finitely many loads. *)
LEMMA LoadsFinite ==
    ASSUME setting \in Setting
    PROVE  IsFiniteSet(Load) /\ \A L \in SUBSET Load : IsFiniteSet(L) /\ Cardinality(L) \in Nat
<1> DEFINE f == [x \in Chunks \X Clients |-> [chunk |-> x[1], client |-> x[2]]]
<1>1. IsFiniteSet(Chunks \X Clients)
  <2>1. setting.chunks - 1 \in Int
    BY DEF Setting
  <2>2. IsFiniteSet(Chunks)
    BY <2>1, FS_Interval DEF Chunks
  <2> QED
    BY <2>2, ClientsAssumption, FS_Product
<1>2. f \in Surjection(Chunks \X Clients, Load)
  <2>1. f \in [Chunks \X Clients -> Load]
    BY DEF Load
  <2>2. ASSUME NEW l \in Load PROVE \E x \in Chunks \X Clients : f[x] = l
    <3>1. <<l.chunk, l.client>> \in Chunks \X Clients /\ f[<<l.chunk, l.client>>] = l
      BY DEF Load
    <3> QED
      BY <3>1
  <2> QED
    BY <2>1, <2>2 DEF Surjection
<1>3. IsFiniteSet(Load)
  BY <1>1, <1>2, FS_Surjection
<1> QED
  BY <1>3, FS_Subset, FS_CardinalityType

(* One more element is at most one more to count. *)
LEMMA OneMore ==
    ASSUME NEW S, NEW x, IsFiniteSet(S)
    PROVE  /\ Cardinality(S) \in Nat /\ Cardinality(S \cup {x}) \in Nat
           /\ Cardinality(S \cup {x}) <= Cardinality(S) + 1
<1>1. Cardinality(S) \in Nat
  BY FS_CardinalityType
<1>2. Cardinality(S \cup {x}) = IF x \in S THEN Cardinality(S) ELSE Cardinality(S) + 1
  BY FS_AddElement
<1>3. CASE x \in S
  BY <1>1, <1>2, <1>3
<1>4. CASE x \notin S
  BY <1>1, <1>2, <1>4
<1> QED
  BY <1>3, <1>4

(* What StartLoad and StartNewLoads do: they add loads of different chunks *)
(* that are missing and not loaded yet, each from a client that is         *)
(* connected and has the chunk, within the limits.                         *)
Starts(r, x) ==
    \E L \in SUBSET Load :
        /\ x = [r EXCEPT !.loads = @ \cup L]
        /\ \A l \in L :
            /\ l.client \in online /\ l.client \in DOMAIN r.clients
            /\ l.chunk \in r.clients[l.client]
            /\ l.chunk \notin r.chunks
            /\ \A old \in r.loads : old.chunk # l.chunk
        /\ \A l1, l2 \in L : l1.chunk = l2.chunk => l1 = l2
        /\ WithinLimits(x)

(* A load that StartLoad may begin with m. *)
LEMMA StartableLoads ==
    ASSUME Types, NEW r \in Resource, NEW m \in DOMAIN r.clients, NEW l \in LoadsToStart(r, m)
    PROVE  /\ l \in Load /\ l.client = m /\ m \in online
           /\ l.chunk \in r.clients[m] /\ l.chunk \notin r.chunks
           /\ \A old \in r.loads : old.chunk # l.chunk
           /\ Cardinality(r.loads) + 1 < MaxLoad /\ LoadsAt(r, m) < MaxLoadPerPeer
<1>1. m \in online /\ ~(Cardinality(r.loads) + 1 >= MaxLoad) /\ ~(LoadsAt(r, m) >= MaxLoadPerPeer)
  BY DEF LoadsToStart
<1>2. PICK k \in r.clients[m] \ (r.chunks \cup LoadingChunks(r)) : l = [chunk |-> k, client |-> m]
  BY <1>1 DEF LoadsToStart
<1>3. m \in Clients /\ k \in Chunks
  BY <1>2 DEF Resource
<1>4. r.loads \in SUBSET Load
  BY DEF Resource
<1>5. Cardinality(r.loads) \in Nat /\ LoadsAt(r, m) \in Nat
  <2>1. {load \in r.loads : load.client = m} \in SUBSET Load
    BY <1>4
  <2> QED
    BY <1>4, <2>1, LoadsFinite DEF Types, LoadsAt
<1>6. MaxLoad \in Nat /\ MaxLoadPerPeer \in Nat
  BY LimitsAssumption
<1> QED
  BY <1>1, <1>2, <1>3, <1>5, <1>6 DEF Load, LoadingChunks

(* StartLoad starts one or none. *)
LEMMA StartLoadStarts ==
    ASSUME Types, NEW r \in Resource, Well(r), NEW m \in DOMAIN r.clients, NEW x \in StartLoad(r, m)
    PROVE  Starts(r, x)
<1>0. r.loads \in SUBSET Load /\ r = [r EXCEPT !.loads = @ \cup {}]
  BY DEF Resource
<1>1. CASE x = r
  <2>1. WithinLimits(x)
    BY <1>1 DEF Well
  <2>2. {} \in SUBSET Load
    OBVIOUS
  <2>3. x = [r EXCEPT !.loads = @ \cup {}]
    BY <1>0, <1>1
  <2> QED
    BY <2>1, <2>2, <2>3 DEF Starts
<1>2. CASE x # r
  <2>1. PICK l \in LoadsToStart(r, m) : x = [r EXCEPT !.loads = @ \cup {l}]
    BY <1>2 DEF StartLoad
  <2>2. /\ l \in Load /\ l.client = m /\ m \in online
        /\ l.chunk \in r.clients[m] /\ l.chunk \notin r.chunks
        /\ \A old \in r.loads : old.chunk # l.chunk
        /\ Cardinality(r.loads) + 1 < MaxLoad /\ LoadsAt(r, m) < MaxLoadPerPeer
    BY StartableLoads
  <2>3. x.loads = r.loads \cup {l}
    BY <2>1 DEF Resource
  <2>4. Cardinality(x.loads) < MaxLoad
    <3>1. IsFiniteSet(r.loads) /\ Cardinality(r.loads) \in Nat
      BY <1>0, LoadsFinite DEF Types
    <3>2. Cardinality(r.loads \cup {l}) <= Cardinality(r.loads) + 1 /\ Cardinality(r.loads \cup {l}) \in Nat
      BY <3>1, OneMore
    <3> QED
      BY <2>2, <2>3, <3>1, <3>2, LimitsAssumption
  <2>5. ASSUME NEW c \in Clients PROVE LoadsAt(x, c) <= MaxLoadPerPeer
    <3> DEFINE A == {load \in r.loads : load.client = c}
    <3>1. IsFiniteSet(A) /\ Cardinality(A) \in Nat
      BY <1>0, LoadsFinite DEF Types
    <3>2. Cardinality(A) <= MaxLoadPerPeer
      BY DEF Well, WithinLimits, LoadsAt
    <3>3. CASE c = m
      <4>1. {load \in x.loads : load.client = c} = A \cup {l}
        BY <2>2, <2>3, <3>3
      <4>2. Cardinality(A \cup {l}) <= Cardinality(A) + 1 /\ Cardinality(A \cup {l}) \in Nat
        BY <3>1, OneMore
      <4>3. Cardinality(A) < MaxLoadPerPeer
        BY <2>2, <3>3 DEF LoadsAt
      <4> QED
        BY <3>1, <4>1, <4>2, <4>3, LimitsAssumption DEF LoadsAt
    <3>4. CASE c # m
      <4>1. {load \in x.loads : load.client = c} = A
        BY <2>2, <2>3, <3>4
      <4> QED
        BY <3>2, <4>1 DEF LoadsAt
    <3> QED
      BY <3>3, <3>4
  <2>6. WithinLimits(x)
    BY <2>4, <2>5 DEF WithinLimits
  <2>7. {l} \in SUBSET Load
    BY <2>2
  <2> QED
    BY <2>1, <2>2, <2>6, <2>7 DEF Starts
<1> QED
  BY <1>1, <1>2

(* StartNewLoads starts any number. *)
LEMMA StartNewLoadsStarts ==
    ASSUME Types, NEW r \in Resource, NEW x \in StartNewLoads(r)
    PROVE  Starts(r, x)
<1> DEFINE able == {m \in DOMAIN r.clients : LoadsToStart(r, m) # {}}
<1>1. PICK L \in SUBSET UNION {LoadsToStart(r, m) : m \in able} :
        /\ \A l1, l2 \in L : l1.chunk = l2.chunk => l1 = l2
        /\ WithinLimits([r EXCEPT !.loads = @ \cup L])
        /\ x = [r EXCEPT !.loads = @ \cup L]
  BY DEF StartNewLoads
<1>2. ASSUME NEW l \in L
      PROVE  /\ l \in Load /\ l.client \in online /\ l.client \in DOMAIN r.clients
             /\ l.chunk \in r.clients[l.client] /\ l.chunk \notin r.chunks
             /\ \A old \in r.loads : old.chunk # l.chunk
  <2>1. PICK m \in able : l \in LoadsToStart(r, m)
    BY <1>1
  <2> QED
    BY <2>1, StartableLoads
<1> QED
  BY <1>1, <1>2 DEF Starts

(* Fewer loads are within the limits, too. *)
LEMMA FewerLoads ==
    ASSUME Types, NEW r \in Resource, WithinLimits(r), NEW y, y.loads \subseteq r.loads
    PROVE  WithinLimits(y)
<1>0. r.loads \in SUBSET Load /\ y.loads \in SUBSET Load
  BY DEF Resource
<1>1. IsFiniteSet(r.loads) /\ Cardinality(r.loads) \in Nat /\ Cardinality(y.loads) \in Nat
  BY <1>0, LoadsFinite DEF Types
<1>2. Cardinality(y.loads) <= Cardinality(r.loads)
  BY <1>1, FS_Subset
<1>3. ASSUME NEW m \in Clients PROVE LoadsAt(y, m) <= MaxLoadPerPeer
  <2> DEFINE A == {load \in r.loads : load.client = m}
             B == {load \in y.loads : load.client = m}
  <2>1. IsFiniteSet(A) /\ Cardinality(A) \in Nat /\ Cardinality(B) \in Nat /\ B \in SUBSET A
    BY <1>0, LoadsFinite DEF Types
  <2>2. Cardinality(B) <= Cardinality(A)
    BY <2>1, FS_Subset
  <2>3. Cardinality(A) <= MaxLoadPerPeer
    BY DEF WithinLimits, LoadsAt
  <2> QED
    BY <2>1, <2>2, <2>3, LimitsAssumption DEF LoadsAt
<1> QED
  BY <1>1, <1>2, <1>3, LimitsAssumption DEF WithinLimits

(* The same without the limits, as it is used below: x is r with the loads *)
(* of L.                                                                   *)
Begins(r, x, L) ==
    /\ x = [r EXCEPT !.loads = r.loads \cup L] /\ x.loads = r.loads \cup L
    /\ \A l \in L :
        /\ l.client \in online /\ l.client \in DOMAIN r.clients
        /\ l.chunk \in r.clients[l.client]
        /\ l.chunk \notin r.chunks
        /\ \A old \in r.loads : old.chunk # l.chunk
    /\ \A l1, l2 \in L : l1.chunk = l2.chunk => l1 = l2

(* What is there after loads were started, and what is requested for them. *)
LEMMA StartsResult ==
    ASSUME Types, NEW r \in Resource, Well(r), NEW x, Starts(r, x), NEW n \in Clients
    PROVE  /\ x \in Resource /\ Well(x)
           /\ \E L \in SUBSET Load :
                Begins(r, x, L) /\ Requests(n, r, x) = {Req(n, l.client, l.chunk) : l \in L}
<1>1. PICK L \in SUBSET Load :
        /\ x = [r EXCEPT !.loads = @ \cup L]
        /\ \A l \in L :
            /\ l.client \in online /\ l.client \in DOMAIN r.clients
            /\ l.chunk \in r.clients[l.client]
            /\ l.chunk \notin r.chunks
            /\ \A old \in r.loads : old.chunk # l.chunk
        /\ \A l1, l2 \in L : l1.chunk = l2.chunk => l1 = l2
        /\ WithinLimits(x)
  BY DEF Starts
<1>2. x \in Resource
  BY <1>1 DEF Resource
<1>3. /\ x.loads = r.loads \cup L /\ x.listed = r.listed /\ x.loading = r.loading
      /\ x.chunks = r.chunks /\ x.clients = r.clients
  BY <1>1 DEF Resource
<1>4. Well(x)
  <2>1. ~r.loading => L = {}
    BY <1>1 DEF Well
  <2>2. ~r.listed => x = r
    <3> SUFFICES ASSUME ~r.listed PROVE x = r
      OBVIOUS
    <3>1. L = {}
      BY <2>1 DEF Well
    <3> QED
      BY <1>1, <3>1 DEF Resource
  <2>3. /\ x.loading <=> x.listed /\ x.chunks # Chunks
        /\ ~x.listed => x = NoRes
        /\ ~x.loading => x.loads = {} /\ DOMAIN x.clients = {}
    BY <1>3, <2>1, <2>2 DEF Well
  <2>4. \A load \in x.loads : load.client \in DOMAIN x.clients /\ load.chunk \notin x.chunks
    BY <1>1, <1>3 DEF Well
  <2>5. \A l1, l2 \in x.loads : l1.chunk = l2.chunk => l1 = l2
    BY <1>1, <1>3 DEF Well
  <2> QED
    BY <1>1, <2>3, <2>4, <2>5 DEF Well
<1>5. x.loads \ r.loads = L
  BY <1>1, <1>3
<1>6. Requests(n, r, x) = {Req(n, l.client, l.chunk) : l \in L}
  BY <1>5 DEF Requests
<1>7. Begins(r, x, L)
  BY <1>1, <1>3 DEF Begins
<1> QED
  BY <1>2, <1>4, <1>6, <1>7
-----------------------------------------------------------------------------
(* What a client knows when it has heard what another one has. *)
LEMMA HeardWell ==
    ASSUME Types, NEW r \in Resource, Well(r), r.loading, NEW m \in Clients, NEW C \in SUBSET Chunks,
           NEW h, h = Hears(r, m, C)
    PROVE  /\ h \in Resource /\ Well(h)
           /\ DOMAIN h.clients = DOMAIN r.clients \cup {m}
           /\ h.clients[m] = C /\ \A l \in DOMAIN r.clients \ {m} : h.clients[l] = r.clients[l]
           /\ h.loads = r.loads /\ h.chunks = r.chunks /\ h.listed = r.listed
           /\ h.loading = r.loading /\ h.removed = r.removed
<1> DEFINE f == [l \in DOMAIN r.clients \cup {m} |-> IF l = m THEN C ELSE r.clients[l]]
<1>1. PICK S \in SUBSET Clients : r.clients \in [S -> SUBSET Chunks]
  BY DEF Resource
<1>3. f \in [S \cup {m} -> SUBSET Chunks] /\ DOMAIN f = S \cup {m}
  BY <1>1
<1>4. f[m] = C /\ \A l \in S \ {m} : f[l] = r.clients[l]
  BY <1>1
<1>5. h = [r EXCEPT !.discovering = FALSE, !.clients = f]
  BY DEF Hears
<1> HIDE DEF f
<1>6. /\ h.clients = f /\ h.loads = r.loads /\ h.chunks = r.chunks /\ h.listed = r.listed
      /\ h.loading = r.loading /\ h.removed = r.removed
  BY <1>5 DEF Resource
<1>7. h \in Resource
  <2>1. f \in UNION {[T -> SUBSET Chunks] : T \in SUBSET Clients}
    <3>1. S \cup {m} \in SUBSET Clients
      OBVIOUS
    <3> QED
      BY <1>3, <3>1
  <2> QED
    BY <1>5, <2>1 DEF Resource
<1>8. Well(h)
  <2>1. WithinLimits(h)
    BY <1>6, FewerLoads DEF Well
  <2> QED
    BY <1>1, <1>3, <1>6, <2>1 DEF Well
<1> QED
  BY <1>1, <1>3, <1>4, <1>6, <1>7, <1>8
-----------------------------------------------------------------------------
(* The game does not change, nor do the types with it. *)
LEMMA SameTypes ==
    ASSUME setting' = setting
    PROVE  /\ Chunks' = Chunks /\ Load' = Load /\ Resource' = Resource /\ Packet' = Packet
           /\ SetByFile' = SetByFile
<1>1. Chunks' = Chunks
  BY DEF Chunks
<1>2. Load' = Load
  BY <1>1 DEF Load
<1>3. Resource' = Resource
  BY <1>1, <1>2 DEF Resource
<1>4. Packet' = Packet
  BY <1>1 DEF Packet
<1>5. SetByFile' = SetByFile
  BY <1>1 DEF SetByFile
<1> QED
  BY <1>1, <1>2, <1>3, <1>4, <1>5

(* What a packet is made of. *)
LEMMA PacketShape ==
    ASSUME NEW packet \in Packet
    PROVE  /\ packet.chunk \in Chunks /\ packet.from \in Clients /\ packet.to \in Clients
           /\ packet.type \in {"Req", "Data"}
           /\ packet.type = "Req" => packet = Req(packet.from, packet.to, packet.chunk)
           /\ packet.type = "Data" =>
                /\ packet.content \in {"Right", "Wrong", "Nothing"}
                /\ packet = Data(packet.from, packet.to, packet.chunk, packet.content)
<1>1. CASE packet \in {Req(n, m, k) : n \in Clients, m \in Clients, k \in Chunks}
  <2>1. PICK n \in Clients, m \in Clients, k \in Chunks : packet = Req(n, m, k)
    BY <1>1
  <2> QED
    BY <2>1 DEF Req
<1>2. CASE packet \in {Data(n, m, k, content) : n \in Clients, m \in Clients, k \in Chunks,
                                               content \in {"Right", "Wrong", "Nothing"}}
  <2>1. PICK n \in Clients, m \in Clients, k \in Chunks, content \in {"Right", "Wrong", "Nothing"} :
            packet = Data(n, m, k, content)
    BY <1>2
  <2> QED
    BY <2>1 DEF Data
<1> QED
  BY <1>1, <1>2 DEF Packet

(* The source loads nothing, has all or nothing, and drops what it removed. *)
LEMMA SourceFields ==
    ASSUME NEW r, OfSource(r)
    PROVE  /\ ~r.loading /\ ~r.dirty /\ r.loads = {}
           /\ r.chunks = IF r.listed THEN Chunks ELSE {}
           /\ r.listed \in BOOLEAN
           /\ r.listed => OfSource([r EXCEPT !.removed = TRUE])
<1>1. CASE r = SetByFile
  BY <1>1 DEF OfSource, SetByFile, NoRes
<1>2. CASE r = [SetByFile EXCEPT !.removed = TRUE]
  BY <1>2 DEF OfSource, SetByFile, NoRes
<1>3. CASE r = NoRes
  BY <1>3 DEF NoRes
<1> QED
  BY <1>1, <1>2, <1>3 DEF OfSource

(* The source needs nothing. *)
LEMMA SourceIdle ==
    ASSUME Inv
    PROVE  /\ Source \in Clients /\ Source \notin needed
           /\ ~res[Source].loading /\ ~res[Source].dirty /\ res[Source].loads = {}
           /\ res[Source].chunks = IF res[Source].listed THEN Chunks ELSE {}
BY ClientsAssumption, SourceFields DEF Inv, Connected

(* A step in which one client's resource may change, to another one that   *)
(* is well, keeps the invariant.                                           *)
LEMMA InvKept ==
    ASSUME Inv, setting' = setting, left' \in Nat, online' = online, needed' \subseteq needed,
           NEW n \in Clients, NEW x \in Resource, Well(x), res' = [res EXCEPT ![n] = x],
           n = Source => OfSource(x) /\ (x.listed => file'[n] = Chunks),
           file' \in [Clients -> SUBSET Chunks],
           \A m \in Clients \ {n} : file'[m] = file[m],
           ~x.listed => file'[n] = {},
           status' \in [Clients -> [Clients -> Seq(SUBSET Chunks)]], Told',
           net' \subseteq Packet,
           \A packet \in net' : packet.from \in online /\ packet.to \in online
    PROVE  Inv'
<1>1. /\ Chunks' = Chunks /\ Resource' = Resource /\ Packet' = Packet /\ SetByFile' = SetByFile
  BY SameTypes
<1>2. res' \in [Clients -> Resource] /\ res'[n] = x /\ \A m \in Clients \ {n} : res'[m] = res[m]
  BY DEF Inv, Types
<1>3. Types'
  BY <1>1, <1>2 DEF Inv, Types
<1>4. ASSUME NEW m \in Clients PROVE Well(res[m])'
  <2>1. Well(res'[m])
    BY <1>2 DEF Inv
  <2> QED
    BY <1>1, <2>1 DEF Well, WithinLimits, LoadsAt
<1>5. Connected'
  <2>1. \A m \in Clients : ~res'[m].listed => file'[m] = {}
    BY <1>2 DEF Inv, Connected
  <2>2. OfSource(res'[Source]) /\ (res'[Source].listed => file'[Source] = Chunks)
    BY <1>2, ClientsAssumption DEF Inv, Connected
  <2>3. OfSource(res[Source])' /\ (Source \notin needed)'
    BY <1>1, <2>2 DEF Inv, Connected, OfSource
  <2> QED
    BY <1>1, <2>1, <2>2, <2>3 DEF Connected
<1> QED
  BY <1>3, <1>4, <1>5 DEF Inv

(* The same if no resource and no file changes. *)
LEMMA InvKeptSame ==
    ASSUME Inv, UNCHANGED <<setting, online, res, file>>, left' \in Nat, needed' \subseteq needed,
           status' \in [Clients -> [Clients -> Seq(SUBSET Chunks)]], Told',
           net' \subseteq Packet,
           \A packet \in net' : packet.from \in online /\ packet.to \in online
    PROVE  Inv'
<1>1. /\ Source \in Clients /\ res[Source] \in Resource /\ Well(res[Source])
      /\ res' = [res EXCEPT ![Source] = res[Source]]
      /\ file' \in [Clients -> SUBSET Chunks] /\ (~res[Source].listed => file'[Source] = {})
      /\ OfSource(res[Source]) /\ (res[Source].listed => file'[Source] = Chunks)
  BY SourceIdle, ClientsAssumption DEF Inv, Types, Connected
<1> QED
  BY <1>1, InvKept
-----------------------------------------------------------------------------
(* The handlers that start loads.  Client n gets x, which is r with the    *)
(* loads L begun, and requests these.                                      *)
Continues(n, r, x, L) ==
    /\ r \in Resource /\ Well(r) /\ x \in Resource /\ Well(x) /\ L \in SUBSET Load
    /\ Begins(r, x, L)
    /\ res' = [res EXCEPT ![n] = x]

RequestsFor(n, L) == {Req(n, l.client, l.chunk) : l \in L}

(* A status is heard, and may begin a load.                                *)
LEMMA OnStatusEffect ==
    ASSUME Inv, NEW n \in Clients, NEW m \in Clients, OnStatus(n, m)
    PROVE  /\ n \in online /\ m \in online /\ n # m /\ (n # Source \/ ~res[n].loading)
           /\ status[n][m] # <<>> /\ Head(status[n][m]) \in SUBSET Chunks
           /\ status' = [status EXCEPT ![n] = [status[n] EXCEPT ![m] = <<>>]]
           /\ UNCHANGED <<file, online, needed, left, setting>>
           /\ \/ ~res[n].loading /\ UNCHANGED <<res, net>>
              \/ /\ res[n].loading
                 /\ \E x, L :
                      /\ Continues(n, Hears(res[n], m, Head(status[n][m])), x, L)
                      /\ net' = net \cup RequestsFor(n, L)
<1> DEFINE C == Head(status[n][m])
           h == Hears(res[n], m, C)
<1>1. /\ res[n] \in Resource /\ Well(res[n]) /\ status[n][m] \in Seq(SUBSET Chunks)
      /\ Len(status[n][m]) <= 1 /\ status[n][m] # <<>> /\ n \in online /\ m \in online /\ n # m
  BY DEF Inv, Types, Connected, Told, OnStatus
<1>2. C \in SUBSET Chunks /\ Tail(status[n][m]) = <<>>
  BY <1>1
<1>3. status' = [status EXCEPT ![n] = [status[n] EXCEPT ![m] = <<>>]]
  BY <1>2 DEF OnStatus
<1>4. CASE ~res[n].loading
  BY <1>1, <1>2, <1>3, <1>4 DEF OnStatus
<1>5. CASE res[n].loading
  <2>1. PICK x \in StartLoad(h, m) : res' = [res EXCEPT ![n] = x] /\ net' = net \cup Requests(n, h, x)
    BY <1>5 DEF OnStatus
  <2>2. h \in Resource /\ Well(h) /\ DOMAIN h.clients = DOMAIN res[n].clients \cup {m}
    BY <1>1, <1>2, <1>5, HeardWell DEF Inv
  <2>3. Starts(h, x)
    BY <2>2, StartLoadStarts DEF Inv
  <2>4. /\ x \in Resource /\ Well(x)
        /\ \E L \in SUBSET Load : Begins(h, x, L) /\ Requests(n, h, x) = RequestsFor(n, L)
    BY <2>2, <2>3, StartsResult DEF Inv, RequestsFor
  <2>5. \E L : Continues(n, h, x, L) /\ net' = net \cup RequestsFor(n, L)
    BY <2>1, <2>2, <2>4 DEF Continues
  <2> QED
    BY <1>1, <1>2, <1>3, <1>5, <2>5, SourceIdle DEF OnStatus
<1> QED
  BY <1>4, <1>5

(* Loads are given up, and others begun.                                   *)
LEMMA LoadTimeoutEffect ==
    ASSUME Inv, NEW n \in Clients, LoadTimeout(n)
    PROVE  /\ n \in online /\ n # Source /\ res[n].loading
           /\ UNCHANGED <<file, online, needed, status, setting>>
           /\ \E loads \in SUBSET res[n].loads : \E x, L :
                /\ FailsIf("Stall", \E load \in loads : ~Lost(n, load))
                /\ Continues(n, RemoveLoads(res[n], loads), x, L)
                /\ net' = net \cup RequestsFor(n, L)
<1>1. res[n] \in Resource /\ Well(res[n]) /\ n \in online /\ res[n].loading /\ n # Source
  BY SourceIdle DEF Inv, Types, LoadTimeout, Loading
<1>2. PICK loads \in (SUBSET res[n].loads) \ {{}} :
        LET rest == RemoveLoads(res[n], loads)
        IN  /\ FailsIf("Stall", \E load \in loads : ~Lost(n, load))
            /\ \E r \in StartNewLoads(rest) :
                    /\ res' = [res EXCEPT ![n] = r]
                    /\ net' = net \cup Requests(n, rest, r)
  BY DEF LoadTimeout
<1> DEFINE rest == RemoveLoads(res[n], loads)
<1>3. PICK x \in StartNewLoads(rest) : res' = [res EXCEPT ![n] = x] /\ net' = net \cup Requests(n, rest, x)
  BY <1>2
<1>4. rest \in Resource /\ rest.loads \subseteq res[n].loads
  BY <1>1 DEF Resource, RemoveLoads
<1>5. Well(rest)
  <2>1. /\ rest.listed = res[n].listed /\ rest.loading = res[n].loading
        /\ rest.chunks = res[n].chunks /\ rest.clients = res[n].clients
    BY <1>1 DEF Resource, RemoveLoads
  <2>2. WithinLimits(rest)
    BY <1>1, <1>4, FewerLoads DEF Inv, Well
  <2> QED
    BY <1>1, <1>4, <2>1, <2>2 DEF Well
<1> HIDE DEF rest
<1>6. Starts(rest, x)
  BY <1>3, <1>4, StartNewLoadsStarts DEF Inv
<1>7. /\ x \in Resource /\ Well(x)
      /\ \E L \in SUBSET Load : Begins(rest, x, L) /\ Requests(n, rest, x) = RequestsFor(n, L)
  BY <1>4, <1>5, <1>6, StartsResult DEF Inv, RequestsFor
<1>8. \E L : Continues(n, rest, x, L) /\ net' = net \cup RequestsFor(n, L)
  BY <1>3, <1>4, <1>5, <1>7 DEF Continues
<1>9. UNCHANGED <<file, online, needed, status, setting>>
  BY DEF LoadTimeout
<1>10. FailsIf("Stall", \E load \in loads : ~Lost(n, load)) /\ loads \in SUBSET res[n].loads
  BY <1>2
<1> QED
  BY <1>1, <1>8, <1>9, <1>10 DEF rest

(* What comes of a chunk that was added: a resource that is well, complete *)
(* or not.                                                                 *)
LEMMA AddedWell ==
    ASSUME Types, NEW r \in Resource, Well(r), r.loading, NEW k \in Chunks, NEW unwritten \in BOOLEAN
    PROVE  LET a == Added(r, k, unwritten) IN
           /\ a \in Resource /\ a.loads \subseteq r.loads /\ a.clients = r.clients
           /\ a.listed /\ a.loading /\ a.removed = r.removed
           /\ unwritten => a = r
           /\ ~unwritten => /\ a.chunks = r.chunks \cup {k}
                            /\ a.loads = r.loads \ {l \in r.loads : l.chunk = k}
           /\ a.chunks # Chunks => Well(a)
           /\ a.chunks = Chunks => EndLoad(a) \in Resource /\ Well(EndLoad(a))
<1> DEFINE a == Added(r, k, unwritten)
<1>1. CASE unwritten
  BY <1>1 DEF Added, Well
<1>2. CASE ~unwritten
  <2>1. a = [r EXCEPT !.chunks = r.chunks \cup {k}, !.dirty = TRUE,
                      !.loads = r.loads \ {l \in r.loads : l.chunk = k}]
    BY <1>2 DEF Added, WithChunk, RemoveLoads, Resource
  <2> HIDE DEF a
  <2>2. /\ a \in Resource /\ a.clients = r.clients /\ a.listed = r.listed /\ a.loading = r.loading
        /\ a.removed = r.removed /\ a.chunks = r.chunks \cup {k}
        /\ a.loads = r.loads \ {l \in r.loads : l.chunk = k}
    BY <2>1 DEF Resource
  <2>3. WithinLimits(a)
    BY <2>2, FewerLoads DEF Well
  <2>4. ASSUME a.chunks # Chunks PROVE Well(a)
    BY <2>2, <2>3, <2>4 DEF Well
  <2>5. ASSUME a.chunks = Chunks PROVE EndLoad(a) \in Resource /\ Well(EndLoad(a))
    <3> DEFINE e == EndLoad(a)
    <3>1. e = [a EXCEPT !.loading = FALSE, !.loads = {}, !.clients = <<>>, !.discovering = FALSE]
      BY DEF EndLoad
    <3> HIDE DEF e
    <3>2. /\ e.listed = a.listed /\ e.loading = FALSE /\ e.loads = {} /\ e.clients = <<>>
          /\ e.chunks = a.chunks
      BY <2>2, <3>1 DEF Resource
    <3>3. <<>> \in [{} -> SUBSET Chunks] /\ DOMAIN <<>> = {}
      OBVIOUS
    <3>4. e \in Resource
      <4>1. <<>> \in UNION {[S -> SUBSET Chunks] : S \in SUBSET Clients}
        BY <3>3
      <4> QED
        BY <2>2, <3>1, <4>1 DEF Resource
    <3>5. WithinLimits(e)
      BY <2>2, <2>3, <3>2, FewerLoads
    <3>6. Well(e)
      BY <2>2, <2>5, <3>2, <3>3, <3>5 DEF Well
    <3> QED
      BY <3>4, <3>6 DEF e
  <2>6. a.listed
    BY <2>2 DEF Well
  <2> QED
    BY <1>2, <2>2, <2>4, <2>5, <2>6 DEF a
<1> QED
  BY <1>1, <1>2

(* Data that comes is written or not; the chunk is added and the next      *)
(* loads begun, or all is loaded; or nobody waits for it.                  *)
LEMMA OnChunkEffect ==
    ASSUME Inv, NEW n \in Clients, OnChunk(n)
    PROVE  \E data \in net, unwritten \in BOOLEAN :
            /\ data.type = "Data" /\ data.to = n /\ data.chunk \in Chunks
            /\ FailsIf("WriteError", unwritten)
            /\ UNCHANGED <<online, needed, status, setting>>
            /\ file' = IF res[n].loading /\ ~unwritten
                       THEN [file EXCEPT ![n] = Written(@, data)] ELSE file
            /\ \/ ~res[n].loading /\ UNCHANGED res /\ net' = net \ {data}
               \/ /\ res[n].loading /\ n # Source
                  /\ LET a == Added(res[n], data.chunk, unwritten) IN
                     \/ /\ a.chunks = Chunks /\ res' = [res EXCEPT ![n] = EndLoad(a)]
                        /\ net' = net \ {data}
                     \/ /\ a.chunks # Chunks
                        /\ \E x, L : /\ Continues(n, a, x, L)
                                     /\ net' = (net \ {data}) \cup RequestsFor(n, L)
<1>1. PICK data \in net, unwritten \in BOOLEAN :
        /\ data.type = "Data" /\ data.to = n
        /\ unwritten => res[n].loading
        /\ FailsIf("WriteError", unwritten)
        /\ IF res[n].loading
           THEN LET added == Added(res[n], data.chunk, unwritten)
                IN  \E r \in IF added.chunks = Chunks THEN {EndLoad(added)} ELSE StartNewLoads(added) :
                        /\ res' = [res EXCEPT ![n] = r]
                        /\ net' = (net \ {data}) \cup Requests(n, added, r)
           ELSE net' = net \ {data} /\ UNCHANGED res
        /\ file' = IF res[n].loading /\ ~unwritten
                   THEN [file EXCEPT ![n] = Written(@, data)]
                   ELSE file
  BY DEF OnChunk
<1>2. data.chunk \in Chunks
  BY PacketShape DEF Inv, Types
<1>3. UNCHANGED <<online, needed, status, setting>>
  BY DEF OnChunk
<1>4. CASE ~res[n].loading
  BY <1>1, <1>2, <1>3, <1>4
<1>5. CASE res[n].loading
  <2> DEFINE a == Added(res[n], data.chunk, unwritten)
  <2>1. res[n] \in Resource /\ Well(res[n]) /\ n # Source
    BY <1>5, SourceIdle DEF Inv, Types
  <2>2. /\ a \in Resource
        /\ a.chunks # Chunks => Well(a)
    BY <1>2, <1>5, <2>1, AddedWell DEF Inv
  <2>3. PICK r \in IF a.chunks = Chunks THEN {EndLoad(a)} ELSE StartNewLoads(a) :
            /\ res' = [res EXCEPT ![n] = r]
            /\ net' = (net \ {data}) \cup Requests(n, a, r)
    BY <1>1, <1>5
  <2> HIDE DEF a
  <2>4. CASE a.chunks = Chunks
    <3>1. r = EndLoad(a) /\ r.loads = {}
      BY <2>2, <2>3, <2>4 DEF EndLoad, Resource
    <3>2. Requests(n, a, r) = {}
      BY <3>1 DEF Requests
    <3>3. res' = [res EXCEPT ![n] = EndLoad(a)] /\ net' = net \ {data}
      BY <2>3, <3>1, <3>2
    <3> QED
      BY <1>1, <1>2, <1>3, <1>5, <2>1, <2>4, <3>3 DEF a
  <2>5. CASE a.chunks # Chunks
    <3>1. Starts(a, r)
      BY <2>2, <2>3, <2>5, StartNewLoadsStarts DEF Inv
    <3>2. /\ r \in Resource /\ Well(r)
          /\ \E L \in SUBSET Load : Begins(a, r, L) /\ Requests(n, a, r) = RequestsFor(n, L)
      BY <2>2, <2>5, <3>1, StartsResult DEF Inv, RequestsFor
    <3>3. \E L : Continues(n, a, r, L) /\ net' = (net \ {data}) \cup RequestsFor(n, L)
      BY <2>2, <2>3, <2>5, <3>2 DEF Continues
    <3> QED
      BY <1>1, <1>2, <1>3, <1>5, <2>1, <2>5, <3>3 DEF a
  <2> QED
    BY <2>4, <2>5
<1> QED
  BY <1>4, <1>5
-----------------------------------------------------------------------------
(* What goes wrong is one time less that may go wrong. *)
LEMMA FailsLeft ==
    ASSUME NEW fault, NEW failed \in BOOLEAN, left \in Nat, FailsIf(fault, failed)
    PROVE  left' \in Nat /\ (failed => fault \in setting.faults)
BY DEF FailsIf, Fails

(* Requests for loads that begin are between clients that are connected.   *)
LEMMA RequestsGood ==
    ASSUME NEW n \in Clients, n \in online, NEW r, NEW x, NEW L, Continues(n, r, x, L)
    PROVE  /\ \A p \in RequestsFor(n, L) :
                /\ p \in Packet /\ p.from = n /\ p.from \in online /\ p.to \in online
                /\ p.type = "Req" /\ LoadOf(p) \in L
           /\ L \in SUBSET Load
<1>0. L \in SUBSET Load /\ \A l \in L : l.client \in online
  BY DEF Continues, Begins
<1> SUFFICES ASSUME NEW l \in L
             PROVE  LET p == Req(n, l.client, l.chunk) IN
                    /\ p \in Packet /\ p.from = n /\ p.to \in online /\ p.type = "Req"
                    /\ LoadOf(p) \in L
  BY <1>0 DEF RequestsFor
<1>1. l.client \in Clients /\ l.chunk \in Chunks /\ l = [chunk |-> l.chunk, client |-> l.client]
  BY <1>0 DEF Load
<1>2. l.client \in online
  BY <1>0
<1>3. Req(n, l.client, l.chunk) \in Packet
  BY <1>1 DEF Packet
<1>4. LoadOf(Req(n, l.client, l.chunk)) = l
  BY <1>1 DEF Req, LoadOf
<1> QED
  BY <1>2, <1>3, <1>4 DEF Req

(* What a resource is made of. *)
LEMMA ResourceFields ==
    ASSUME NEW r \in Resource
    PROVE  /\ r.chunks \in SUBSET Chunks /\ r.loads \in SUBSET Load
           /\ {r.listed, r.loading, r.removed, r.dirty, r.discovering} \subseteq BOOLEAN
           /\ DOMAIN r.clients \subseteq Clients
           /\ \A m \in DOMAIN r.clients : r.clients[m] \in SUBSET Chunks
<1>1. PICK S \in SUBSET Clients : r.clients \in [S -> SUBSET Chunks]
  BY DEF Resource
<1> QED
  BY <1>1 DEF Resource

(* Giving up and the like change nothing that the loads depend on.         *)
LEMMA SameWell ==
    ASSUME Types, NEW r \in Resource, Well(r), r.listed, NEW x \in Resource,
           x.listed, x.loading = r.loading, x.chunks = r.chunks, x.loads = r.loads,
           x.clients = r.clients
    PROVE  Well(x)
<1>1. WithinLimits(x)
  BY FewerLoads DEF Well
<1> QED
  BY <1>1 DEF Well

(* Every step keeps the invariant. *)
LEMMA NextInv == Inv /\ [Next]_vars => Inv'
<1> SUFFICES ASSUME Inv, [Next]_vars PROVE Inv'
  OBVIOUS
<1>0. /\ left \in Nat /\ online \subseteq Clients /\ needed \subseteq Clients
      /\ file \in [Clients -> SUBSET Chunks] /\ Told
      /\ net \subseteq Packet /\ \A packet \in net : packet.from \in online /\ packet.to \in online
  BY DEF Inv, Types, Connected
<1>r. \A n \in Clients : res[n] \in Resource /\ Well(res[n])
  BY DEF Inv, Types
<1>s. status \in [Clients -> [Clients -> Seq(SUBSET Chunks)]]
  BY DEF Inv, Types
<1>u. \A n \in Clients : ~res[n].listed => res[n] = NoRes /\ file[n] = {}
  BY <1>r DEF Inv, Connected, Well
<1>t. ASSUME UNCHANGED <<status, online>> PROVE Told'
  BY <1>0, <1>t DEF Told
<1>1. ASSUME UNCHANGED vars PROVE Inv'
  <2>1. Told'
    BY <1>1, <1>t DEF vars
  <2> QED
    BY <1>0, <1>r, <1>s, <1>u, <1>1, <2>1, InvKeptSame DEF vars
<1>2. ASSUME NEW n \in Clients, AddByCore(n) PROVE Inv'
  <2>1. n # Source /\ ~res[n].listed
    BY <1>2, SourceIdle DEF AddByCore
  <2>2. SetLoad \in Resource /\ Well(SetLoad) /\ SetLoad.listed
    <3> DEFINE r == res[n]
    <3>1. r = NoRes
      BY <1>u, <2>1
    <3>2. SetLoad = [r EXCEPT !.listed = TRUE, !.loading = TRUE]
      BY <3>1 DEF SetLoad
    <3>3. SetLoad \in Resource
      BY <1>r, <3>2 DEF Resource
    <3>4. /\ SetLoad.listed /\ SetLoad.loading /\ SetLoad.chunks = {} /\ SetLoad.loads = {}
      BY DEF SetLoad, NoRes
    <3>5. Chunks # {}
      <4>1. setting.chunks \in Nat \ {0}
        BY DEF Inv, Types, Setting
      <4>2. 0 \in Chunks
        BY <4>1 DEF Chunks
      <4> QED
        BY <4>2
    <3>6. WithinLimits(SetLoad)
      BY <1>r, <3>4, FewerLoads DEF Inv, Well
    <3> QED
      BY <3>3, <3>4, <3>5, <3>6 DEF Well
  <2>3. /\ res' = [res EXCEPT ![n] = SetLoad] /\ file' = [file EXCEPT ![n] = {}]
        /\ UNCHANGED <<online, needed, status, net, left, setting>>
    BY <1>2 DEF AddByCore
  <2>4. Told'
    BY <2>3, <1>t
  <2> QED
    BY <1>0, <1>r, <1>s, <1>u, <2>1, <2>2, <2>3, <2>4, InvKept
<1>3. ASSUME NEW n \in Clients, SendDiscover(n) PROVE Inv'
  <2> DEFINE x == [res[n] EXCEPT !.discovering = TRUE]
  <2>1. /\ res' = [res EXCEPT ![n] = x] /\ n # Source /\ res[n].listed
        /\ UNCHANGED <<file, online, needed, status, net, left, setting>>
    BY <1>r, <1>3, SourceIdle DEF SendDiscover, Loading, Well
  <2>2. /\ x \in Resource /\ x.listed = res[n].listed /\ x.loading = res[n].loading
        /\ x.chunks = res[n].chunks /\ x.loads = res[n].loads /\ x.clients = res[n].clients
    BY <1>r DEF Resource
  <2> HIDE DEF x
  <2>3. Well(x)
    BY <1>r, <2>1, <2>2, SameWell DEF Inv
  <2>4. Told'
    BY <2>1, <1>t
  <2> QED
    BY <1>0, <1>r, <1>s, <1>u, <2>1, <2>2, <2>3, <2>4, InvKept
<1>4. ASSUME NEW n \in Clients, SendStatus(n) PROVE Inv'
  <2> DEFINE x == [res[n] EXCEPT !.dirty = FALSE]
  <2>1. /\ res' = [res EXCEPT ![n] = x] /\ n # Source /\ res[n].listed /\ n \in online
        /\ UNCHANGED <<file, online, needed, net, left, setting>>
    BY <1>4, SourceIdle DEF SendStatus
  <2>2. /\ x \in Resource /\ x.listed = res[n].listed /\ x.loading = res[n].loading
        /\ x.chunks = res[n].chunks /\ x.loads = res[n].loads /\ x.clients = res[n].clients
    BY <1>r DEF Resource
  <2> HIDE DEF x
  <2>3. Well(x)
    BY <1>r, <2>1, <2>2, SameWell DEF Inv
  <2>4. status' = [m \in Clients |-> IF m \in Others(n) \ {Source}
                                    THEN [status[m] EXCEPT ![n] = <<res[n].chunks>>]
                                    ELSE status[m]]
    BY <1>4 DEF SendStatus
  <2>5. res[n].chunks \in SUBSET Chunks
    BY <1>r DEF Resource
  <2>6. status' \in [Clients -> [Clients -> Seq(SUBSET Chunks)]]
    BY <1>s, <2>4, <2>5
  <2>7. Told'
    BY <1>0, <2>1, <2>4 DEF Told, Others
  <2> QED
    BY <1>0, <1>r, <1>s, <1>u, <2>1, <2>2, <2>3, <2>6, <2>7, InvKept
<1>5. ASSUME NEW m \in Clients, OnRequest(m) PROVE Inv'
  <2>0. PICK req \in net :
            \E unread \in BOOLEAN, content \in Contents(m, req.chunk) :
                /\ req.type = "Req" /\ req.to = m
                /\ FailsIf("ReadError", unread)
                /\ net' = (net \ {req}) \cup
                      (IF res[m].listed
                       THEN {Data(m, req.from, req.chunk, IF unread THEN "Nothing" ELSE content)}
                       ELSE {})
                /\ UNCHANGED <<res, file, online, needed, status, setting>>
    BY <1>5 DEF OnRequest
  <2>1. PICK unread \in BOOLEAN, content \in Contents(m, req.chunk) :
            /\ req.type = "Req" /\ req.to = m
            /\ FailsIf("ReadError", unread)
            /\ net' = (net \ {req}) \cup
                  (IF res[m].listed
                   THEN {Data(m, req.from, req.chunk, IF unread THEN "Nothing" ELSE content)}
                   ELSE {})
            /\ UNCHANGED <<res, file, online, needed, status, setting>>
    BY <2>0
  <2> DEFINE d == Data(m, req.from, req.chunk, IF unread THEN "Nothing" ELSE content)
  <2>2. d \in Packet /\ d.from \in online /\ d.to \in online
    <3>1. req.chunk \in Chunks /\ req.from \in Clients /\ req.from \in online /\ m \in online
      BY <1>0, <2>1, PacketShape
    <3>2. content \in {"Right", "Wrong", "Nothing"}
      BY DEF Contents
    <3>3. (IF unread THEN "Nothing" ELSE content) \in {"Right", "Wrong", "Nothing"}
      BY <3>2
    <3>4. d \in Packet
      BY <1>5, <3>1, <3>3 DEF Packet
    <3> QED
      BY <3>1, <3>4 DEF Data
  <2> HIDE DEF d
  <2>3. net' \subseteq net \cup {d} /\ left' \in Nat
    BY <1>0, <2>1, FailsLeft DEF d
  <2>4. Told'
    BY <2>1, <1>t
  <2> QED
    BY <1>0, <1>r, <1>s, <1>u, <2>1, <2>2, <2>3, <2>4, InvKeptSame
<1>6. ASSUME NEW n \in Clients, OnChunk(n) PROVE Inv'
  <2>1. PICK data \in net, unwritten \in BOOLEAN :
            /\ data.type = "Data" /\ data.to = n /\ data.chunk \in Chunks
            /\ FailsIf("WriteError", unwritten)
            /\ UNCHANGED <<online, needed, status, setting>>
            /\ file' = IF res[n].loading /\ ~unwritten
                       THEN [file EXCEPT ![n] = Written(@, data)] ELSE file
            /\ \/ ~res[n].loading /\ UNCHANGED res /\ net' = net \ {data}
               \/ /\ res[n].loading /\ n # Source
                  /\ LET a == Added(res[n], data.chunk, unwritten) IN
                     \/ /\ a.chunks = Chunks /\ res' = [res EXCEPT ![n] = EndLoad(a)]
                        /\ net' = net \ {data}
                     \/ /\ a.chunks # Chunks
                        /\ \E x, L : /\ Continues(n, a, x, L)
                                     /\ net' = (net \ {data}) \cup RequestsFor(n, L)
    BY <1>6, OnChunkEffect
  <2>2. left' \in Nat /\ Told'
    BY <1>0, <2>1, FailsLeft, <1>t
  <2>3. Written(file[n], data) \in SUBSET Chunks
    <3>1. data.content \in {"Right", "Wrong", "Nothing"} /\ file[n] \in SUBSET Chunks
      BY <1>0, <2>1, PacketShape
    <3>2. CASE data.content = "Right"
      BY <2>1, <3>1, <3>2 DEF Written
    <3>3. CASE data.content = "Wrong"
      BY <2>1, <3>1, <3>3 DEF Written
    <3>4. CASE data.content = "Nothing"
      BY <2>1, <3>1, <3>4 DEF Written
    <3> QED
      BY <3>1, <3>2, <3>3, <3>4
  <2>4. file' \in [Clients -> SUBSET Chunks] /\ \A m \in Clients \ {n} : file'[m] = file[m]
    BY <1>0, <2>1, <2>3
  <2>5. CASE ~res[n].loading /\ UNCHANGED res /\ net' = net \ {data}
    <3>1. file' = file
      BY <2>1, <2>5
    <3> QED
      BY <1>0, <1>r, <1>s, <1>u, <2>1, <2>2, <2>5, <3>1, InvKeptSame
  <2>6. CASE res[n].loading /\ n # Source
    <3> DEFINE a == Added(res[n], data.chunk, unwritten)
    <3>1. /\ a.chunks # Chunks => Well(a)
          /\ a.chunks = Chunks => EndLoad(a) \in Resource /\ Well(EndLoad(a))
      BY <1>r, <2>1, <2>6, AddedWell DEF Inv
    <3>a. a \in Resource /\ a.listed
      BY <1>r, <2>1, <2>6, AddedWell DEF Inv
    <3> HIDE DEF a
    <3>2. CASE a.chunks = Chunks /\ res' = [res EXCEPT ![n] = EndLoad(a)] /\ net' = net \ {data}
      <4>1. EndLoad(a).listed
        BY <3>a DEF EndLoad, Resource
      <4> QED
        BY <1>0, <1>r, <1>s, <1>u, <2>1, <2>2, <2>4, <2>6, <3>1, <3>2, <4>1, InvKept
    <3>3. ASSUME NEW x, NEW L, Continues(n, a, x, L), net' = (net \ {data}) \cup RequestsFor(n, L)
          PROVE  Inv'
      <4>1. x \in Resource /\ Well(x) /\ res' = [res EXCEPT ![n] = x] /\ x.listed
        BY <3>a, <3>3 DEF Continues, Begins, Resource
      <4>2. n \in online
        BY <1>0, <2>1
      <4>3. RequestsFor(n, L) \subseteq Packet /\ \A p \in RequestsFor(n, L) : p.from \in online /\ p.to \in online
        BY <3>3, <4>2, RequestsGood
      <4>4. net' \subseteq Packet /\ \A p \in net' : p.from \in online /\ p.to \in online
        BY <1>0, <3>3, <4>3
      <4> QED
        BY <1>0, <1>r, <1>s, <1>u, <2>1, <2>2, <2>4, <2>6, <4>1, <4>4, InvKept
    <3> QED
      BY <2>1, <2>6, <3>2, <3>3 DEF a
  <2> QED
    BY <2>1, <2>5, <2>6
<1>7. ASSUME NEW n \in Clients, LoadTimeout(n) PROVE Inv'
  <2>1. /\ n \in online /\ n # Source /\ res[n].loading
        /\ UNCHANGED <<file, online, needed, status, setting>>
    BY <1>7, LoadTimeoutEffect
  <2>2. PICK loads \in SUBSET res[n].loads :
            /\ FailsIf("Stall", \E load \in loads : ~Lost(n, load))
            /\ \E x, L : /\ Continues(n, RemoveLoads(res[n], loads), x, L)
                         /\ net' = net \cup RequestsFor(n, L)
    BY <1>7, LoadTimeoutEffect
  <2>3. PICK x, L : Continues(n, RemoveLoads(res[n], loads), x, L) /\ net' = net \cup RequestsFor(n, L)
    BY <2>2
  <2>4. left' \in Nat /\ Told'
    BY <1>0, <2>1, <2>2, FailsLeft, <1>t
  <2>5. x \in Resource /\ Well(x) /\ res' = [res EXCEPT ![n] = x] /\ x.listed
    <3>1. RemoveLoads(res[n], loads).listed
      BY <1>r, <2>1 DEF RemoveLoads, Resource, Well
    <3> QED
      BY <2>3, <3>1 DEF Continues, Begins, Resource
  <2>6. RequestsFor(n, L) \subseteq Packet /\ \A p \in RequestsFor(n, L) : p.from \in online /\ p.to \in online
    BY <2>1, <2>3, RequestsGood
  <2>7. net' \subseteq Packet /\ \A p \in net' : p.from \in online /\ p.to \in online
    BY <1>0, <2>3, <2>6
  <2> QED
    BY <1>0, <1>r, <1>s, <1>u, <2>1, <2>4, <2>5, <2>7, InvKept
<1>8. ASSUME NEW n \in Clients, NEW x, x = [res[n] EXCEPT !.removed = TRUE],
             res[n].listed, res' = [res EXCEPT ![n] = x],
             UNCHANGED <<setting, online, file, status, net>>, left' \in Nat, needed' \subseteq needed
      PROVE  Inv'
  <2>1. /\ x \in Resource /\ x.listed = res[n].listed /\ x.loading = res[n].loading
        /\ x.chunks = res[n].chunks /\ x.loads = res[n].loads /\ x.clients = res[n].clients
    BY <1>r, <1>8 DEF Resource
  <2>2. Well(x)
    BY <1>r, <1>8, <2>1, SameWell DEF Inv
  <2>3. Told'
    BY <1>8, <1>t
  <2>4. ASSUME n = Source PROVE OfSource(x) /\ file'[n] = Chunks
    BY <1>8, <2>4, SourceFields DEF Inv, Connected
  <2> QED
    BY <1>0, <1>r, <1>s, <1>u, <1>8, <2>1, <2>2, <2>3, <2>4, InvKept
<1>9. ASSUME NEW n \in Clients, DiscoverTimeout(n) PROVE Inv'
  <2>1. /\ res' = [res EXCEPT ![n] = [res[n] EXCEPT !.removed = TRUE]] /\ res[n].listed
        /\ UNCHANGED <<file, online, needed, status, net, setting>>
    BY <1>r, <1>9 DEF DiscoverTimeout, Loading, Well
  <2>2. left' \in Nat
    BY <1>0, <1>9, FailsLeft DEF DiscoverTimeout
  <2> QED
    BY <1>0, <1>8, <2>1, <2>2
<1>10. ASSUME NEW n \in Clients, RemoveRes(n) PROVE Inv'
  <2>1. /\ res' = [res EXCEPT ![n] = [res[n] EXCEPT !.removed = TRUE]] /\ res[n].listed
        /\ UNCHANGED <<file, online, status, net, left, setting>> /\ needed' \subseteq needed
    BY <1>0, <1>10 DEF RemoveRes, Inv, Types
  <2> QED
    BY <1>0, <1>8, <2>1
<1>d. ASSUME RemoveDynamic PROVE Inv'
  <2>1. /\ res' = [res EXCEPT ![Source] = [res[Source] EXCEPT !.removed = TRUE]] /\ res[Source].listed
        /\ UNCHANGED <<file, online, needed, status, net, left, setting>>
    BY <1>0, <1>r, <1>d, SourceIdle DEF RemoveDynamic
  <2> QED
    BY <1>0, <1>8, <2>1, SourceIdle
<1>11. ASSUME NEW n \in Clients, OnShareFree(n) PROVE Inv'
  <2>1. /\ res' = [res EXCEPT ![n] = NoRes] /\ file' = [file EXCEPT ![n] = {}]
        /\ UNCHANGED <<online, needed, status, net, setting>>
    BY <1>11 DEF OnShareFree
  <2>2. left' \in Nat /\ Told'
    BY <1>0, <1>11, <2>1, FailsLeft, <1>t DEF OnShareFree
  <2>3. NoRes \in Resource /\ Well(NoRes) /\ OfSource(NoRes) /\ ~NoRes.listed
    <3>1. <<>> \in [{} -> SUBSET Chunks] /\ DOMAIN <<>> = {}
      OBVIOUS
    <3>2. <<>> \in UNION {[S -> SUBSET Chunks] : S \in SUBSET Clients}
      BY <3>1
    <3>3. NoRes \in Resource
      BY <3>2 DEF NoRes, Resource
    <3>4. WithinLimits(NoRes)
      BY <1>r, FewerLoads, ClientsAssumption DEF NoRes, Well, Inv
    <3> QED
      BY <3>1, <3>3, <3>4 DEF NoRes, Well, OfSource
  <2> QED
    BY <1>0, <1>r, <1>s, <1>u, <2>1, <2>2, <2>3, InvKept
<1>12. ASSUME NEW n \in Clients, Leave(n) PROVE Inv'
  <2>1. /\ online' = online \ {n} /\ net' = {packet \in net : n \notin {packet.from, packet.to}}
        /\ status' = [m \in Clients |-> [l \in Clients |-> IF n \in {l, m} THEN <<>> ELSE status[m][l]]]
        /\ UNCHANGED <<res, file, needed, setting>> /\ left' \in Nat
    BY <1>0, <1>12 DEF Leave, Fails
  <2>2. /\ Chunks' = Chunks /\ Resource' = Resource /\ Packet' = Packet /\ SetByFile' = SetByFile
    BY <2>1, SameTypes
  <2>3. status' \in [Clients -> [Clients -> Seq(SUBSET Chunks)]]
    BY <1>s, <2>1
  <2>4. Types'
    BY <2>1, <2>2, <2>3 DEF Inv, Types
  <2>5. ASSUME NEW m \in Clients PROVE Well(res[m])'
    BY <1>r, <2>1, <2>2 DEF Well, WithinLimits, LoadsAt
  <2>6. Told'
    <3> SUFFICES ASSUME NEW m \in Clients, NEW l \in Clients
                 PROVE  /\ Len(status'[m][l]) <= 1
                        /\ status'[m][l] # <<>> => m \in online' /\ l \in online' /\ m # l
      BY DEF Told
    <3>1. status'[m][l] = IF n \in {l, m} THEN <<>> ELSE status[m][l]
      BY <2>1
    <3> QED
      BY <1>0, <2>1, <3>1 DEF Told
  <2>7. Connected'
    BY <1>0, <2>1, <2>2, <2>6 DEF Inv, Connected, OfSource
  <2> QED
    BY <2>4, <2>5, <2>7 DEF Inv
<1>13. ASSUME NEW n \in Clients, NEW m \in Clients, OnDiscover(m, n) PROVE Inv'
  <2>1. /\ status' = [status EXCEPT ![n][m] = <<res[m].chunks>>] /\ m \in online /\ n \in online /\ n # m
        /\ UNCHANGED <<res, file, online, needed, net, left, setting>>
    BY <1>13 DEF OnDiscover, Loading, Others
  <2>2. res[m].chunks \in SUBSET Chunks
    BY <1>r DEF Resource
  <2>3. status' \in [Clients -> [Clients -> Seq(SUBSET Chunks)]]
    BY <1>s, <2>1, <2>2
  <2>4. Told'
    BY <1>0, <1>s, <2>1 DEF Told
  <2> QED
    BY <1>0, <1>r, <1>s, <1>u, <2>1, <2>3, <2>4, InvKeptSame
<1>14. ASSUME NEW n \in Clients, NEW m \in Clients, OnStatus(n, m) PROVE Inv'
  <2> DEFINE h == Hears(res[n], m, Head(status[n][m]))
  <2>1. /\ n \in online /\ m \in online /\ n # m /\ (n # Source \/ ~res[n].loading)
        /\ Head(status[n][m]) \in SUBSET Chunks
        /\ status' = [status EXCEPT ![n] = [status[n] EXCEPT ![m] = <<>>]]
        /\ UNCHANGED <<file, online, needed, left, setting>>
    BY <1>14, OnStatusEffect
  <2>e. \/ ~res[n].loading /\ UNCHANGED <<res, net>>
        \/ /\ res[n].loading
           /\ \E x, L : Continues(n, h, x, L) /\ net' = net \cup RequestsFor(n, L)
    BY <1>14, OnStatusEffect
  <2>2. status' \in [Clients -> [Clients -> Seq(SUBSET Chunks)]]
    BY <1>s, <2>1
  <2>3. Told'
    BY <1>0, <1>s, <2>1 DEF Told
  <2>4. CASE ~res[n].loading /\ UNCHANGED <<res, net>>
    BY <1>0, <1>r, <1>s, <1>u, <2>1, <2>2, <2>3, <2>4, InvKeptSame
  <2>5. ASSUME NEW x, NEW L, res[n].loading, Continues(n, h, x, L), net' = net \cup RequestsFor(n, L)
        PROVE  Inv'
    <3>1. h.listed
      BY <1>r, <2>1, <2>5, HeardWell DEF Inv, Well
    <3> HIDE DEF h
    <3>2. x \in Resource /\ Well(x) /\ res' = [res EXCEPT ![n] = x] /\ x.listed
      BY <2>5, <3>1 DEF Continues, Begins, Resource
    <3>3. RequestsFor(n, L) \subseteq Packet /\ \A p \in RequestsFor(n, L) : p.from \in online /\ p.to \in online
      BY <2>1, <2>5, RequestsGood
    <3>4. net' \subseteq Packet /\ \A p \in net' : p.from \in online /\ p.to \in online
      BY <1>0, <2>5, <3>3
    <3> QED
      BY <1>0, <1>r, <1>s, <1>u, <2>1, <2>2, <2>3, <2>5, <3>2, <3>4, InvKept
  <2> QED
    BY <2>e, <2>4, <2>5
<1> QED
  BY <1>1, <1>2, <1>3, <1>4, <1>5, <1>6, <1>7, <1>9, <1>10, <1>d, <1>11, <1>12, <1>13, <1>14
     DEF Next, DoLoad, AskAndAnswer

(* A resource that is not listed, or of the source, is well. *)
LEMMA FirstWell ==
    ASSUME setting \in Setting
    PROVE  /\ NoRes \in Resource /\ Well(NoRes)
           /\ SetByFile \in Resource /\ Well(SetByFile)
<1>1. <<>> \in [{} -> SUBSET Chunks] /\ DOMAIN <<>> = {}
  OBVIOUS
<1>2. <<>> \in UNION {[S -> SUBSET Chunks] : S \in SUBSET Clients}
  BY <1>1
<1>3. NoRes \in Resource
  BY <1>2 DEF NoRes, Resource
<1>4. SetByFile \in Resource
  BY <1>2 DEF NoRes, SetByFile, Resource
<1>5. /\ NoRes.loads = {} /\ ~NoRes.loading /\ ~NoRes.listed /\ NoRes.clients = <<>>
      /\ SetByFile.loads = {} /\ ~SetByFile.loading /\ SetByFile.listed /\ SetByFile.clients = <<>>
      /\ SetByFile.chunks = Chunks
  BY DEF NoRes, SetByFile
<1>6. ASSUME NEW r, r.loads = {} PROVE WithinLimits(r)
  <2>1. \A m \in Clients : {load \in r.loads : load.client = m} = {}
    BY <1>6
  <2> QED
    BY <1>6, <2>1, FS_EmptySet, LimitsAssumption DEF WithinLimits, LoadsAt
<1> QED
  BY <1>1, <1>3, <1>4, <1>5, <1>6 DEF Well

(* It holds at first. *)
LEMMA InitInv == Init => Inv
<1> SUFFICES ASSUME Init PROVE Inv
  OBVIOUS
<1>1. /\ setting \in Setting /\ left \in Nat /\ online \subseteq Clients /\ needed \subseteq Clients
      /\ net = {} /\ status = [m \in Clients |-> [n \in Clients |-> <<>>]]
      /\ res = [n \in Clients |-> IF n = Source THEN SetByFile ELSE NoRes]
      /\ file = [n \in Clients |-> IF n = Source THEN Chunks ELSE {}]
  BY SettingsAssumption DEF Init, Setting
<1>2. /\ NoRes \in Resource /\ Well(NoRes)
      /\ SetByFile \in Resource /\ Well(SetByFile)
  BY <1>1, FirstWell
<1>3. Types
  <2>1. status \in [Clients -> [Clients -> Seq(SUBSET Chunks)]]
    BY <1>1
  <2> QED
    BY <1>1, <1>2, <2>1 DEF Types
<1>4. \A n \in Clients : Well(res[n])
  BY <1>1, <1>2
<1>5. Told
  BY <1>1 DEF Told
<1>6. Connected
  <2>1. needed = setting.clients \ {Source}
    BY DEF Init
  <2> QED
    BY <1>1, <1>5, <2>1, ClientsAssumption DEF Connected, OfSource, NoRes, SetByFile
<1> QED
  BY <1>3, <1>4, <1>6 DEF Inv

(* Thus it always holds. *)
LEMMA AlwaysInv == Spec => []Inv
BY InitInv, NextInv, PTL DEF Spec

(* In every exchange what is being loaded is missing, loaded once, asked   *)
(* of clients that told what they have, and within the limits of the       *)
(* loads of a client and of those at each peer; and a resource is being    *)
(* loaded as long as it is listed and not complete.                        *)
THEOREM ResourceTypeCorrect == Spec => []TypeOK
<1>1. Inv => TypeOK
  <2> SUFFICES ASSUME Inv, NEW n \in Clients
               PROVE  LET r == res[n] IN
                      /\ {r.listed, r.loading, r.removed, r.dirty, r.discovering} \subseteq BOOLEAN
                      /\ r.chunks \subseteq Chunks /\ \A m \in DOMAIN r.clients : r.clients[m] \subseteq Chunks
                      /\ r.loading <=> r.listed /\ r.chunks # Chunks
                      /\ r.loads # {} => r.loading
                      /\ \A load \in r.loads :
                          load.client \in DOMAIN r.clients /\ load.chunk \in Chunks \ r.chunks
                      /\ \A l1, l2 \in r.loads : l1.chunk = l2.chunk => l1 = l2
                      /\ WithinLimits(r)
                      /\ file[n] \subseteq Chunks
                      /\ \A m \in Clients :
                            ToSet(status[n][m]) \subseteq SUBSET Chunks /\ Len(status[n][m]) <= 1
    BY DEF TypeOK, Inv, Types
  <2>1. res[n] \in Resource /\ Well(res[n]) /\ file[n] \in SUBSET Chunks
    BY DEF Inv, Types
  <2>2. ASSUME NEW m \in Clients
        PROVE  ToSet(status[n][m]) \subseteq SUBSET Chunks /\ Len(status[n][m]) <= 1
    <3>1. status[n][m] \in Seq(SUBSET Chunks) /\ Len(status[n][m]) <= 1
      BY DEF Inv, Types, Connected, Told
    <3> QED
      BY <3>1 DEF ToSet
  <2>3. \A load \in res[n].loads : load.chunk \in Chunks
    BY <2>1, ResourceFields DEF Load
  <2> QED
    BY <2>1, <2>2, <2>3, ResourceFields DEF Well
<1> QED
  BY <1>1, AlwaysInv, PTL

(* In every exchange, for any number of chunks, the operations on ranges   *)
(* do with the chunk data of a client what those on sets do: after a chunk *)
(* or several were added, wherever that is, the ranges are in order, each  *)
(* with a gap after it, and their lengths add up to the count; and the     *)
(* client chooses its next load from the chunks that the other one has,    *)
(* and it neither has nor loads.                                           *)
THEOREM RangesRightHolds == Spec => []RangesRight
<1>1. Inv => RangesRight
  <2> SUFFICES ASSUME Inv, NEW n \in online
               PROVE  LET S == res[n].chunks
                          Ranges(T) == RangesOf(setting.chunks, T)
                      IN  /\ \A k \in Chunks : \A i \in 1 .. setting.chunks - k :
                                AddChunkRange(Ranges(S), k, i) = Ranges(S \cup k .. k + i - 1)
                          /\ GetNegative(Ranges(S)) = Ranges(Chunks \ S)
                          /\ isComplete(Ranges(S)) <=> S = Chunks
                          /\ \A m \in DOMAIN res[n].clients :
                                ChunksToRetrieve(Ranges(S), Ranges(res[n].clients[m]), LoadingChunks(res[n]))
                                    = res[n].clients[m] \ (S \cup LoadingChunks(res[n]))
    BY DEF RangesRight
  <2> DEFINE N == setting.chunks  r == res[n]
  <2>1. N \in Nat /\ Chunks = 0 .. N - 1
    BY DEF Inv, Types, Setting, Chunks
  <2>2. r \in Resource
    BY DEF Inv, Types
  <2>3. r.chunks \in SUBSET Chunks /\ \A m \in DOMAIN r.clients : r.clients[m] \in SUBSET Chunks
    BY <2>2 DEF Resource
  <2>4. LoadingChunks(r) \in SUBSET Chunks
    BY <2>2 DEF Resource, Load, LoadingChunks
  <2> HIDE DEF N, r
  <2>5. /\ \A k \in 0 .. N - 1 : \A i \in 1 .. N - k :
              AddChunkRange(RangesOf(N, r.chunks), k, i) = RangesOf(N, r.chunks \cup k .. k + i - 1)
        /\ GetNegative(RangesOf(N, r.chunks)) = RangesOf(N, (0 .. N - 1) \ r.chunks)
        /\ isComplete(RangesOf(N, r.chunks)) <=> r.chunks = 0 .. N - 1
        /\ \A T, L \in SUBSET (0 .. N - 1) :
              ChunksToRetrieve(RangesOf(N, r.chunks), RangesOf(N, T), L) = T \ (r.chunks \cup L)
    BY <2>1, <2>3, RangesAsSets
  <2>6. \A m \in DOMAIN r.clients :
           ChunksToRetrieve(RangesOf(N, r.chunks), RangesOf(N, r.clients[m]), LoadingChunks(r))
               = r.clients[m] \ (r.chunks \cup LoadingChunks(r))
    BY <2>1, <2>3, <2>4, <2>5
  <2> QED
    BY <2>1, <2>5, <2>6 DEF N, r
<1> QED
  BY <1>1, AlwaysInv, PTL
-----------------------------------------------------------------------------
(* Whose a packet is, and for what load, does not change on its way. *)
LEMMA PacketOwner ==
    /\ \A n, m, k : Owner(Req(n, m, k)) = n /\ LoadOf(Req(n, m, k)) = [chunk |-> k, client |-> m]
    /\ \A n, m, k, c :
        Owner(Data(m, n, k, c)) = n /\ LoadOf(Data(m, n, k, c)) = [chunk |-> k, client |-> m]
    /\ \A p \in Packet : Owner(p) \in Clients /\ LoadOf(p) \in Load /\ LoadOf(p).chunk = p.chunk
<1>1. \A n, m, k : Owner(Req(n, m, k)) = n /\ LoadOf(Req(n, m, k)) = [chunk |-> k, client |-> m]
  BY DEF Owner, LoadOf, Req
<1>2. \A n, m, k, c :
        Owner(Data(m, n, k, c)) = n /\ LoadOf(Data(m, n, k, c)) = [chunk |-> k, client |-> m]
  BY DEF Owner, LoadOf, Data
<1>3. ASSUME NEW p \in Packet
      PROVE Owner(p) \in Clients /\ LoadOf(p) \in Load /\ LoadOf(p).chunk = p.chunk
  BY PacketShape DEF Owner, LoadOf, Load
<1> QED
  BY <1>1, <1>2, <1>3

(* A step of one client keeps what is known while it is calm, if its       *)
(* chunks do not get fewer and what it knows was said.                     *)
LEMMA CalmKept ==
    ASSUME Inv, Wanted, Heard, Known, online' = online,
           NEW n \in Clients, NEW x, res' = [res EXCEPT ![n] = x],
           res[n].chunks \subseteq x.chunks,
           x.loading => ~x.removed,
           \A k, l \in Clients : status'[k][l] \in {status[k][l], <<>>, <<res[l].chunks>>},
           \A m \in DOMAIN x.clients :
              /\ x.clients[m] \subseteq res[m].chunks /\ m \in Clients
              /\ status'[n][m] # <<>> => x.clients[m] \subseteq Head(status'[n][m]),
           \A load \in x.loads : load.chunk \in x.clients[load.client]
    PROVE  Wanted' /\ Heard' /\ Known'
<1>1. res'[n] = x /\ \A m \in Clients \ {n} : res'[m] = res[m]
  BY DEF Inv, Types
<1>2. \A m \in Clients : res[m].chunks \subseteq res'[m].chunks
  BY <1>1
<1>3. Wanted'
  BY <1>1 DEF Wanted
<1>4. Known'
  BY <1>1 DEF Known, Inv, Types
<1>5. ASSUME NEW k \in Clients, NEW l \in Clients, status'[k][l] # <<>>
      PROVE  /\ Head(status'[k][l]) \subseteq res'[l].chunks
             /\ k # n /\ k \in online /\ l \in DOMAIN res[k].clients
                  => res[k].clients[l] \subseteq Head(status'[k][l])
  <2>1. CASE status'[k][l] = status[k][l]
    BY <1>2, <1>5, <2>1 DEF Heard
  <2>2. CASE status'[k][l] = <<res[l].chunks>>
    <3>1. Head(status'[k][l]) = res[l].chunks
      BY <2>2
    <3> QED
      BY <1>2, <3>1 DEF Heard
  <2> QED
    BY <1>5, <2>1, <2>2
<1>6. ASSUME NEW k \in Clients, NEW l \in Clients, k \in online, l \in DOMAIN res'[k].clients
      PROVE  /\ res'[k].clients[l] \subseteq res'[l].chunks
             /\ status'[k][l] # <<>> => res'[k].clients[l] \subseteq Head(status'[k][l])
  <2>1. CASE k = n
    BY <1>1, <1>2, <1>6, <2>1
  <2>2. CASE k # n
    <3>1. res'[k] = res[k]
      BY <1>1, <2>2
    <3>2. res[k].clients[l] \subseteq res[l].chunks
      BY <1>6, <3>1 DEF Heard
    <3> QED
      BY <1>2, <1>5, <1>6, <2>2, <3>1, <3>2
  <2> QED
    BY <2>1, <2>2
<1>7. Heard'
  BY <1>5, <1>6 DEF Heard
<1> QED
  BY <1>3, <1>4, <1>7

(* What is requested for loads that begin is awaited, and nothing twice. *)
LEMMA RequestsAwaited ==
    ASSUME Inv, Awaited, Unique, NEW n \in Clients, n \in online, NEW r, NEW x, NEW L,
           Continues(n, r, x, L), NEW N \in SUBSET net, net' = N \cup RequestsFor(n, L),
           \A p \in N : Owner(p) = n => LoadOf(p) \in r.loads
    PROVE  Awaited' /\ Unique'
<1>1. res'[n] = x /\ \A m \in Clients \ {n} : res'[m] = res[m]
  BY DEF Inv, Types, Continues
<1>2. x.loads = r.loads \cup L
  BY DEF Continues, Begins
<1>3. \A p \in N : p \in Packet /\ p \in net
  BY DEF Inv, Types
<1>4. \A p \in RequestsFor(n, L) : Owner(p) = n /\ LoadOf(p) \in L /\ p = Req(n, p.to, p.chunk)
  <2> SUFFICES ASSUME NEW p \in RequestsFor(n, L)
               PROVE  Owner(p) = n /\ LoadOf(p) \in L /\ p = Req(n, p.to, p.chunk)
    OBVIOUS
  <2>1. p \in Packet /\ p.from = n /\ p.type = "Req" /\ LoadOf(p) \in L
    BY RequestsGood
  <2> QED
    BY <2>1, PacketShape DEF Owner
<1>5. Awaited'
  <2> SUFFICES ASSUME NEW p \in net' PROVE LoadOf(p) \in res'[Owner(p)].loads
    BY DEF Awaited, LoadOf, Owner
  <2>1. CASE p \in N
    <3>1. Owner(p) \in Clients /\ LoadOf(p) \in res[Owner(p)].loads
      BY <1>3, <2>1, PacketOwner DEF Awaited
    <3> QED
      BY <1>1, <1>2, <2>1, <3>1
  <2>2. CASE p \in RequestsFor(n, L)
    BY <1>1, <1>2, <1>4, <2>2
  <2> QED
    BY <2>1, <2>2
<1>6. ASSUME NEW p \in N, NEW q \in RequestsFor(n, L), Owner(p) = Owner(q) PROVE p.chunk # q.chunk
  <2>1. LoadOf(p) \in r.loads /\ LoadOf(q) \in L
    BY <1>4, <1>6
  <2>2. LoadOf(p).chunk # LoadOf(q).chunk
    BY <2>1 DEF Continues, Begins
  <2> QED
    BY <2>2 DEF LoadOf
<1>7. ASSUME NEW p \in RequestsFor(n, L), NEW q \in RequestsFor(n, L), p.chunk = q.chunk PROVE p = q
  <2>1. LoadOf(p) \in L /\ LoadOf(q) \in L /\ p = Req(n, p.to, p.chunk) /\ q = Req(n, q.to, q.chunk)
    BY <1>4
  <2>2. p.type = "Req" /\ q.type = "Req"
    BY <2>1 DEF Req
  <2>3. /\ LoadOf(p) = [chunk |-> p.chunk, client |-> p.to]
        /\ LoadOf(q) = [chunk |-> q.chunk, client |-> q.to]
    BY <2>2 DEF LoadOf
  <2>4. LoadOf(p) = LoadOf(q)
    BY <1>7, <2>1, <2>3 DEF Continues, Begins
  <2>5. p.to = q.to
    BY <2>3, <2>4
  <2> QED
    BY <1>7, <2>1, <2>5
<1>8. Unique'
  <2> SUFFICES ASSUME NEW p \in net', NEW q \in net', Owner(p) = Owner(q), p.chunk = q.chunk
               PROVE  p = q
    BY DEF Unique, Owner
  <2>1. CASE p \in N /\ q \in N
    BY <1>3, <2>1 DEF Unique
  <2> QED
    BY <1>6, <1>7, <2>1
<1> QED
  BY <1>5, <1>8

(* The same if no resource changes. *)
LEMMA CalmKeptSame ==
    ASSUME Inv, Wanted, Heard, Known, online' = online, res' = res,
           \A k, l \in Clients : status'[k][l] \in {status[k][l], <<>>, <<res[l].chunks>>}
    PROVE  Wanted' /\ Heard' /\ Known'
<1>1. /\ Source \in Clients /\ res' = [res EXCEPT ![Source] = res[Source]]
      /\ res[Source].loads = {} /\ ~res[Source].loading /\ DOMAIN res[Source].clients = {}
  BY SourceIdle DEF Inv, Types, Well
<1> QED
  BY <1>1, CalmKept

(* What is awaited does not change with the loads unless packets come. *)
LEMMA AwaitedSame ==
    ASSUME Inv, Awaited, Unique, net' \subseteq net,
           \A m \in Clients : res'[m].loads = res[m].loads
    PROVE  Awaited' /\ Unique'
<1>1. \A p \in net : Owner(p) \in Clients
  BY PacketOwner DEF Inv, Types
<1> QED
  BY <1>1 DEF Awaited, Unique, Owner, LoadOf

(* The game stays the same, and nobody comes back. *)
LEMMA Shrinks == [Next]_vars => setting' = setting /\ online' \subseteq online
<1> SUFFICES ASSUME [Next]_vars PROVE setting' = setting /\ online' \subseteq online
  OBVIOUS
<1>1. ASSUME NEW n \in Clients, AddByCore(n) \/ SendDiscover(n) \/ SendStatus(n) \/ RemoveRes(n) \/ RemoveDynamic \/ Leave(n)
      PROVE  setting' = setting /\ online' \subseteq online
  BY <1>1 DEF AddByCore, SendDiscover, SendStatus, RemoveRes, RemoveDynamic, Leave
<1>2. ASSUME NEW n \in Clients, OnRequest(n) \/ OnChunk(n) \/ OnShareFree(n)
      PROVE  setting' = setting /\ online' \subseteq online
  BY <1>2 DEF OnRequest, OnChunk, OnShareFree
<1>3. ASSUME NEW n \in Clients, DoLoad(n) PROVE setting' = setting /\ online' \subseteq online
  BY <1>3 DEF DoLoad, LoadTimeout, DiscoverTimeout
<1>4. ASSUME NEW n \in Clients, NEW m \in Clients, AskAndAnswer(n, m)
      PROVE  setting' = setting /\ online' \subseteq online
  BY <1>4 DEF AskAndAnswer, OnDiscover, OnStatus
<1>5. CASE UNCHANGED vars
  BY <1>5 DEF vars
<1> QED
  BY <1>1, <1>2, <1>3, <1>4, <1>5 DEF Next

(* When it is calm nothing is too early: nobody that loads gives up, a     *)
(* resource is dropped only when nobody will ask for it, and a load times  *)
(* out only when its packet is lost.                                       *)
LEMMA CalmFails ==
    ASSUME Inv, CalmInv, Calm, NEW n \in Clients
    PROVE  /\ ~DiscoverTimeout(n)
           /\ OnShareFree(n) => Unasked(n)
           /\ \A c \in BOOLEAN : FailsIf("Stall", c) => ~c
<1>1. \A c \in BOOLEAN : FailsIf("Stall", c) => ~c
  BY DEF Calm, FailsIf, Fails
<1>2. Source \in online /\ ~res[Source].loading /\ Gone
  BY SourceIdle DEF Calm, CalmInv
<1>3. ~DiscoverTimeout(n)
  <2> SUFFICES ASSUME DiscoverTimeout(n) PROVE FALSE
    OBVIOUS
  <2> DEFINE c == ~Quiet(n) \/ \E m \in Others(n) : res[m].listed
  <2>1. FailsIf("Stall", c) /\ n # Source /\ n \in online /\ res[n].loading
    BY <1>2 DEF DiscoverTimeout, Loading
  <2>2. c
    BY <1>2, <2>1 DEF Others, Gone
  <2> HIDE DEF c
  <2> QED
    BY <1>1, <2>1, <2>2
<1>4. ASSUME OnShareFree(n) PROVE Unasked(n)
  <2> DEFINE c == ~Unasked(n)
  <2>1. FailsIf("Stall", c)
    BY <1>4 DEF OnShareFree
  <2>2. c \in BOOLEAN
    BY DEF c, Unasked
  <2>3. ~c
    <3> HIDE DEF c
    <3> QED
      BY <1>1, <2>1, <2>2
  <2> QED
    BY <2>3
<1> QED
  BY <1>1, <1>3, <1>4

(* When it is calm and somebody drops the resource nobody there loads it,  *)
(* so nothing of it is on its way.                                         *)
LEMMA CalmFree ==
    ASSUME Inv, CalmInv, Calm, NEW n \in Clients, OnShareFree(n)
    PROVE  /\ n \in online /\ res' = [res EXCEPT ![n] = NoRes]
           /\ UNCHANGED <<online, needed, status>> /\ net = {} /\ net' = {}
           /\ \A m \in online : ~res[m].loading /\ res[m].loads = {} /\ DOMAIN res[m].clients = {}
           /\ \A m \in Clients : status[m][n] = <<>> /\ status[n][m] = <<>>
           /\ n = Source => \A m \in online : m \notin needed
<1>1. /\ n \in online /\ res' = [res EXCEPT ![n] = NoRes] /\ res[n].removed
      /\ UNCHANGED <<online, needed, status, net>> /\ Unasked(n)
  BY CalmFails DEF OnShareFree
<1>2. Wanted /\ Awaited /\ Retired /\ online \subseteq Clients /\ net \subseteq Packet /\ Told
  BY DEF CalmInv, Inv, Types, Connected
<1>3. ASSUME NEW m \in online
      PROVE  ~res[m].loading /\ res[m].loads = {} /\ DOMAIN res[m].clients = {}
  <2>1. Well(res[m]) /\ m \in Clients
    BY <1>2 DEF Inv
  <2>2. CASE res[m].removed
    BY <1>2, <2>1, <2>2 DEF Wanted, Well
  <2>3. CASE ~res[m].removed
    <3>1. ~res[m].listed
      BY <1>1, <2>3 DEF Unasked, Others
    <3> QED
      BY <2>1, <3>1 DEF Well
  <2> QED
    BY <2>2, <2>3
<1>4. net = {}
  <2> SUFFICES ASSUME NEW p \in net PROVE FALSE
    OBVIOUS
  <2>1. p.from \in online /\ p.to \in online
    BY DEF Inv, Connected
  <2>2. Owner(p) \in online /\ LoadOf(p) \in res[Owner(p)].loads
    BY <1>2, <2>1 DEF Awaited, Owner
  <2> QED
    BY <1>3, <2>2
<1>5. \A m \in Clients : status[m][n] = <<>> /\ status[n][m] = <<>>
  BY <1>1, <1>2 DEF Unasked, Quiet, Others, Told
<1>6. ASSUME n = Source, NEW m \in online PROVE m \notin needed
  <2>1. m \in Clients /\ Source \notin needed
    BY <1>2, SourceIdle
  <2>2. CASE m # Source
    BY <1>1, <1>2, <1>6, <2>1, <2>2 DEF Unasked, Others, Retired
  <2> QED
    BY <2>1, <2>2
<1> QED
  BY <1>1, <1>3, <1>4, <1>5, <1>6

(* Who has removed the resource needs it no more, and it is not gone too   *)
(* early.                                                                  *)
LEMMA NextServed ==
    ASSUME Inv, CalmInv, Calm, [Next]_vars
    PROVE  Retired' /\ Gone'
<1>0. /\ Retired /\ Gone /\ online \subseteq Clients
      /\ Source \in Clients /\ Source \notin needed /\ ~res[Source].loading
      /\ \A n \in Clients : res[n] \in Resource /\ Well(res[n])
  BY SourceIdle DEF CalmInv, Inv, Types
<1>1. ASSUME UNCHANGED <<res, needed>>, online' \subseteq online PROVE Retired' /\ Gone'
  BY <1>0, <1>1 DEF Retired, Gone

(* A step of one client that removes nothing needed and loads only what is *)
(* needed, or was loaded already.                                          *)
<1>2. ASSUME NEW n \in Clients, NEW x, res' = [res EXCEPT ![n] = x],
             online' = online, needed' \subseteq needed,
             n # Source => (x.removed => res[n].removed \/ n \notin needed'),
             x.loading => n \in online /\ (res[n].loading \/ n \in needed),
             n = Source => x.listed = res[n].listed
      PROVE  Retired' /\ Gone'
  <2>1. res'[n] = x /\ \A m \in Clients \ {n} : res'[m] = res[m]
    BY <1>2 DEF Inv, Types
  <2>2. Retired'
    BY <1>0, <1>2, <2>1 DEF Retired
  <2>3. Gone'
    BY <1>0, <1>2, <2>1 DEF Gone
  <2> QED
    BY <2>2, <2>3
<1>3. ASSUME NEW n \in Clients, n # Source, n \in online, res[n].loading, NEW r, NEW x, NEW L,
             Continues(n, r, x, L), r.removed = res[n].removed, UNCHANGED <<online, needed>>
      PROVE  Retired' /\ Gone'
  <2>1. x.removed = r.removed /\ res' = [res EXCEPT ![n] = x]
    BY <1>3 DEF Continues, Begins, Resource
  <2> QED
    BY <1>2, <1>3, <2>1
<1>4. CASE UNCHANGED vars
  BY <1>1, <1>4 DEF vars
<1>5. ASSUME NEW n \in Clients, AddByCore(n) PROVE Retired' /\ Gone'
  <2>1. n \in online /\ n \in needed /\ res' = [res EXCEPT ![n] = SetLoad] /\ UNCHANGED <<online, needed>>
    BY <1>5 DEF AddByCore
  <2>2. n # Source /\ ~SetLoad.removed
    BY <1>0, <2>1 DEF SetLoad, NoRes
  <2> QED
    BY <1>2, <2>1, <2>2
<1>6. ASSUME NEW n \in Clients, SendDiscover(n) PROVE Retired' /\ Gone'
  <2> DEFINE x == [res[n] EXCEPT !.discovering = TRUE]
  <2>1. n \in online /\ res[n].loading /\ res' = [res EXCEPT ![n] = x] /\ UNCHANGED <<online, needed>>
    BY <1>6 DEF SendDiscover, Loading
  <2>2. x.removed = res[n].removed /\ x.listed = res[n].listed
    BY <1>0 DEF Resource
  <2> HIDE DEF x
  <2> QED
    BY <1>2, <2>1, <2>2
<1>7. ASSUME NEW n \in Clients, SendStatus(n) PROVE Retired' /\ Gone'
  <2> DEFINE x == [res[n] EXCEPT !.dirty = FALSE]
  <2>1. n \in online /\ res' = [res EXCEPT ![n] = x] /\ UNCHANGED <<online, needed>>
    BY <1>7 DEF SendStatus
  <2>2. x.removed = res[n].removed /\ x.listed = res[n].listed /\ x.loading = res[n].loading
    BY <1>0 DEF Resource
  <2> HIDE DEF x
  <2> QED
    BY <1>2, <2>1, <2>2
<1>8. ASSUME NEW n \in Clients, RemoveRes(n) \/ RemoveDynamic PROVE Retired' /\ Gone'
  <2>1. PICK m \in Clients :
            /\ m \in online /\ res' = [res EXCEPT ![m] = [res[m] EXCEPT !.removed = TRUE]]
            /\ online' = online /\ needed' \subseteq needed /\ (m # Source => m \notin needed')
    BY <1>0, <1>8 DEF RemoveRes, RemoveDynamic
  <2> DEFINE x == [res[m] EXCEPT !.removed = TRUE]
  <2>2. x.listed = res[m].listed /\ x.loading = res[m].loading
    BY <1>0 DEF Resource
  <2>3. res' = [res EXCEPT ![m] = x]
    BY <2>1
  <2> HIDE DEF x
  <2> QED
    BY <1>2, <2>1, <2>2, <2>3
<1>9. ASSUME NEW n \in Clients, OnShareFree(n) PROVE Retired' /\ Gone'
  <2>1. /\ res' = [res EXCEPT ![n] = NoRes] /\ UNCHANGED <<online, needed>>
        /\ \A m \in online : ~res[m].loading
        /\ n = Source => \A m \in online : m \notin needed
    BY <1>9, CalmFree
  <2>2. ~NoRes.removed /\ ~NoRes.loading
    BY DEF NoRes
  <2>3. res'[n] = NoRes /\ \A m \in Clients \ {n} : res'[m] = res[m]
    BY <2>1 DEF Inv, Types
  <2>4. Retired'
    BY <1>0, <2>1, <2>2, <2>3 DEF Retired
  <2>5. Gone'
    BY <1>0, <2>1, <2>2, <2>3 DEF Gone
  <2> QED
    BY <2>4, <2>5
<1>10. ASSUME NEW n \in Clients, Leave(n) \/ OnRequest(n) PROVE Retired' /\ Gone'
  BY <1>1, <1>10 DEF Leave, OnRequest
<1>11. ASSUME NEW n \in Clients, NEW m \in Clients, OnDiscover(m, n) PROVE Retired' /\ Gone'
  BY <1>1, <1>11 DEF OnDiscover
<1>12. ASSUME NEW n \in Clients, NEW m \in Clients, OnStatus(n, m) PROVE Retired' /\ Gone'
  <2> DEFINE h == Hears(res[n], m, Head(status[n][m]))
  <2>1. n \in online /\ UNCHANGED <<online, needed>> /\ (n # Source \/ ~res[n].loading)
    BY <1>12, OnStatusEffect
  <2>2. CASE UNCHANGED res
    BY <1>1, <2>1, <2>2
  <2>3. ASSUME NEW x, NEW L, res[n].loading, Continues(n, h, x, L) PROVE Retired' /\ Gone'
    <3>1. h.removed = res[n].removed
      BY <1>0 DEF Hears, Resource
    <3> HIDE DEF h
    <3> QED
      BY <1>3, <2>1, <2>3, <3>1
  <2> QED
    BY <1>12, <2>2, <2>3, OnStatusEffect
<1>13. ASSUME NEW n \in Clients, LoadTimeout(n) PROVE Retired' /\ Gone'
  <2>1. n \in online /\ n # Source /\ res[n].loading /\ UNCHANGED <<online, needed>>
    BY <1>13, LoadTimeoutEffect
  <2>2. PICK loads \in SUBSET res[n].loads :
            \E x, L : Continues(n, RemoveLoads(res[n], loads), x, L)
    BY <1>13, LoadTimeoutEffect
  <2> DEFINE a == RemoveLoads(res[n], loads)
  <2>3. PICK x, L : Continues(n, a, x, L)
    BY <2>2
  <2>4. a.removed = res[n].removed
    BY <1>0 DEF RemoveLoads, Resource
  <2> HIDE DEF a
  <2> QED
    BY <1>3, <2>1, <2>3, <2>4
<1>14. ASSUME NEW n \in Clients, OnChunk(n) PROVE Retired' /\ Gone'
  <2>1. PICK data \in net, unwritten \in BOOLEAN :
            /\ data.to = n /\ data.chunk \in Chunks
            /\ UNCHANGED <<online, needed>>
            /\ \/ ~res[n].loading /\ UNCHANGED res
               \/ /\ res[n].loading /\ n # Source
                  /\ LET a == Added(res[n], data.chunk, unwritten) IN
                     \/ res' = [res EXCEPT ![n] = EndLoad(a)]
                     \/ \E x, L : Continues(n, a, x, L)
    BY <1>14, OnChunkEffect
  <2>2. CASE UNCHANGED res
    BY <1>1, <2>1, <2>2
  <2> DEFINE a == Added(res[n], data.chunk, unwritten)
  <2>3. CASE res[n].loading /\ n # Source
    <3>1. a \in Resource /\ a.removed = res[n].removed /\ n \in online
      BY <1>0, <2>1, <2>3, AddedWell DEF Inv, Connected
    <3> HIDE DEF a
    <3>2. CASE res' = [res EXCEPT ![n] = EndLoad(a)]
      <4> DEFINE e == EndLoad(a)
      <4>1. e.removed = res[n].removed /\ e.loading = FALSE
        BY <3>1 DEF EndLoad, Resource
      <4>2. res' = [res EXCEPT ![n] = e]
        BY <3>2
      <4> HIDE DEF e
      <4> QED
        BY <1>2, <2>1, <2>3, <4>1, <4>2
    <3>3. ASSUME NEW x, NEW L, Continues(n, a, x, L) PROVE Retired' /\ Gone'
      BY <1>3, <2>1, <2>3, <3>1, <3>3
    <3> QED
      BY <2>1, <2>3, <3>2, <3>3 DEF a
  <2> QED
    BY <2>1, <2>2, <2>3
<1> QED
  BY <1>4, <1>5, <1>6, <1>7, <1>8, <1>9, <1>10, <1>11, <1>12, <1>13, <1>14, CalmFails
     DEF Next, DoLoad, AskAndAnswer

(* Every step keeps what holds while it is calm. *)
LEMMA NextCalm == Inv /\ CalmInv /\ [Next]_vars => CalmInv'
<1>s. ASSUME Calm, CalmInv, Inv, [Next]_vars PROVE Retired' /\ Gone'
  BY <1>s, NextServed
<1>c. Calm' /\ [Next]_vars => Calm
  BY Shrinks DEF Calm
<1> SUFFICES ASSUME Inv, CalmInv, [Next]_vars, Calm'
             PROVE  Wanted' /\ Heard' /\ Known' /\ Awaited' /\ Unique'
  BY <1>s, <1>c DEF CalmInv
<1>0. /\ Calm /\ Wanted /\ Heard /\ Awaited /\ Unique /\ Known
  BY Shrinks DEF Calm, CalmInv
<1>r. \A n \in Clients : res[n] \in Resource /\ Well(res[n]) /\ (~res[n].listed => res[n] = NoRes)
  BY DEF Inv, Types, Well
<1>p. net \subseteq Packet /\ \A packet \in net : packet.from \in online /\ packet.to \in online
  BY DEF Inv, Types, Connected
<1>o. \A p \in net : Owner(p) \in Clients /\ LoadOf(p) \in res[Owner(p)].loads
  BY <1>0, <1>p, PacketOwner DEF Awaited
<1>h. \A n, m \in Clients : n \in online /\ m \in DOMAIN res[n].clients =>
        /\ res[n].clients[m] \subseteq res[m].chunks
        /\ status[n][m] # <<>> => res[n].clients[m] \subseteq Head(status[n][m])
  BY <1>0 DEF Heard
<1>d. \A n \in Clients : DOMAIN res[n].clients \subseteq Clients
  BY <1>r, ResourceFields
<1>1. CASE UNCHANGED vars
  BY <1>0, <1>1, CalmKeptSame, AwaitedSame DEF vars

(* A step of one client that changes neither its loads nor what it knows.  *)
<1>2. ASSUME NEW n \in online, NEW x, res' = [res EXCEPT ![n] = x], online' = online, net' = net,
             x.loads = res[n].loads, x.clients = res[n].clients, x.chunks = res[n].chunks,
             x.loading => ~x.removed,
             \A k, l \in Clients : status'[k][l] \in {status[k][l], <<>>, <<res[l].chunks>>},
             \A m \in Clients : status'[n][m] = status[n][m]
      PROVE  Wanted' /\ Heard' /\ Known' /\ Awaited' /\ Unique'
  <2>1. n \in Clients
    BY DEF Inv, Types
  <2>2. \A load \in x.loads : load.chunk \in x.clients[load.client]
    BY <1>0, <1>2 DEF Known
  <2>3. \A m \in DOMAIN x.clients :
              /\ x.clients[m] \subseteq res[m].chunks /\ m \in Clients
              /\ status'[n][m] # <<>> => x.clients[m] \subseteq Head(status'[n][m])
    BY <1>2, <1>h, <1>d, <2>1
  <2>4. Wanted' /\ Heard' /\ Known'
    BY <1>0, <1>2, <2>1, <2>2, <2>3, CalmKept
  <2>5. \A m \in Clients : res'[m].loads = res[m].loads
    BY <1>2, <2>1 DEF Inv, Types
  <2> QED
    BY <1>0, <1>2, <2>4, <2>5, AwaitedSame
<1>3. ASSUME NEW n \in Clients, AddByCore(n) PROVE Wanted' /\ Heard' /\ Known' /\ Awaited' /\ Unique'
  <2>1. /\ n \in online /\ res' = [res EXCEPT ![n] = SetLoad] /\ online' = online /\ net' = net /\ status' = status
        /\ res[n] = NoRes
    BY <1>3, <1>r DEF AddByCore
  <2>2. /\ SetLoad.loads = NoRes.loads /\ SetLoad.clients = NoRes.clients
        /\ SetLoad.chunks = NoRes.chunks /\ ~SetLoad.removed
    BY DEF SetLoad, NoRes
  <2> QED
    BY <1>2, <2>1, <2>2
<1>4. ASSUME NEW n \in Clients, SendDiscover(n) PROVE Wanted' /\ Heard' /\ Known' /\ Awaited' /\ Unique'
  <2> DEFINE x == [res[n] EXCEPT !.discovering = TRUE]
  <2>1. n \in online /\ res' = [res EXCEPT ![n] = x] /\ online' = online /\ net' = net /\ status' = status
    BY <1>4 DEF SendDiscover, Loading
  <2>2. /\ x.loads = res[n].loads /\ x.clients = res[n].clients /\ x.chunks = res[n].chunks
        /\ x.loading = res[n].loading /\ x.removed = res[n].removed
    BY <1>r DEF Resource
  <2> HIDE DEF x
  <2>3. x.loading => ~x.removed
    BY <1>0, <2>2 DEF Wanted
  <2> QED
    BY <1>2, <2>1, <2>2, <2>3
<1>5. ASSUME NEW n \in Clients, SendStatus(n) PROVE Wanted' /\ Heard' /\ Known' /\ Awaited' /\ Unique'
  <2> DEFINE x == [res[n] EXCEPT !.dirty = FALSE]
  <2>1. n \in online /\ res' = [res EXCEPT ![n] = x] /\ online' = online /\ net' = net
    BY <1>5 DEF SendStatus
  <2>2. /\ x.loads = res[n].loads /\ x.clients = res[n].clients /\ x.chunks = res[n].chunks
        /\ x.loading = res[n].loading /\ x.removed = res[n].removed
    BY <1>r DEF Resource
  <2> HIDE DEF x
  <2>3. x.loading => ~x.removed
    BY <1>0, <2>2 DEF Wanted
  <2>4. status' = [m \in Clients |-> IF m \in Others(n) \ {Source}
                                    THEN [status[m] EXCEPT ![n] = <<res[n].chunks>>]
                                    ELSE status[m]]
    BY <1>5 DEF SendStatus
  <2>5. \A m \in Clients : status[m] \in [Clients -> Seq(SUBSET Chunks)]
    BY DEF Inv, Types
  <2>6. \A k, l \in Clients : status'[k][l] \in {status[k][l], <<>>, <<res[l].chunks>>}
    BY <2>4, <2>5
  <2>7. \A m \in Clients : status'[n][m] = status[n][m]
    BY <2>4 DEF Others
  <2> QED
    BY <1>2, <2>1, <2>2, <2>3, <2>6, <2>7
<1>6. ASSUME NEW m \in Clients, RemoveRes(m) \/ RemoveDynamic
      PROVE  Wanted' /\ Heard' /\ Known' /\ Awaited' /\ Unique'
  <2>1. PICK n \in online :
            /\ res' = [res EXCEPT ![n] = [res[n] EXCEPT !.removed = TRUE]]
            /\ online' = online /\ net' = net /\ status' = status
            /\ n \in Clients /\ ~res[n].loading
    BY <1>0, <1>6, SourceIdle DEF RemoveRes, RemoveDynamic, Calm
  <2> DEFINE x == [res[n] EXCEPT !.removed = TRUE]
  <2>2. /\ x.loads = res[n].loads /\ x.clients = res[n].clients /\ x.chunks = res[n].chunks
        /\ ~x.loading /\ res' = [res EXCEPT ![n] = x]
    BY <1>r, <2>1 DEF Resource
  <2> HIDE DEF x
  <2> QED
    BY <1>2, <2>1, <2>2
<1>f. ASSUME NEW n \in Clients, OnShareFree(n) PROVE Wanted' /\ Heard' /\ Known' /\ Awaited' /\ Unique'
  <2>1. /\ res' = [res EXCEPT ![n] = NoRes] /\ UNCHANGED <<online, status>> /\ net' = {}
        /\ \A m \in online : ~res[m].loading /\ res[m].loads = {} /\ DOMAIN res[m].clients = {}
        /\ \A m \in Clients : status[m][n] = <<>> /\ status[n][m] = <<>>
    BY <1>0, <1>f, CalmFree
  <2>2. ~NoRes.loading /\ NoRes.loads = {} /\ DOMAIN NoRes.clients = {}
    BY DEF NoRes
  <2>3. res'[n] = NoRes /\ \A m \in Clients \ {n} : res'[m] = res[m]
    BY <2>1 DEF Inv, Types
  <2>4. \A m \in online : res'[m].loads = {} /\ DOMAIN res'[m].clients = {}
    BY <2>1, <2>2, <2>3 DEF Inv, Types
  <2>5. Wanted' /\ Known'
    BY <1>0, <2>1, <2>2, <2>3, <2>4 DEF Wanted, Known
  <2>6. Heard'
    BY <1>0, <2>1, <2>3, <2>4 DEF Heard
  <2>7. Awaited' /\ Unique'
    BY <2>1 DEF Awaited, Unique
  <2> QED
    BY <2>5, <2>6, <2>7
<1>7. ASSUME NEW n \in Clients, Leave(n) PROVE Wanted' /\ Heard' /\ Known' /\ Awaited' /\ Unique'
  <2>1. /\ online' \subseteq online /\ net' \subseteq net /\ res' = res
        /\ status' = [m \in Clients |-> [l \in Clients |-> IF n \in {l, m} THEN <<>> ELSE status[m][l]]]
    BY <1>7 DEF Leave
  <2>2. \A k, l \in Clients : status'[k][l] # <<>> => status'[k][l] = status[k][l]
    BY <2>1
  <2>3. Heard'
    BY <1>0, <2>1, <2>2 DEF Heard
  <2>4. Wanted' /\ Known'
    BY <1>0, <2>1 DEF Wanted, Known
  <2> QED
    BY <1>0, <2>1, <2>3, <2>4, AwaitedSame
<1>8. ASSUME NEW n \in Clients, NEW m \in Clients, OnDiscover(m, n)
      PROVE Wanted' /\ Heard' /\ Known' /\ Awaited' /\ Unique'
  <2>1. /\ status' = [status EXCEPT ![n][m] = <<res[m].chunks>>]
        /\ online' = online /\ net' = net /\ res' = res
    BY <1>8 DEF OnDiscover
  <2>2. \A k, l \in Clients : status'[k][l] \in {status[k][l], <<>>, <<res[l].chunks>>}
    BY <2>1 DEF Inv, Types
  <2> QED
    BY <1>0, <2>1, <2>2, CalmKeptSame, AwaitedSame
<1>9. ASSUME NEW m \in Clients, OnRequest(m) PROVE Wanted' /\ Heard' /\ Known' /\ Awaited' /\ Unique'
  <2>1. PICK req \in net :
            \E unread \in BOOLEAN, content \in Contents(m, req.chunk) :
                /\ req.type = "Req" /\ req.to = m
                /\ FailsIf("ReadError", unread)
                /\ net' = (net \ {req}) \cup
                      (IF res[m].listed
                       THEN {Data(m, req.from, req.chunk, IF unread THEN "Nothing" ELSE content)}
                       ELSE {})
                /\ UNCHANGED <<res, file, online, needed, status, setting>>
    BY <1>9 DEF OnRequest
  <2>2. PICK c, S : /\ net' = (net \ {req}) \cup S /\ S \subseteq {Data(m, req.from, req.chunk, c)}
                    /\ req.type = "Req" /\ req.to = m
                    /\ UNCHANGED <<res, online, status>>
    <3>1. PICK unread \in BOOLEAN, content \in Contents(m, req.chunk) :
                /\ req.type = "Req" /\ req.to = m
                /\ net' = (net \ {req}) \cup
                      (IF res[m].listed
                       THEN {Data(m, req.from, req.chunk, IF unread THEN "Nothing" ELSE content)}
                       ELSE {})
                /\ UNCHANGED <<res, online, status>>
      BY <2>1
    <3> DEFINE c == IF unread THEN "Nothing" ELSE content
               S == IF res[m].listed THEN {Data(m, req.from, req.chunk, c)} ELSE {}
    <3>2. net' = (net \ {req}) \cup S /\ S \subseteq {Data(m, req.from, req.chunk, c)}
      BY <3>1
    <3> HIDE DEF c, S
    <3> QED
      BY <3>1, <3>2
  <2> DEFINE d == Data(m, req.from, req.chunk, c)
  <2>3. Owner(d) = Owner(req) /\ LoadOf(d) = LoadOf(req) /\ d.chunk = req.chunk
    BY <2>2 DEF Data, Owner, LoadOf
  <2>4. \A p \in net' : p \in net \ {req} \/ p = d
    BY <2>2
  <2> HIDE DEF d
  <2>5. Awaited'
    <3> SUFFICES ASSUME NEW p \in net' PROVE LoadOf(p) \in res[Owner(p)].loads
      BY <2>2 DEF Awaited, LoadOf, Owner
    <3> QED
      BY <1>o, <2>3, <2>4
  <2>6. Unique'
    <3> SUFFICES ASSUME NEW p \in net', NEW q \in net', Owner(p) = Owner(q), p.chunk = q.chunk
                 PROVE  p = q
      BY DEF Unique, Owner
    <3> QED
      BY <1>0, <2>3, <2>4 DEF Unique
  <2>7. Wanted' /\ Heard' /\ Known'
    BY <1>0, <2>2, CalmKeptSame
  <2> QED
    BY <2>5, <2>6, <2>7
<1>10. ASSUME NEW n \in Clients, OnChunk(n) PROVE Wanted' /\ Heard' /\ Known' /\ Awaited' /\ Unique'
  <2>1. PICK data \in net, unwritten \in BOOLEAN :
            /\ data.type = "Data" /\ data.to = n /\ data.chunk \in Chunks
            /\ UNCHANGED <<online, status>>
            /\ \/ ~res[n].loading /\ UNCHANGED res /\ net' = net \ {data}
               \/ /\ res[n].loading /\ n # Source
                  /\ LET a == Added(res[n], data.chunk, unwritten) IN
                     \/ /\ a.chunks = Chunks /\ res' = [res EXCEPT ![n] = EndLoad(a)]
                        /\ net' = net \ {data}
                     \/ /\ a.chunks # Chunks
                        /\ \E x, L : /\ Continues(n, a, x, L)
                                     /\ net' = (net \ {data}) \cup RequestsFor(n, L)
    BY <1>10, OnChunkEffect
  <2>2. CASE UNCHANGED res /\ net' = net \ {data}
    BY <1>0, <2>1, <2>2, CalmKeptSame, AwaitedSame
  <2> DEFINE a == Added(res[n], data.chunk, unwritten)
  <2>3. n \in online /\ Owner(data) = n /\ LoadOf(data).chunk = data.chunk
    BY <1>p, <2>1 DEF Owner, LoadOf
  <2>4. CASE res[n].loading
    <3>1. /\ a \in Resource /\ a.loads \subseteq res[n].loads /\ a.clients = res[n].clients
          /\ a.loading /\ a.removed = res[n].removed
          /\ unwritten => a = res[n]
          /\ ~unwritten => /\ a.chunks = res[n].chunks \cup {data.chunk}
                           /\ a.loads = res[n].loads \ {l \in res[n].loads : l.chunk = data.chunk}
      BY <1>r, <2>1, <2>4, AddedWell DEF Inv
    <3>2. res[n].chunks \subseteq a.chunks
      BY <3>1
    <3>3. ASSUME NEW p \in net \ {data}, Owner(p) = n
          PROVE  LoadOf(p) \in a.loads
      <4>1. LoadOf(p) \in res[n].loads
        BY <1>o, <3>3
      <4>2. p.chunk # data.chunk
        BY <1>0, <2>3, <3>3 DEF Unique
      <4>3. LoadOf(p).chunk # data.chunk
        BY <4>2 DEF LoadOf
      <4> QED
        BY <3>1, <4>1, <4>3
    <3> HIDE DEF a
    <3>4. CASE a.chunks = Chunks /\ res' = [res EXCEPT ![n] = EndLoad(a)] /\ net' = net \ {data}
      <4> DEFINE e == EndLoad(a)
      <4>1. /\ e.loading = FALSE /\ e.loads = {} /\ e.clients = <<>> /\ e.chunks = a.chunks
        BY <3>1 DEF EndLoad, Resource
      <4> HIDE DEF e
      <4>2. res' = [res EXCEPT ![n] = e]
        BY <3>4 DEF e
      <4>3. Wanted' /\ Heard' /\ Known'
        <5>1. DOMAIN e.clients = {}
          BY <4>1
        <5> QED
          BY <1>0, <2>1, <3>2, <4>1, <4>2, <5>1, CalmKept
      <4>4. ASSUME NEW p \in net \ {data} PROVE Owner(p) # n
        <5> SUFFICES ASSUME Owner(p) = n PROVE FALSE
          OBVIOUS
        <5>1. LoadOf(p) \in a.loads /\ LoadOf(p) \in res[n].loads
          BY <1>o, <3>3
        <5>2. LoadOf(p).chunk \in Chunks /\ LoadOf(p).chunk \notin res[n].chunks
          BY <1>r, <1>p, <5>1, PacketOwner, PacketShape DEF Well
        <5>3. ~unwritten
          <6> SUFFICES ASSUME unwritten PROVE FALSE
            OBVIOUS
          <6> QED
            BY <3>1, <3>4, <5>2
        <5>4. LoadOf(p).chunk # data.chunk
          BY <3>1, <5>1, <5>3
        <5> QED
          BY <3>1, <3>4, <5>2, <5>3, <5>4
      <4>5. \A m \in Clients \ {n} : res'[m] = res[m]
        BY <4>2 DEF Inv, Types
      <4>6. Awaited'
        BY <1>o, <3>4, <4>4, <4>5 DEF Awaited, LoadOf, Owner
      <4>7. Unique'
        BY <1>0, <3>4 DEF Unique, Owner
      <4> QED
        BY <4>3, <4>6, <4>7
    <3>5. ASSUME NEW x, NEW L, Continues(n, a, x, L), net' = (net \ {data}) \cup RequestsFor(n, L)
          PROVE  Wanted' /\ Heard' /\ Known' /\ Awaited' /\ Unique'
      <4>1. /\ x.loads = a.loads \cup L /\ x.chunks = a.chunks /\ x.clients = a.clients
            /\ x.loading = a.loading /\ x.removed = a.removed /\ res' = [res EXCEPT ![n] = x]
            /\ \A l \in L : l.chunk \in a.clients[l.client]
        BY <3>5 DEF Continues, Begins, Resource
      <4>2. \A load \in x.loads : load.chunk \in x.clients[load.client]
        BY <1>0, <2>3, <3>1, <4>1 DEF Known
      <4>3. \A m \in DOMAIN x.clients :
              /\ x.clients[m] \subseteq res[m].chunks /\ m \in Clients
              /\ status'[n][m] # <<>> => x.clients[m] \subseteq Head(status'[n][m])
        BY <1>h, <1>d, <2>1, <2>3, <3>1, <4>1
      <4>4. x.loading => ~x.removed
        BY <1>0, <2>4, <3>1, <4>1 DEF Wanted
      <4>5. Wanted' /\ Heard' /\ Known'
        BY <1>0, <2>1, <3>2, <4>1, <4>2, <4>3, <4>4, CalmKept
      <4>6. Awaited' /\ Unique'
        <5>1. net \ {data} \in SUBSET net
          OBVIOUS
        <5> QED
          BY <1>0, <2>3, <3>3, <3>5, <5>1, RequestsAwaited
      <4> QED
        BY <4>5, <4>6
    <3> QED
      BY <2>1, <2>4, <3>4, <3>5 DEF a
  <2> QED
    BY <2>1, <2>2, <2>4
<1>11. ASSUME NEW n \in Clients, LoadTimeout(n) PROVE Wanted' /\ Heard' /\ Known' /\ Awaited' /\ Unique'
  <2>1. n \in online /\ res[n].loading /\ UNCHANGED <<online, status>>
    BY <1>11, LoadTimeoutEffect
  <2>2. PICK loads \in SUBSET res[n].loads :
            /\ FailsIf("Stall", \E load \in loads : ~Lost(n, load))
            /\ \E x, L : /\ Continues(n, RemoveLoads(res[n], loads), x, L)
                         /\ net' = net \cup RequestsFor(n, L)
    BY <1>11, LoadTimeoutEffect
  <2> DEFINE a == RemoveLoads(res[n], loads)
  <2>3. PICK x, L : Continues(n, a, x, L) /\ net' = net \cup RequestsFor(n, L)
    BY <2>2
  <2>4. \A load \in loads : Lost(n, load)
    <3> DEFINE c == \E load \in loads : ~Lost(n, load)
    <3>1. FailsIf("Stall", c) /\ c \in BOOLEAN
      BY <2>2
    <3> HIDE DEF c
    <3>2. ~c
      BY <1>0, <3>1, CalmFails
    <3> QED
      BY <3>2 DEF c
  <2>5. /\ a.loads = res[n].loads \ loads /\ a.chunks = res[n].chunks /\ a.clients = res[n].clients
        /\ a.loading = res[n].loading /\ a.removed = res[n].removed
    BY <1>r DEF RemoveLoads, Resource
  <2> HIDE DEF a
  <2>6. ASSUME NEW p \in net, Owner(p) = n PROVE LoadOf(p) \in a.loads
    <3>1. LoadOf(p) \in res[n].loads
      BY <1>o, <2>6
    <3>2. LoadOf(p) \notin loads
      <4> SUFFICES ASSUME LoadOf(p) \in loads PROVE FALSE
        OBVIOUS
      <4>1. Lost(n, LoadOf(p))
        BY <2>4
      <4>2. p \in Packet
        BY <1>p
      <4>3. CASE p.type = "Req"
        <5>1. LoadOf(p) = [chunk |-> p.chunk, client |-> p.to] /\ p.from = n
          BY <2>6, <4>3 DEF LoadOf, Owner
        <5>2. p = Req(n, p.to, p.chunk)
          BY <4>2, <4>3, <5>1, PacketShape
        <5> QED
          BY <4>1, <5>1, <5>2 DEF Lost
      <4>4. CASE p.type = "Data"
        <5>1. LoadOf(p) = [chunk |-> p.chunk, client |-> p.from] /\ p.to = n
          BY <2>6, <4>4 DEF LoadOf, Owner
        <5> QED
          BY <4>1, <4>4, <5>1 DEF Lost
      <4> QED
        BY <4>2, <4>3, <4>4, PacketShape
    <3> QED
      BY <2>5, <3>1, <3>2
  <2>7. /\ x.loads = a.loads \cup L /\ x.chunks = a.chunks /\ x.clients = a.clients
        /\ x.loading = a.loading /\ x.removed = a.removed /\ res' = [res EXCEPT ![n] = x]
        /\ \A l \in L : l.chunk \in a.clients[l.client]
    BY <2>3 DEF Continues, Begins, Resource
  <2>8. \A load \in x.loads : load.chunk \in x.clients[load.client]
    BY <1>0, <2>1, <2>5, <2>7 DEF Known
  <2>9. \A m \in DOMAIN x.clients :
            /\ x.clients[m] \subseteq res[m].chunks /\ m \in Clients
            /\ status'[n][m] # <<>> => x.clients[m] \subseteq Head(status'[n][m])
    BY <1>h, <1>d, <2>1, <2>5, <2>7
  <2>10. x.loading => ~x.removed
    BY <1>0, <2>5, <2>7 DEF Wanted
  <2>11. Wanted' /\ Heard' /\ Known'
    BY <1>0, <2>1, <2>5, <2>7, <2>8, <2>9, <2>10, CalmKept
  <2>12. Awaited' /\ Unique'
    <3>1. net \in SUBSET net
      OBVIOUS
    <3> QED
      BY <1>0, <2>1, <2>3, <2>6, <3>1, RequestsAwaited
  <2> QED
    BY <2>11, <2>12
<1>12. ASSUME NEW n \in Clients, NEW m \in Clients, OnStatus(n, m)
       PROVE Wanted' /\ Heard' /\ Known' /\ Awaited' /\ Unique'
  <2> DEFINE C == Head(status[n][m])
             h == Hears(res[n], m, C)
  <2>1. /\ n \in online /\ status[n][m] # <<>> /\ C \in SUBSET Chunks /\ UNCHANGED online
        /\ status' = [status EXCEPT ![n] = [status[n] EXCEPT ![m] = <<>>]]
    BY <1>12, OnStatusEffect
  <2>e. \/ ~res[n].loading /\ UNCHANGED <<res, net>>
        \/ /\ res[n].loading
           /\ \E x, L : Continues(n, h, x, L) /\ net' = net \cup RequestsFor(n, L)
    BY <1>12, OnStatusEffect
  <2>2. \A k, l \in Clients : status'[k][l] = IF k = n /\ l = m THEN <<>> ELSE status[k][l]
    BY <2>1 DEF Inv, Types
  <2>3. CASE ~res[n].loading /\ UNCHANGED <<res, net>>
    BY <1>0, <2>1, <2>2, <2>3, CalmKeptSame, AwaitedSame
  <2>4. ASSUME NEW x, NEW L, res[n].loading, Continues(n, h, x, L), net' = net \cup RequestsFor(n, L)
        PROVE  Wanted' /\ Heard' /\ Known' /\ Awaited' /\ Unique'
    <3>1. /\ DOMAIN h.clients = DOMAIN res[n].clients \cup {m}
          /\ h.clients[m] = C /\ \A l \in DOMAIN res[n].clients \ {m} : h.clients[l] = res[n].clients[l]
          /\ h.loads = res[n].loads /\ h.chunks = res[n].chunks
          /\ h.loading = res[n].loading /\ h.removed = res[n].removed
      <4>1. res[n] \in Resource /\ Well(res[n]) /\ Types /\ C \in SUBSET Chunks /\ res[n].loading
        BY <1>r, <2>1, <2>4 DEF Inv
      <4>2. h = Hears(res[n], m, C)
        OBVIOUS
      <4> HIDE DEF h, C
      <4>3. DOMAIN h.clients = DOMAIN res[n].clients \cup {m}
        BY <4>1, <4>2, HeardWell
      <4>4. h.clients[m] = C
        BY <4>1, <4>2, HeardWell
      <4>5. \A l \in DOMAIN res[n].clients \ {m} : h.clients[l] = res[n].clients[l]
        BY <4>1, <4>2, HeardWell
      <4>6. h.loads = res[n].loads /\ h.chunks = res[n].chunks
        BY <4>1, <4>2, HeardWell
      <4>7. h.loading = res[n].loading /\ h.removed = res[n].removed
        BY <4>1, <4>2 DEF Hears, Resource
      <4> QED
        BY <4>3, <4>4, <4>5, <4>6, <4>7
    <3>2. C \subseteq res[m].chunks /\ (m \in DOMAIN res[n].clients => res[n].clients[m] \subseteq C)
      BY <1>0, <1>h, <2>1 DEF Heard
    <3> HIDE DEF h, C
    <3>3. /\ x.loads = h.loads \cup L /\ x.chunks = h.chunks /\ x.clients = h.clients
          /\ x.loading = h.loading /\ x.removed = h.removed /\ res' = [res EXCEPT ![n] = x]
          /\ \A l \in L : l.chunk \in h.clients[l.client]
      BY <2>4 DEF Continues, Begins, Resource
    <3>4. ASSUME NEW load \in x.loads PROVE load.chunk \in x.clients[load.client]
      <4>1. CASE load \in L
        BY <3>3, <4>1
      <4>2. CASE load \in res[n].loads
        <5>1. load.chunk \in res[n].clients[load.client] /\ load.client \in DOMAIN res[n].clients
          BY <1>0, <1>r, <2>1, <4>2 DEF Known, Well
        <5> QED
          BY <3>1, <3>2, <3>3, <5>1
      <4> QED
        BY <3>1, <3>3, <4>1, <4>2
    <3>5. ASSUME NEW l \in DOMAIN x.clients
          PROVE  /\ x.clients[l] \subseteq res[l].chunks /\ l \in Clients
                 /\ status'[n][l] # <<>> => x.clients[l] \subseteq Head(status'[n][l])
      <4>1. CASE l = m
        BY <2>2, <3>1, <3>2, <3>3, <4>1
      <4>2. CASE l # m
        <5>1. l \in DOMAIN res[n].clients /\ x.clients[l] = res[n].clients[l] /\ l \in Clients
          BY <1>d, <3>1, <3>3, <4>2
        <5>2. status'[n][l] = status[n][l]
          BY <2>2, <4>2, <5>1
        <5> QED
          BY <1>h, <2>1, <5>1, <5>2
      <4> QED
        BY <4>1, <4>2
    <3>6. x.loading => ~x.removed
      BY <1>0, <3>1, <3>3 DEF Wanted
    <3>7. Wanted' /\ Heard' /\ Known'
      <4>1. \A k, l \in Clients : status'[k][l] \in {status[k][l], <<>>, <<res[l].chunks>>}
        BY <2>2
      <4>2. res[n].chunks \subseteq x.chunks /\ res' = [res EXCEPT ![n] = x] /\ online' = online
        BY <2>1, <3>1, <3>3
      <4> QED
        BY <1>0, <3>4, <3>5, <3>6, <4>1, <4>2, CalmKept
    <3>8. Awaited' /\ Unique'
      <4>3. Continues(n, h, x, L) /\ net' = net \cup RequestsFor(n, L) /\ n \in online
        BY <2>1, <2>4
      <4>1. \A p \in net : Owner(p) = n => LoadOf(p) \in h.loads
        BY <1>o, <3>1
      <4>2. net \in SUBSET net
        OBVIOUS
      <4> QED
        BY <1>0, <4>1, <4>2, <4>3, RequestsAwaited
    <3> QED
      BY <3>7, <3>8
  <2> QED
    BY <2>e, <2>3, <2>4
<1> QED
  BY <1>0, <1>1, <1>3, <1>4, <1>5, <1>6, <1>f, <1>7, <1>8, <1>9, <1>10, <1>11, <1>12, CalmFails
     DEF Next, DoLoad, AskAndAnswer

(* It holds at first. *)
LEMMA InitCalm == Init => CalmInv
<1> SUFFICES ASSUME Init PROVE CalmInv
  OBVIOUS
<1>1. /\ net = {} /\ status = [m \in Clients |-> [n \in Clients |-> <<>>]]
      /\ online \subseteq Clients
      /\ res = [n \in Clients |-> IF n = Source THEN SetByFile ELSE NoRes]
  BY SettingsAssumption DEF Init, Setting
<1>2. \A n \in Clients : ~res[n].loading /\ res[n].loads = {} /\ res[n].clients = <<>>
  BY <1>1 DEF NoRes, SetByFile
<1>3. DOMAIN <<>> = {}
  OBVIOUS
<1>4. Heard
  BY <1>1, <1>2, <1>3 DEF Heard
<1>5. Wanted /\ Awaited /\ Unique /\ Known
  BY <1>1, <1>2 DEF Wanted, Awaited, Unique, Known
<1>6. Retired /\ Gone
  BY <1>1, ClientsAssumption DEF Retired, Gone, NoRes, SetByFile
<1> QED
  BY <1>4, <1>5, <1>6 DEF CalmInv

(* Thus it always holds. *)
LEMMA AlwaysCalm == Spec => [](Inv /\ CalmInv)
BY InitInv, NextInv, InitCalm, NextCalm, PTL DEF Spec

(* In every exchange, as long as the source is there and no timeout is too *)
(* early, what is requested or sent is still waited for, by one client for *)
(* one load: no chunk is loaded twice, and each from a client that has it. *)
THEOREM LoadedOnceHolds == Spec => []LoadedOnce
<1>1. Inv /\ CalmInv => LoadedOnce
  <2> SUFFICES ASSUME Inv, CalmInv, Calm
               PROVE  /\ \A packet \in net :
                        /\ LoadOf(packet) \in res[Owner(packet)].loads
                        /\ \A p \in net :
                              Owner(p) = Owner(packet) /\ p.chunk = packet.chunk => p = packet
                      /\ \A n \in online : \A load \in res[n].loads :
                            load.chunk \in res[load.client].chunks
    BY DEF LoadedOnce
  <2>1. Awaited /\ Unique /\ Known /\ Heard
    BY DEF CalmInv
  <2>2. ASSUME NEW n \in online, NEW load \in res[n].loads
        PROVE  load.chunk \in res[load.client].chunks
    <3>1. n \in Clients /\ res[n] \in Resource /\ Well(res[n])
      BY DEF Inv, Types
    <3>2. load.client \in DOMAIN res[n].clients /\ load.client \in Clients
      BY <3>1, ResourceFields DEF Well
    <3>3. load.chunk \in res[n].clients[load.client]
      BY <2>1 DEF Known
    <3>4. res[n].clients[load.client] \subseteq res[load.client].chunks
      BY <2>1, <3>1, <3>2 DEF Heard
    <3> QED
      BY <3>3, <3>4
  <2> QED
    BY <2>1, <2>2 DEF Awaited, Unique
<1> QED
  BY <1>1, AlwaysCalm, PTL

(* When it is calm, a chunk is requested from a client that has it. *)
LEMMA Asked ==
    ASSUME Inv, CalmInv, Calm, NEW p \in net, p.type = "Req"
    PROVE  p.to \in Clients /\ p.chunk \in res[p.to].chunks
<1>1. p \in Packet /\ p.from \in online /\ p.from \in Clients /\ p.to \in Clients
  BY PacketShape DEF Inv, Types, Connected
<1>2. LoadOf(p) = [chunk |-> p.chunk, client |-> p.to] /\ Owner(p) = p.from
  BY DEF LoadOf, Owner
<1>3. LoadOf(p) \in res[p.from].loads
  BY <1>2 DEF CalmInv, Awaited
<1>4. p.chunk \in res[p.from].clients[p.to]
  BY <1>1, <1>2, <1>3 DEF CalmInv, Known
<1>5. p.to \in DOMAIN res[p.from].clients
  BY <1>1, <1>2, <1>3 DEF Inv, Well
<1>6. res[p.from].clients[p.to] \subseteq res[p.to].chunks
  BY <1>1, <1>5 DEF CalmInv, Heard
<1> QED
  BY <1>1, <1>4, <1>6

(* Nothing wrong is sent while files can be read, and only what is right   *)
(* and written counts as present.                                          *)
LEMMA NextRight == Inv /\ CalmInv /\ RightInv /\ [Next]_vars => RightInv'
<1> SUFFICES ASSUME Inv, CalmInv, RightInv, [Next]_vars, Calm', "ReadError" \notin setting'.faults
             PROVE  Right' /\ RightData'
  BY DEF RightInv
<1>0. Calm /\ "ReadError" \notin setting.faults /\ Right /\ RightData
  BY Shrinks DEF Calm, RightInv
<1>r. \A n \in Clients : res[n] \in Resource /\ Well(res[n]) /\ file[n] \in SUBSET Chunks
  BY DEF Inv, Types

(* A step in which at most one resource changes, but for its chunks.       *)
<1>1. ASSUME NEW n \in Clients, NEW x, res' = [res EXCEPT ![n] = x], x.chunks = res[n].chunks,
             file' = file, \A p \in net' : p \in net \/ p.type = "Req"
      PROVE  Right' /\ RightData'
  <2>1. \A m \in Clients : res'[m].chunks = res[m].chunks
    BY <1>1 DEF Inv, Types
  <2> QED
    BY <1>0, <1>1, <2>1 DEF Right, RightData
<1>2. ASSUME res' = res, file' = file, \A p \in net' : p \in net \/ p.type = "Req"
      PROVE  Right' /\ RightData'
  BY <1>0, <1>2 DEF Right, RightData
<1>3. ASSUME NEW n \in Clients, NEW L, NEW p \in RequestsFor(n, L) PROVE p.type = "Req"
  BY <1>3 DEF RequestsFor, Req
<1>4. CASE UNCHANGED vars
  BY <1>2, <1>4 DEF vars
<1>5. ASSUME NEW n \in Clients, AddByCore(n) PROVE Right' /\ RightData'
  <2>1. res' = [res EXCEPT ![n] = SetLoad] /\ net' = net /\ ~res[n].listed /\ file' = [file EXCEPT ![n] = {}]
    BY <1>5 DEF AddByCore
  <2>2. file[n] = {} /\ SetLoad.chunks = {} /\ res[n].chunks = {}
    BY <1>r, <2>1 DEF Inv, Connected, SetLoad, NoRes, Well
  <2>3. file' = file
    BY <2>1, <2>2 DEF Inv, Types
  <2> QED
    BY <1>1, <2>1, <2>2, <2>3
<1>6. ASSUME NEW n \in Clients, SendDiscover(n) PROVE Right' /\ RightData'
  <2> DEFINE x == [res[n] EXCEPT !.discovering = TRUE]
  <2>1. res' = [res EXCEPT ![n] = x] /\ net' = net /\ file' = file
    BY <1>6 DEF SendDiscover
  <2>2. x.chunks = res[n].chunks
    BY <1>r DEF Resource
  <2> HIDE DEF x
  <2> QED
    BY <1>1, <2>1, <2>2
<1>7. ASSUME NEW n \in Clients, SendStatus(n) PROVE Right' /\ RightData'
  <2> DEFINE x == [res[n] EXCEPT !.dirty = FALSE]
  <2>1. res' = [res EXCEPT ![n] = x] /\ net' = net /\ file' = file
    BY <1>7 DEF SendStatus
  <2>2. x.chunks = res[n].chunks
    BY <1>r DEF Resource
  <2> HIDE DEF x
  <2> QED
    BY <1>1, <2>1, <2>2
<1>8. ASSUME NEW n \in Clients, RemoveRes(n) PROVE Right' /\ RightData'
  <2> DEFINE x == [res[n] EXCEPT !.removed = TRUE]
  <2>1. res' = [res EXCEPT ![n] = x] /\ net' = net /\ file' = file
    BY <1>8 DEF RemoveRes
  <2>2. x.chunks = res[n].chunks
    BY <1>r DEF Resource
  <2> HIDE DEF x
  <2> QED
    BY <1>1, <2>1, <2>2
<1>d. ASSUME RemoveDynamic PROVE Right' /\ RightData'
  <2> DEFINE x == [res[Source] EXCEPT !.removed = TRUE]
  <2>1. res' = [res EXCEPT ![Source] = x] /\ net' = net /\ file' = file
    BY <1>d DEF RemoveDynamic
  <2>2. x.chunks = res[Source].chunks /\ Source \in Clients
    BY <1>r, SourceIdle DEF Resource
  <2> HIDE DEF x
  <2> QED
    BY <1>1, <2>1, <2>2
<1>f. ASSUME NEW n \in Clients, OnShareFree(n) PROVE Right' /\ RightData'
  <2>1. res' = [res EXCEPT ![n] = NoRes] /\ net' = {} /\ file' = [file EXCEPT ![n] = {}]
    BY <1>0, <1>f, CalmFree DEF OnShareFree
  <2>2. res'[n].chunks = {} /\ \A m \in Clients \ {n} : res'[m] = res[m] /\ file'[m] = file[m]
    BY <2>1 DEF Inv, Types, NoRes
  <2> QED
    BY <1>0, <2>1, <2>2 DEF Right, RightData
<1>9. ASSUME NEW n \in Clients, Leave(n) PROVE Right' /\ RightData'
  BY <1>2, <1>9 DEF Leave
<1>10. ASSUME NEW n \in Clients, NEW m \in Clients, OnDiscover(m, n) PROVE Right' /\ RightData'
  BY <1>2, <1>10 DEF OnDiscover
<1>11. ASSUME NEW n \in Clients, NEW m \in Clients, OnStatus(n, m) PROVE Right' /\ RightData'
  <2>1. UNCHANGED file
    BY <1>11, OnStatusEffect
  <2>2. CASE UNCHANGED <<res, net>>
    BY <1>2, <2>1, <2>2
  <2> DEFINE C == Head(status[n][m])
             h == Hears(res[n], m, C)
  <2>3. ASSUME NEW x, NEW L, Continues(n, h, x, L), net' = net \cup RequestsFor(n, L)
        PROVE  Right' /\ RightData'
    <3>1. h.chunks = res[n].chunks
      BY <1>r DEF Hears, Resource
    <3> HIDE DEF h
    <3>2. x.chunks = h.chunks /\ res' = [res EXCEPT ![n] = x]
      BY <2>3 DEF Continues, Begins, Resource
    <3> QED
      BY <1>1, <1>3, <2>1, <2>3, <3>1, <3>2
  <2> QED
    BY <1>11, <2>2, <2>3, OnStatusEffect
<1>12. ASSUME NEW n \in Clients, LoadTimeout(n) PROVE Right' /\ RightData'
  <2>1. PICK loads \in SUBSET res[n].loads :
            \E x, L : /\ Continues(n, RemoveLoads(res[n], loads), x, L)
                      /\ net' = net \cup RequestsFor(n, L)
    BY <1>12, LoadTimeoutEffect
  <2> DEFINE a == RemoveLoads(res[n], loads)
  <2>2. PICK x, L : Continues(n, a, x, L) /\ net' = net \cup RequestsFor(n, L)
    BY <2>1
  <2>3. a.chunks = res[n].chunks
    BY <1>r DEF RemoveLoads, Resource
  <2> HIDE DEF a
  <2>4. x.chunks = a.chunks /\ res' = [res EXCEPT ![n] = x] /\ UNCHANGED file
    BY <1>12, <2>2, LoadTimeoutEffect DEF Continues, Begins, Resource
  <2> QED
    BY <1>1, <1>3, <2>2, <2>3, <2>4
<1>13. ASSUME NEW m \in Clients, OnRequest(m) PROVE Right' /\ RightData'
  <2>1. PICK req \in net :
            \E unread \in BOOLEAN, content \in Contents(m, req.chunk) :
                /\ req.type = "Req" /\ req.to = m
                /\ FailsIf("ReadError", unread)
                /\ net' = (net \ {req}) \cup
                      (IF res[m].listed
                       THEN {Data(m, req.from, req.chunk, IF unread THEN "Nothing" ELSE content)}
                       ELSE {})
                /\ UNCHANGED <<res, file, online, needed, status, setting>>
    BY <1>13 DEF OnRequest
  <2>2. PICK unread \in BOOLEAN, content \in Contents(m, req.chunk) :
                /\ req.type = "Req" /\ req.to = m
                /\ FailsIf("ReadError", unread)
                /\ net' = (net \ {req}) \cup
                      (IF res[m].listed
                       THEN {Data(m, req.from, req.chunk, IF unread THEN "Nothing" ELSE content)}
                       ELSE {})
                /\ UNCHANGED <<res, file>>
    BY <2>1
  <2>3. ~unread
    BY <1>0, <2>2 DEF FailsIf, Fails
  <2>4. req.chunk \in file[m]
    BY <1>0, <2>2, Asked DEF Right
  <2>5. content = "Right"
    BY <2>4 DEF Contents
  <2>6. \A p \in net' : p \in net \/ p = Data(m, req.from, req.chunk, "Right")
    BY <2>2, <2>3, <2>5
  <2>7. \A p \in net' : p \in net \/ p.content = "Right"
    BY <2>6 DEF Data
  <2> QED
    BY <1>0, <2>2, <2>7 DEF Right, RightData
<1>14. ASSUME NEW n \in Clients, OnChunk(n) PROVE Right' /\ RightData'
  <2>1. PICK data \in net, unwritten \in BOOLEAN :
            /\ data.type = "Data" /\ data.to = n /\ data.chunk \in Chunks
            /\ file' = IF res[n].loading /\ ~unwritten
                       THEN [file EXCEPT ![n] = Written(@, data)] ELSE file
            /\ \/ ~res[n].loading /\ UNCHANGED res /\ net' = net \ {data}
               \/ /\ res[n].loading /\ n # Source
                  /\ LET a == Added(res[n], data.chunk, unwritten) IN
                     \/ /\ a.chunks = Chunks /\ res' = [res EXCEPT ![n] = EndLoad(a)]
                        /\ net' = net \ {data}
                     \/ /\ a.chunks # Chunks
                        /\ \E x, L : /\ Continues(n, a, x, L)
                                     /\ net' = (net \ {data}) \cup RequestsFor(n, L)
    BY <1>14, OnChunkEffect
  <2>2. CASE ~res[n].loading
    BY <1>2, <2>1, <2>2
  <2>3. CASE res[n].loading
    <3> DEFINE a == Added(res[n], data.chunk, unwritten)
    <3>1. /\ a \in Resource
          /\ unwritten => a = res[n]
          /\ ~unwritten => a.chunks = res[n].chunks \cup {data.chunk}
      BY <1>r, <2>1, <2>3, AddedWell DEF Inv
    <3>2. Written(file[n], data) = file[n] \cup {data.chunk}
      BY <1>0, <2>1 DEF RightData, Written
    <3>3. a.chunks \subseteq file'[n] /\ \A m \in Clients \ {n} : file'[m] = file[m]
      <4>1. CASE unwritten
        BY <1>0, <2>1, <3>1, <4>1 DEF Right
      <4>2. CASE ~unwritten
        <5>1. file' = [file EXCEPT ![n] = file[n] \cup {data.chunk}]
          BY <2>1, <2>3, <3>2, <4>2
        <5>2. file'[n] = file[n] \cup {data.chunk} /\ \A m \in Clients \ {n} : file'[m] = file[m]
          BY <5>1 DEF Inv, Types
        <5>3. a.chunks = res[n].chunks \cup {data.chunk} /\ res[n].chunks \subseteq file[n]
          BY <1>0, <3>1, <4>2 DEF Right
        <5> HIDE DEF a
        <5> QED
          BY <5>2, <5>3
      <4> QED
        BY <4>1, <4>2
    <3> HIDE DEF a
    <3>4. ASSUME NEW x, res' = [res EXCEPT ![n] = x], x.chunks = a.chunks,
                 \A p \in net' : p \in net \/ p.type = "Req"
          PROVE  Right' /\ RightData'
      <4>1. res'[n] = x /\ \A m \in Clients \ {n} : res'[m] = res[m]
        BY <3>4 DEF Inv, Types
      <4> QED
        BY <1>0, <3>3, <3>4, <4>1 DEF Right, RightData
    <3>5. CASE res' = [res EXCEPT ![n] = EndLoad(a)] /\ net' = net \ {data}
      <4>1. EndLoad(a).chunks = a.chunks
        BY <3>1 DEF EndLoad, Resource
      <4> QED
        BY <3>4, <3>5, <4>1
    <3>6. ASSUME NEW x, NEW L, Continues(n, a, x, L), net' = (net \ {data}) \cup RequestsFor(n, L)
          PROVE  Right' /\ RightData'
      <4>1. x.chunks = a.chunks /\ res' = [res EXCEPT ![n] = x]
        BY <3>6 DEF Continues, Begins, Resource
      <4> QED
        BY <1>3, <3>4, <3>6, <4>1
    <3> QED
      BY <2>1, <2>3, <3>5, <3>6 DEF a
  <2> QED
    BY <2>2, <2>3
<1> QED
  BY <1>0, <1>4, <1>5, <1>6, <1>7, <1>8, <1>d, <1>f, <1>9, <1>10, <1>11, <1>12, <1>13, <1>14, CalmFails
     DEF Next, DoLoad, AskAndAnswer

(* In every exchange, as long as the source is there, no timeout is too    *)
(* early and files can be read, a chunk that counts as present is right in *)
(* the file of the client, whatever could not be written.                  *)
THEOREM IntactHolds == Spec => []Intact
<1>1. Init => RightInv
  <2> SUFFICES ASSUME Init PROVE Right /\ RightData
    BY DEF RightInv
  <2>1. /\ net = {} /\ file = [n \in Clients |-> IF n = Source THEN Chunks ELSE {}]
        /\ res = [n \in Clients |-> IF n = Source THEN SetByFile ELSE NoRes]
    BY DEF Init
  <2> QED
    BY <2>1 DEF NoRes, SetByFile, Right, RightData
<1>2. RightInv => Intact
  BY DEF RightInv, Right, Intact
<1> QED
  BY <1>1, <1>2, AlwaysCalm, NextRight, PTL DEF Spec
=============================================================================
