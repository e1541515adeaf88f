--------------------------- MODULE DownloadProofs ---------------------------
(***************************************************************************)
(* Safety of Download for every set of files, peers and overlapping calls. *)
(*                                                                         *)
(* Three layers, each inductive on top of the one before: the pool, the    *)
(* fetches and the rounds (IInv), which gives the types and what a         *)
(* successful call returns; why a call fails; and what is counted.  The    *)
(* last two hold for files whose map is wrapped at most once, which is as  *)
(* far as the code gets (see LargeFilesWork).                              *)
(***************************************************************************)
EXTENDS Download, FiniteSetTheorems, TLAPS

\* The pool files a connection under its own peer.
PoolInv == \A p \in Peers : pool[p] # 0 => conns[pool[p]].peer = p

\* A closed connection to a Good peer is an excuse.
Healthy == excused \/ \A k \in DOMAIN conns : conns[k].peer \in Good => conns[k].open

\* A fetch under way has a peer in hand and, without an excuse, a Good one
\* left to try; the connection it uses is the peer's; one that is over without
\* an error holds the content of its address.
FetchOk(f, cs, ex) ==
  /\ f.pc \in {"connect", "get"} =>
       /\ f.peers # <<>>
       /\ ex \/ \E k \in DOMAIN f.peers : f.peers[k] \in Good
  /\ f.pc = "get" => f.conn # 0 /\ cs[f.conn].peer = Head(f.peers)
  /\ f.pc = "err" => ex
  /\ f.pc = "ok" => f.content = <<f.addr>>

Outermost(f) == Len(Levels[f])
Wrappers(f) == {Levels[f][Outermost(f)][i] : i \in DOMAIN Levels[f][Outermost(f)]}

\* The cache holds the content of each of its addresses.
Verified(r) == \A a \in DOMAIN r.cache : r.cache[a] = a

\* A retrieval is at the outermost map, with nothing cached, or at the root,
\* with at most the outermost wrappers cached; it is resolved at the root.
Resolving(r, a) ==
  /\ r # <<>> /\ r.file = a /\ a \in Files
  /\ r.root_resolved <=> r.level = 1
  /\ \/ r.level = Outermost(a) /\ DOMAIN r.cache = {}
     \/ r.level = 1 /\ Outermost(a) > 1 /\ DOMAIN r.cache \subseteq Wrappers(a)
  /\ Verified(r)

\* A round fetches exactly what its retrieval requires; the other calls
\* await one fetch.
TaskOk(x, fs) ==
  /\ x.pc = "chunk" => DOMAIN fs = {1} /\ fs[1].addr = x.addr /\ x.op = "fetch_chunk"
  /\ x.pc = "map" => DOMAIN fs = {1} /\ fs[1].addr = x.addr /\ x.op = "download"
  /\ x.pc = "round" =>
       /\ x.op = "download" /\ Resolving(x.retrieval, x.addr)
       /\ DOMAIN fs = RequiredAddresses(x.retrieval)
       /\ \A i \in DOMAIN fs : fs[i].addr = Infos(x.retrieval)[i]

FetchesInv ==
  \A t \in Tasks : \A i \in DOMAIN fetches[t] : FetchOk(fetches[t][i], conns, excused)
TasksInv == \A t \in Tasks : TaskOk(task[t], fetches[t])

IInv == TypeOK /\ PoolInv /\ Healthy /\ FetchesInv /\ TasksInv /\ DoneIsWholeFile

-----------------------------------------------------------------------------
(* Facts about the constants                                               *)

\* A file has a map, and every entry of it is the address of a chunk.
LEMMA LevelsFacts ==
  ASSUME NEW f \in Files
  PROVE  /\ Outermost(f) \in Nat \ {0} /\ DOMAIN Levels[f] = 1..Outermost(f)
         /\ \A k \in 1..Outermost(f) : Levels[f][k] \in Seq(Chunks)
<1>1. Levels[f] \in Seq(Seq(Chunks)) /\ Levels[f] # <<>>
  BY LevelsAssumption
<1> QED
  BY <1>1 DEF Outermost

\* Discovery names peers.
LEMMA PeerListsFacts == PeerLists \subseteq Seq(Peers)
<1>1. Cardinality(Peers) \in Nat
  BY PeersAssumption, FS_CardinalityType
<1> SUFFICES ASSUME NEW n \in 0..Cardinality(Peers), NEW l \in [1..n -> Peers]
             PROVE  l \in Seq(Peers)
  BY DEF PeerLists
<1> QED
  BY <1>1

\* A sequence holds elements of its set.
LEMMA ElementFacts ==
  ASSUME NEW S, NEW s \in Seq(S), NEW k \in DOMAIN s
  PROVE  s[k] \in S
OBVIOUS

\* The empty list of peers.
LEMMA NoPeers == <<>> \in Seq(Peers)
OBVIOUS

\* No result is an empty sequence of addresses.
LEMMA NoResultFacts == NoResult \in Seq(Addresses)
BY DEF NoResult

\* A download begins at the outermost map, with nothing cached.
LEMMA BeginFacts ==
  ASSUME NEW f \in Files
  PROVE  /\ Begin(f) \in RetrievalState
         /\ Resolving(Begin(f), f)
<1>1. Outermost(f) \in Nat \ {0}
  BY LevelsFacts
<1>2. Begin(f) # <<>>
  BY DEF Begin
<1>3. PICK c \in Cache : c = [a \in {} |-> a] /\ DOMAIN c = {}
  <2>1. [a \in {} |-> a] \in [{} -> Addresses]
    OBVIOUS
  <2> QED
    BY <2>1 DEF Cache
<1>4. Begin(f) = [file |-> f, level |-> Outermost(f), root_resolved |-> Outermost(f) = 1,
                  cache |-> c]
  BY <1>3 DEF Begin, Outermost
<1>5. Begin(f) \in RetrievalState
  BY <1>1, <1>4 DEF RetrievalState
<1>6. PICK r : r = Begin(f)
  OBVIOUS
<1>7. /\ r.file = f /\ r.level = Outermost(f) /\ r.cache = c
      /\ r.root_resolved = (Outermost(f) = 1)
  BY <1>4, <1>6
<1>8. Verified(r) /\ (r.root_resolved <=> r.level = 1)
  BY <1>3, <1>7 DEF Verified
<1>9. Resolving(r, f)
  BY <1>2, <1>3, <1>6, <1>7, <1>8 DEF Resolving
<1> QED
  BY <1>5, <1>6, <1>9

-----------------------------------------------------------------------------
(* Steps of one fetch                                                      *)

\* A fetch replaced leaves every other fetch as it was.
LEMMA SetFetchFacts ==
  ASSUME TypeOK, NEW t \in Tasks, NEW i \in DOMAIN fetches[t], NEW f, SetFetch(t, i, f)
  PROVE  /\ DOMAIN fetches' = Tasks
         /\ \A u \in Tasks : DOMAIN fetches'[u] = DOMAIN fetches[u]
         /\ fetches'[t][i] = f
         /\ \A u \in Tasks : \A j \in DOMAIN fetches[u] :
              (u = t /\ j = i) \/ fetches'[u][j] = fetches[u][j]
         /\ f \in Fetch => \A u \in Tasks : fetches'[u] \in [DOMAIN fetches'[u] -> Fetch]
<1>1. DOMAIN fetches = Tasks /\ fetches' = [fetches EXCEPT ![t] = [fetches[t] EXCEPT ![i] = f]]
  BY DEF TypeOK, SetFetch
<1>2. \A u \in Tasks : fetches[u] \in [DOMAIN fetches[u] -> Fetch]
  BY DEF TypeOK
<1>3. DOMAIN fetches' = Tasks /\ fetches'[t] = [fetches[t] EXCEPT ![i] = f]
  BY <1>1
<1>4. \A u \in Tasks : u # t => fetches'[u] = fetches[u]
  BY <1>1
<1>5. /\ DOMAIN fetches'[t] = DOMAIN fetches[t] /\ fetches'[t][i] = f
      /\ \A j \in DOMAIN fetches[t] : j = i \/ fetches'[t][j] = fetches[t][j]
  BY <1>2, <1>3
<1>6. f \in Fetch => fetches'[t] \in [DOMAIN fetches[t] -> Fetch]
  BY <1>2, <1>3
<1>7. \A u \in Tasks : DOMAIN fetches'[u] = DOMAIN fetches[u]
  BY <1>4, <1>5
<1>8. f \in Fetch => \A u \in Tasks : fetches'[u] \in [DOMAIN fetches'[u] -> Fetch]
  BY <1>2, <1>4, <1>6, <1>7
<1> QED
  BY <1>3, <1>4, <1>5, <1>7, <1>8

\* What one fetch may do to the network: connections keep their peer, excuses
\* are kept, and the pool stays in order.
NetworkKept ==
  /\ pool' \in [Peers -> 0..Len(conns')]
  /\ conns' \in Seq([peer : Peers, open : BOOLEAN]) /\ excused' \in BOOLEAN
  /\ Len(conns) <= Len(conns')
  /\ \A k \in 1..Len(conns) : conns'[k].peer = conns[k].peer
  /\ excused => excused'
  /\ PoolInv' /\ Healthy'

\* A fetch that is in order stays so.
LEMMA FetchKept ==
  ASSUME TypeOK, NetworkKept, NEW f \in Fetch, f.conn \in 0..Len(conns),
         FetchOk(f, conns, excused)
  PROVE  f.conn \in 0..Len(conns') /\ FetchOk(f, conns', excused')
<1>1. Len(conns) \in Nat /\ Len(conns') \in Nat
  BY DEF TypeOK, NetworkKept
<1>2. f.conn \in 0..Len(conns')
  BY <1>1 DEF NetworkKept
<1>3. excused => excused'
  BY DEF NetworkKept
<1>4. f.pc = "get" => f.conn # 0 /\ conns'[f.conn].peer = Head(f.peers)
  <2> SUFFICES ASSUME f.pc = "get" PROVE f.conn # 0 /\ conns'[f.conn].peer = Head(f.peers)
    OBVIOUS
  <2>1. f.conn # 0 /\ conns[f.conn].peer = Head(f.peers)
    BY DEF FetchOk
  <2>2. f.conn \in 1..Len(conns)
    BY <1>1, <2>1
  <2> QED
    BY <2>1, <2>2 DEF NetworkKept
<1>5. f.pc \in {"connect", "get"} =>
        /\ f.peers # <<>>
        /\ excused' \/ \E k \in DOMAIN f.peers : f.peers[k] \in Good
  BY <1>3 DEF FetchOk
<1>6. f.pc = "err" => excused'
  BY <1>3 DEF FetchOk
<1> QED
  BY <1>2, <1>4, <1>5, <1>6 DEF FetchOk

\* The invariant after a step of fetch i of task t, to f.
LEMMA FetchMoves ==
  ASSUME IInv, NEW t \in Tasks, NEW i \in DOMAIN fetches[t], NEW f \in Fetch,
         SetFetch(t, i, f), f.addr = fetches[t][i].addr, NetworkKept,
         f.conn \in 0..Len(conns'), FetchOk(f, conns', excused'),
         UNCHANGED <<task, chunks_fetched, lone>>
  PROVE  IInv'
<1>1. TypeOK
  BY DEF IInv
<1>2. /\ DOMAIN fetches' = Tasks
      /\ \A u \in Tasks : DOMAIN fetches'[u] = DOMAIN fetches[u]
      /\ fetches'[t][i] = f
      /\ \A u \in Tasks : \A j \in DOMAIN fetches[u] :
           (u = t /\ j = i) \/ fetches'[u][j] = fetches[u][j]
      /\ \A u \in Tasks : fetches'[u] \in [DOMAIN fetches'[u] -> Fetch]
  BY <1>1, SetFetchFacts
<1>3. ASSUME NEW u \in Tasks, NEW j \in DOMAIN fetches'[u]
      PROVE  /\ fetches'[u][j].conn \in 0..Len(conns')
             /\ FetchOk(fetches'[u][j], conns', excused')
             /\ fetches'[u][j].addr = fetches[u][j].addr
  <2>1. j \in DOMAIN fetches[u]
    BY <1>2
  <2>2. CASE u = t /\ j = i
    BY <1>2, <2>2
  <2>3. CASE fetches'[u][j] = fetches[u][j]
    <3>1. PICK g \in Fetch : g = fetches[u][j]
      BY <1>1, <2>1 DEF TypeOK
    <3>2. g.conn \in 0..Len(conns) /\ FetchOk(g, conns, excused)
      BY <2>1, <3>1 DEF IInv, TypeOK, FetchesInv
    <3> QED
      BY <1>1, <2>3, <3>1, <3>2, FetchKept
  <2> QED
    BY <1>2, <2>1, <2>2, <2>3
<1>4. TypeOK'
  <2>1. \A u \in Tasks :
          /\ fetches'[u] \in [DOMAIN fetches'[u] -> Fetch] /\ DOMAIN fetches'[u] \subseteq Nat
          /\ \A j \in DOMAIN fetches'[u] : fetches'[u][j].conn \in 0..Len(conns')
    BY <1>1, <1>2, <1>3 DEF TypeOK
  <2>2. /\ pool' \in [Peers -> 0..Len(conns')]
        /\ conns' \in Seq([peer : Peers, open : BOOLEAN]) /\ excused' \in BOOLEAN
    BY DEF NetworkKept
  <2>3. /\ task' \in [Tasks -> Task] /\ chunks_fetched' \in Nat /\ lone' \subseteq Tasks
    BY <1>1 DEF TypeOK
  <2> QED
    BY <1>2, <2>1, <2>2, <2>3 DEF TypeOK
<1>5. FetchesInv'
  BY <1>3 DEF FetchesInv
<1>6. TasksInv'
  <2> SUFFICES ASSUME NEW u \in Tasks PROVE TaskOk(task'[u], fetches'[u])
    BY DEF TasksInv
  <2>1. TaskOk(task[u], fetches[u]) /\ task'[u] = task[u]
    BY DEF IInv, TasksInv
  <2>2. DOMAIN fetches'[u] = DOMAIN fetches[u]
    BY <1>2
  <2> QED
    BY <1>3, <2>1, <2>2 DEF TaskOk
<1>7. DoneIsWholeFile'
  BY DEF IInv, DoneIsWholeFile
<1> QED
  BY <1>4, <1>5, <1>6, <1>7 DEF IInv, NetworkKept

\* The loop head of get_direct leaves the fetch in order, as long as there is
\* an excuse or a Good peer among those still to try.
LEMMA TryPeersFacts ==
  ASSUME TypeOK, PoolInv, NEW f \in Fetch, NEW peers \in Seq(Peers), NEW ex \in BOOLEAN,
         ex \/ \E k \in DOMAIN peers : peers[k] \in Good
  PROVE  /\ TryPeers(f, peers) \in Fetch
         /\ TryPeers(f, peers).addr = f.addr
         /\ TryPeers(f, peers).conn \in 0..Len(conns)
         /\ FetchOk(TryPeers(f, peers), conns, ex)
<1>1. Len(conns) \in Nat /\ pool \in [Peers -> 0..Len(conns)]
  BY DEF TypeOK
<1>2. CASE peers = <<>>
  <2>1. PICK g : g = TryPeers(f, peers) /\ g = [f EXCEPT !.pc = "err", !.peers = <<>>, !.conn = 0]
    BY <1>2 DEF TryPeers
  <2>2. g \in Fetch /\ g.addr = f.addr /\ g.conn = 0 /\ g.pc = "err"
    <3>1. PICK e \in Seq(Peers) : e = <<>>
      BY NoPeers
    <3>2. g = [f EXCEPT !.pc = "err", !.peers = e, !.conn = 0]
      BY <2>1, <3>1
    <3> QED
      BY <3>2 DEF Fetch
  <2>3. ex
    BY <1>2
  <2>4. FetchOk(g, conns, ex)
    BY <2>2, <2>3 DEF FetchOk
  <2> QED
    BY <1>1, <2>1, <2>2, <2>4
<1>3. CASE peers # <<>>
  <2>1. PICK p \in Peers : p = Head(peers)
    BY <1>3
  <2>2. PICK c \in Nat : c = pool[p] /\ c \in 0..Len(conns)
    BY <1>1
  <2>3. PICK g : /\ g = TryPeers(f, peers)
                 /\ g = [f EXCEPT !.pc = IF c = 0 THEN "connect" ELSE "get",
                                  !.peers = peers, !.conn = c]
    BY <1>3, <2>1, <2>2 DEF TryPeers
  <2>4. /\ g \in Fetch /\ g.addr = f.addr /\ g.conn = c /\ g.peers = peers
        /\ g.pc = IF c = 0 THEN "connect" ELSE "get"
    BY <2>3 DEF Fetch
  <2>5. g.pc = "get" => g.conn # 0 /\ conns[g.conn].peer = Head(g.peers)
    BY <2>1, <2>2, <2>4 DEF PoolInv
  <2>6. FetchOk(g, conns, ex)
    BY <1>3, <2>4, <2>5 DEF FetchOk
  <2> QED
    BY <2>2, <2>3, <2>4, <2>6
<1> QED
  BY <1>2, <1>3

\* A step that leaves pool and connections alone and only adds an excuse.
LEMMA NetworkUnchanged ==
  ASSUME IInv, UNCHANGED <<pool, conns>>, excused' \in BOOLEAN, excused => excused'
  PROVE  NetworkKept
<1>1. Len(conns) \in Nat
  BY DEF IInv, TypeOK
<1>2. PoolInv'
  BY DEF IInv, PoolInv
<1>3. Healthy'
  BY DEF IInv, Healthy
<1> QED
  BY <1>1, <1>2, <1>3 DEF IInv, TypeOK, NetworkKept

\* A Good peer among peers whose head is not Good is in the tail.
LEMMA GoodInTail ==
  ASSUME NEW peers \in Seq(Peers), peers # <<>>, Head(peers) \notin Good,
         NEW k \in DOMAIN peers, peers[k] \in Good
  PROVE  \E j \in DOMAIN Tail(peers) : Tail(peers)[j] \in Good
<1>1. PICK n \in Nat : n = Len(peers) /\ DOMAIN peers = 1..n
  OBVIOUS
<1>2. k \in 1..n /\ k # 1
  BY <1>1
<1>3. k - 1 \in 1..(n - 1) /\ (k - 1) + 1 = k
  BY <1>2
<1>4. DOMAIN Tail(peers) = 1..(n - 1) /\ Tail(peers)[k - 1] = peers[(k - 1) + 1]
  BY <1>1, <1>3
<1> QED
  BY <1>3, <1>4

\* closest_peers answers.
LEMMA DiscoveredIInv ==
  ASSUME IInv, NEW t \in Tasks, NEW i \in DOMAIN fetches[t], NEW peers \in PeerLists,
         Discovered(t, i, peers)
  PROVE  IInv'
<1>1. PICK f \in Fetch : f = fetches[t][i]
  BY DEF IInv, TypeOK
<1>2. peers \in Seq(Peers)
  BY PeerListsFacts
<1>3. /\ excused' = (excused \/ \A k \in DOMAIN peers : peers[k] \notin Good)
      /\ SetFetch(t, i, TryPeers(f, peers))
      /\ UNCHANGED <<task, pool, conns, chunks_fetched, lone>>
  BY <1>1 DEF Discovered, Excuse
<1>4. excused' \in BOOLEAN /\ (excused => excused')
  BY <1>3
<1>5. excused' \/ \E k \in DOMAIN peers : peers[k] \in Good
  BY <1>3
<1>6. PICK ex \in BOOLEAN : ex = excused'
  BY <1>4
<1>7. PICK g : g = TryPeers(f, peers)
  OBVIOUS
<1>8. g \in Fetch /\ g.addr = f.addr /\ g.conn \in 0..Len(conns) /\ FetchOk(g, conns, excused')
  BY <1>2, <1>5, <1>6, <1>7, TryPeersFacts DEF IInv
<1>9. NetworkKept
  BY <1>3, <1>4, NetworkUnchanged
<1>10. /\ g.addr = fetches[t][i].addr /\ g.conn \in 0..Len(conns')
       /\ FetchOk(g, conns', excused') /\ SetFetch(t, i, g)
  BY <1>1, <1>3, <1>7, <1>8
<1> QED
  BY <1>3, <1>8, <1>9, <1>10, FetchMoves

\* closest_peers fails.
LEMMA DiscoveryFailsIInv ==
  ASSUME IInv, NEW t \in Tasks, NEW i \in DOMAIN fetches[t], DiscoveryFails(t, i)
  PROVE  IInv'
<1>1. PICK f \in Fetch : f = fetches[t][i]
  BY DEF IInv, TypeOK
<1>2. /\ excused' = TRUE
      /\ SetFetch(t, i, [f EXCEPT !.pc = "err"])
      /\ UNCHANGED <<task, pool, conns, chunks_fetched, lone>>
  BY <1>1 DEF DiscoveryFails, Excuse
<1>3. PICK g : g = [f EXCEPT !.pc = "err"]
  OBVIOUS
<1>4. g \in Fetch /\ g.addr = f.addr /\ g.conn = f.conn /\ g.pc = "err"
  BY <1>3 DEF Fetch
<1>5. f.conn \in 0..Len(conns)
  BY <1>1 DEF IInv, TypeOK
<1>6. NetworkKept
  BY <1>2, NetworkUnchanged
<1>7. FetchOk(g, conns', excused')
  BY <1>2, <1>4 DEF FetchOk
<1>8. g.addr = fetches[t][i].addr /\ g.conn \in 0..Len(conns') /\ SetFetch(t, i, g)
  BY <1>1, <1>2, <1>3, <1>4, <1>5
<1> QED
  BY <1>2, <1>4, <1>6, <1>7, <1>8, FetchMoves

\* The loop goes on to the next peer: the one that failed was not a Good peer
\* or there is an excuse.
LEMMA NextPeerIInv ==
  ASSUME IInv, NEW t \in Tasks, NEW i \in DOMAIN fetches[t],
         NEW f \in Fetch, f = fetches[t][i], f.pc \in {"connect", "get"},
         SetFetch(t, i, TryPeers(f, Tail(f.peers))),
         excused \/ Head(f.peers) \notin Good,
         UNCHANGED <<task, pool, conns, chunks_fetched, lone, excused>>
  PROVE  IInv'
<1>1. /\ f.peers \in Seq(Peers) /\ f.peers # <<>> /\ excused \in BOOLEAN
      /\ excused \/ \E k \in DOMAIN f.peers : f.peers[k] \in Good
  BY DEF IInv, FetchesInv, FetchOk, Fetch, TypeOK
<1>2. Tail(f.peers) \in Seq(Peers)
  BY <1>1
<1>3. excused \/ \E k \in DOMAIN Tail(f.peers) : Tail(f.peers)[k] \in Good
  BY <1>1, GoodInTail
<1>4. PICK g : g = TryPeers(f, Tail(f.peers))
  OBVIOUS
<1>5. PICK ex \in BOOLEAN : ex = excused
  BY <1>1
<1>6. g \in Fetch /\ g.addr = f.addr /\ g.conn \in 0..Len(conns) /\ FetchOk(g, conns, excused)
  BY <1>2, <1>3, <1>4, <1>5, TryPeersFacts DEF IInv
<1>7. NetworkKept
  BY <1>1, NetworkUnchanged
<1>8. /\ g.addr = fetches[t][i].addr /\ g.conn \in 0..Len(conns')
      /\ FetchOk(g, conns', excused') /\ SetFetch(t, i, g)
  BY <1>4, <1>6
<1> QED
  BY <1>6, <1>7, <1>8, FetchMoves

\* A connect fails: the next peer is tried.
LEMMA ConnectFailsIInv ==
  ASSUME IInv, NEW t \in Tasks, NEW i \in DOMAIN fetches[t], ConnectFails(t, i)
  PROVE  IInv'
<1>1. PICK f \in Fetch : f = fetches[t][i]
  BY DEF IInv, TypeOK
<1>2. /\ f.pc = "connect" /\ Head(f.peers) \notin Good
      /\ SetFetch(t, i, TryPeers(f, Tail(f.peers)))
      /\ UNCHANGED <<task, pool, conns, chunks_fetched, lone, excused>>
  BY <1>1 DEF ConnectFails
<1> QED
  BY <1>1, <1>2, NextPeerIInv

\* get_verified fails: the next peer is tried, or get_direct gives up.
LEMMA GetFailsIInv ==
  ASSUME IInv, NEW t \in Tasks, NEW i \in DOMAIN fetches[t], GetFails(t, i)
  PROVE  IInv'
<1>1. PICK f \in Fetch : f = fetches[t][i]
  BY DEF IInv, TypeOK
<1>2. /\ f.pc = "get" /\ (~conns[f.conn].open \/ Head(f.peers) \notin Good)
      /\ SetFetch(t, i, TryPeers(f, Tail(f.peers)))
      /\ UNCHANGED <<task, pool, conns, chunks_fetched, lone, excused>>
  BY <1>1 DEF GetFails, AfterGetErr
<1>3. /\ f.conn # 0 /\ f.conn \in 0..Len(conns) /\ conns[f.conn].peer = Head(f.peers)
  BY <1>1, <1>2 DEF IInv, TypeOK, FetchesInv, FetchOk
<1>4. f.conn \in DOMAIN conns
  BY <1>3 DEF IInv, TypeOK
<1>5. excused \/ Head(f.peers) \notin Good
  BY <1>2, <1>3, <1>4 DEF IInv, Healthy
<1> QED
  BY <1>1, <1>2, <1>5, NextPeerIInv

\* get_verified returns the content of the address.
LEMMA GetOkIInv ==
  ASSUME IInv, NEW t \in Tasks, NEW i \in DOMAIN fetches[t], NEW f \in Fetch, f = fetches[t][i],
         NEW b \in Addresses, b = f.addr,
         SetFetch(t, i, [f EXCEPT !.pc = "ok", !.peers = <<>>, !.conn = 0, !.content = <<b>>]),
         UNCHANGED <<task, pool, conns, chunks_fetched, lone, excused>>
  PROVE  IInv'
<1>3. PICK g : g = [f EXCEPT !.pc = "ok", !.peers = <<>>, !.conn = 0, !.content = <<b>>]
  OBVIOUS
<1>4. g \in Fetch /\ g.addr = f.addr /\ g.conn = 0 /\ g.pc = "ok" /\ g.content = <<b>>
  <2>1. PICK e \in Seq(Peers) : e = <<>>
    BY NoPeers
  <2>2. PICK c \in {<<>>} \cup {<<d>> : d \in Addresses} : c = <<b>>
    OBVIOUS
  <2>3. g = [f EXCEPT !.pc = "ok", !.peers = e, !.conn = 0, !.content = c]
    BY <1>3, <2>1, <2>2
  <2>4. g \in Fetch /\ g.addr = f.addr /\ g.conn = 0 /\ g.pc = "ok" /\ g.content = c
    BY <2>3 DEF Fetch
  <2> QED
    BY <2>2, <2>4
<1>5. Len(conns) \in Nat /\ excused \in BOOLEAN
  BY DEF IInv, TypeOK
<1>6. NetworkKept
  BY <1>5, NetworkUnchanged
<1>7. FetchOk(g, conns', excused')
  BY <1>4 DEF FetchOk
<1>8. g.addr = fetches[t][i].addr /\ g.conn \in 0..Len(conns') /\ SetFetch(t, i, g)
  BY <1>3, <1>4, <1>5
<1> QED
  BY <1>4, <1>6, <1>7, <1>8, FetchMoves

\* The peer serves some bytes: the content, or the next peer is tried.
LEMMA GetAnsweredIInv ==
  ASSUME IInv, NEW t \in Tasks, NEW i \in DOMAIN fetches[t], NEW b \in Addresses,
         GetAnswered(t, i, b)
  PROVE  IInv'
<1>1. PICK f \in Fetch : f = fetches[t][i]
  BY DEF IInv, TypeOK
<1>2. /\ f.pc = "get" /\ (Head(f.peers) \in Good => b = f.addr)
      /\ SetFetch(t, i, IF b = f.addr
                        THEN [f EXCEPT !.pc = "ok", !.peers = <<>>, !.conn = 0, !.content = <<b>>]
                        ELSE TryPeers(f, Tail(f.peers)))
      /\ UNCHANGED <<task, pool, conns, chunks_fetched, lone, excused>>
  BY <1>1 DEF GetAnswered, GetVerified, AfterGetErr
<1>3. CASE b = f.addr
  <2>1. SetFetch(t, i, [f EXCEPT !.pc = "ok", !.peers = <<>>, !.conn = 0, !.content = <<b>>])
    BY <1>2, <1>3
  <2> QED
    BY <1>1, <1>2, <1>3, <2>1, GetOkIInv
<1>4. CASE b # f.addr
  <2>1. SetFetch(t, i, TryPeers(f, Tail(f.peers))) /\ Head(f.peers) \notin Good
    BY <1>2, <1>4
  <2> QED
    BY <1>1, <1>2, <2>1, NextPeerIInv
<1> QED
  BY <1>3, <1>4

\* connect adds a connection of the peer in hand and files it under the peer.
LEMMA ConnectOkIInv ==
  ASSUME IInv, NEW t \in Tasks, NEW i \in DOMAIN fetches[t], ConnectOk(t, i)
  PROVE  IInv'
<1>1. PICK f \in Fetch : f = fetches[t][i]
  BY DEF IInv, TypeOK
<1>2. PICK n \in Nat : n = Len(conns)
  BY DEF IInv, TypeOK
<1>3. /\ f.pc = "connect"
      /\ conns' = Append(conns, [peer |-> Head(f.peers), open |-> TRUE])
      /\ pool' = [pool EXCEPT ![Head(f.peers)] = n + 1]
      /\ SetFetch(t, i, [f EXCEPT !.pc = "get", !.conn = n + 1])
      /\ UNCHANGED <<task, chunks_fetched, lone, excused>>
  BY <1>1, <1>2 DEF ConnectOk
<1>4. /\ f.peers \in Seq(Peers) /\ f.peers # <<>>
      /\ excused \/ \E k \in DOMAIN f.peers : f.peers[k] \in Good
  BY <1>1, <1>3 DEF IInv, FetchesInv, FetchOk, Fetch
<1>5. PICK p \in Peers : p = Head(f.peers)
  BY <1>4
<1>6. PICK g : g = [f EXCEPT !.pc = "get", !.conn = n + 1]
  OBVIOUS
<1>7. /\ g \in Fetch /\ g.addr = f.addr /\ g.conn = n + 1 /\ g.pc = "get"
      /\ g.peers = f.peers
  <2>1. PICK m \in Nat : m = n + 1
    OBVIOUS
  <2>2. g = [f EXCEPT !.pc = "get", !.conn = m]
    BY <1>6, <2>1
  <2>3. g \in Fetch /\ g.addr = f.addr /\ g.conn = m /\ g.pc = "get" /\ g.peers = f.peers
    BY <2>2 DEF Fetch
  <2> QED
    BY <2>1, <2>3
<1>8. /\ conns \in Seq([peer : Peers, open : BOOLEAN])
      /\ pool \in [Peers -> 0..n] /\ excused \in BOOLEAN
  BY <1>2 DEF IInv, TypeOK
<1>9. PICK c : c = [peer |-> p, open |-> TRUE] /\ c \in [peer : Peers, open : BOOLEAN]
  <2>1. [peer |-> p, open |-> TRUE] \in [peer : Peers, open : BOOLEAN]
    OBVIOUS
  <2> QED
    BY <2>1, Zenon
<1>10. /\ conns' \in Seq([peer : Peers, open : BOOLEAN]) /\ Len(conns') = n + 1
       /\ \A k \in 1..n : conns'[k] = conns[k]
       /\ conns'[n + 1] = c
  BY <1>2, <1>3, <1>5, <1>8, <1>9
<1>11. c.peer = p /\ c.open = TRUE
  BY <1>9
<1>12. pool' \in [Peers -> 0..Len(conns')]
  BY <1>3, <1>5, <1>8, <1>10
<1>13. PoolInv'
  <2> SUFFICES ASSUME NEW q \in Peers, pool'[q] # 0 PROVE conns'[pool'[q]].peer = q
    BY DEF PoolInv
  <2>1. CASE q = p
    BY <1>3, <1>5, <1>8, <1>10, <1>11, <2>1
  <2>2. CASE q # p
    <3>1. pool'[q] = pool[q] /\ pool[q] \in 1..n
      BY <1>3, <1>5, <1>8, <2>2
    <3> QED
      BY <1>10, <3>1 DEF IInv, PoolInv
  <2> QED
    BY <2>1, <2>2
<1>14. Healthy'
  <2> SUFFICES ASSUME ~excused, NEW k \in 1..(n + 1), conns'[k].peer \in Good
               PROVE  conns'[k].open
    <3>1. DOMAIN conns' = 1..(n + 1)
      BY <1>10
    <3> QED
      BY <1>3, <3>1 DEF Healthy
  <2>1. CASE k = n + 1
    BY <1>10, <1>11, <2>1
  <2>2. CASE k \in 1..n
    <3>1. k \in DOMAIN conns /\ conns'[k] = conns[k]
      BY <1>2, <1>8, <1>10, <2>2
    <3> QED
      BY <3>1 DEF IInv, Healthy
  <2> QED
    BY <2>1, <2>2
<1>15. NetworkKept
  BY <1>2, <1>3, <1>8, <1>10, <1>12, <1>13, <1>14 DEF NetworkKept
<1>16. FetchOk(g, conns', excused')
  BY <1>3, <1>4, <1>5, <1>7, <1>10, <1>11 DEF FetchOk
<1>17. g.addr = fetches[t][i].addr /\ g.conn \in 0..Len(conns') /\ SetFetch(t, i, g)
  BY <1>1, <1>3, <1>6, <1>7, <1>10
<1> QED
  BY <1>3, <1>7, <1>15, <1>16, <1>17, FetchMoves

-----------------------------------------------------------------------------
(* Steps of a task                                                         *)

\* Fetches that have not begun, as join_all starts them.
Fresh(fs) ==
  /\ DOMAIN fs \subseteq Nat /\ fs \in [DOMAIN fs -> Fetch]
  /\ \A i \in DOMAIN fs : fs[i].pc = "discover" /\ fs[i].conn = 0

\* A task without fetches.
LEMMA NoneIsFresh == Fresh(<<>>) /\ DOMAIN <<>> = {}
BY DEF Fresh

\* The fetches a round starts with.
LEMMA NewFetchFacts ==
  ASSUME NEW a \in Addresses
  PROVE  /\ NewFetch(a) \in Fetch /\ NewFetch(a).addr = a
         /\ NewFetch(a).pc = "discover" /\ NewFetch(a).conn = 0
<1>1. PICK e \in Seq(Peers) : e = <<>>
  BY NoPeers
<1>2. PICK c \in {<<>>} \cup {<<b>> : b \in Addresses} : c = <<>>
  OBVIOUS
<1>3. NewFetch(a) = [pc |-> "discover", addr |-> a, peers |-> e, conn |-> 0, content |-> c]
  BY <1>1, <1>2 DEF NewFetch
<1> QED
  BY <1>3 DEF Fetch

\* What a call has returned.
DoneOk(x) ==
  x.pc = "done" =>
    x.result = IF x.op = "download" THEN Levels[x.addr][1] ELSE <<x.addr>>

\* The invariant after task t has become x, with the fetches fs.
LEMMA TaskMoves ==
  ASSUME IInv, NEW t \in Tasks, NEW x \in Task, NEW fs, Fresh(fs),
         task' = [task EXCEPT ![t] = x], fetches' = [fetches EXCEPT ![t] = fs],
         UNCHANGED <<pool, conns, excused>>,
         chunks_fetched' \in Nat, lone' \subseteq Tasks,
         TaskOk(x, fs), DoneOk(x)
  PROVE  IInv'
<1>1. /\ task \in [Tasks -> Task] /\ DOMAIN fetches = Tasks /\ Len(conns) \in Nat
  BY DEF IInv, TypeOK
<1>2. /\ task' \in [Tasks -> Task] /\ task'[t] = x
      /\ \A u \in Tasks : u # t => task'[u] = task[u]
  BY <1>1
<1>3. /\ DOMAIN fetches' = Tasks /\ fetches'[t] = fs
      /\ \A u \in Tasks : u # t => fetches'[u] = fetches[u]
  BY <1>1
<1>4. ASSUME NEW i \in DOMAIN fs PROVE fs[i].conn \in 0..Len(conns) /\ FetchOk(fs[i], conns, excused)
  BY <1>1 DEF Fresh, FetchOk
<1>5. TypeOK'
  <2>1. ASSUME NEW u \in Tasks
        PROVE  /\ fetches'[u] \in [DOMAIN fetches'[u] -> Fetch] /\ DOMAIN fetches'[u] \subseteq Nat
               /\ \A i \in DOMAIN fetches'[u] : fetches'[u][i].conn \in 0..Len(conns')
    <3>1. CASE u = t
      BY <1>3, <1>4, <3>1 DEF Fresh
    <3>2. CASE u # t
      BY <1>3, <3>2 DEF IInv, TypeOK
    <3> QED
      BY <3>1, <3>2
  <2>2. /\ pool' \in [Peers -> 0..Len(conns')]
        /\ conns' \in Seq([peer : Peers, open : BOOLEAN]) /\ excused' \in BOOLEAN
    BY DEF IInv, TypeOK
  <2> QED
    BY <1>2, <1>3, <2>1, <2>2 DEF TypeOK
<1>6. PoolInv' /\ Healthy'
  BY DEF IInv, PoolInv, Healthy
<1>7. FetchesInv'
  <2> SUFFICES ASSUME NEW u \in Tasks, NEW i \in DOMAIN fetches'[u]
               PROVE  FetchOk(fetches'[u][i], conns', excused')
    BY DEF FetchesInv
  <2>1. CASE u = t
    BY <1>3, <1>4, <2>1
  <2>2. CASE u # t
    BY <1>3, <2>2 DEF IInv, FetchesInv
  <2> QED
    BY <2>1, <2>2
<1>8. TasksInv'
  <2> SUFFICES ASSUME NEW u \in Tasks PROVE TaskOk(task'[u], fetches'[u])
    BY DEF TasksInv
  <2> QED
    BY <1>2, <1>3 DEF IInv, TasksInv
<1>9. DoneIsWholeFile'
  <2> SUFFICES ASSUME NEW u \in Tasks PROVE DoneOk(task'[u])
    BY DEF DoneIsWholeFile, DoneOk
  <2> QED
    BY <1>2 DEF IInv, DoneIsWholeFile, DoneOk
<1> QED
  BY <1>5, <1>6, <1>7, <1>8, <1>9 DEF IInv

\* A call starts.
LEMMA StartIInv ==
  ASSUME IInv, NEW t \in Tasks, NEW op \in {"download", "fetch_chunk"},
         NEW a \in Addresses, Start(t, op, a)
  PROVE  IInv'
<1>1. PICK x : /\ x = [pc |-> IF op = "download" THEN "map" ELSE "chunk", op |-> op,
                       addr |-> a, retrieval |-> <<>>, result |-> NoResult]
               /\ task' = [task EXCEPT ![t] = x]
  BY DEF Start
<1>2. /\ x \in Task /\ x.op = op /\ x.pc = IF op = "download" THEN "map" ELSE "chunk"
      /\ x.addr = a
  <2>1. PICK e \in Seq(Addresses) : e = NoResult
    <3>1. NoResult \in Seq(Addresses)
      BY DEF NoResult
    <3> QED
      BY <3>1
  <2>2. PICK r \in {<<>>} \cup RetrievalState : r = <<>>
    OBVIOUS
  <2>3. x = [pc |-> IF op = "download" THEN "map" ELSE "chunk", op |-> op,
             addr |-> a, retrieval |-> r, result |-> e]
    BY <1>1, <2>1, <2>2
  <2> QED
    BY <2>3 DEF Task
<1>3. PICK fs : /\ fs = <<NewFetch(a)>> /\ fetches' = [fetches EXCEPT ![t] = fs]
                /\ Fresh(fs) /\ DOMAIN fs = {1} /\ fs[1].addr = a
  <2>1. PICK f \in Fetch : f = NewFetch(a) /\ f.pc = "discover" /\ f.conn = 0 /\ f.addr = a
    BY NewFetchFacts
  <2>2. DOMAIN <<f>> = {1} /\ <<f>>[1] = f /\ <<f>> \in [{1} -> Fetch]
    OBVIOUS
  <2>3. Fresh(<<f>>)
    BY <2>1, <2>2 DEF Fresh
  <2> QED
    BY <2>1, <2>2, <2>3 DEF Start
<1>4. TaskOk(x, fs) /\ DoneOk(x)
  BY <1>2, <1>3 DEF TaskOk, DoneOk
<1>5. /\ UNCHANGED <<pool, conns, excused>>
      /\ chunks_fetched' \in Nat /\ lone' \subseteq Tasks
  BY DEF Start, CountAtStart, IInv, TypeOK
<1> QED
  BY <1>1, <1>2, <1>3, <1>4, <1>5, TaskMoves

\* A call returns.
LEMMA EndTaskIInv ==
  ASSUME IInv, NEW t \in Tasks, NEW pc \in {"done", "failed"}, NEW result \in Seq(Addresses),
         EndTask(t, pc, result),
         UNCHANGED <<pool, conns, lone, excused>>, chunks_fetched' \in Nat,
         pc = "done" => result = IF task[t].op = "download" THEN Levels[task[t].addr][1]
                                                            ELSE <<task[t].addr>>
  PROVE  IInv'
<1>1. task \in [Tasks -> Task] /\ lone \subseteq Tasks
  BY DEF IInv, TypeOK
<1>2. PICK y \in Task : y = task[t]
  BY <1>1
<1>3. PICK x : x = [y EXCEPT !.pc = pc, !.result = result]
  OBVIOUS
<1>4. x \in Task /\ x.pc = pc /\ x.result = result /\ x.op = y.op /\ x.addr = y.addr
  BY <1>3 DEF Task
<1>5. task' = [task EXCEPT ![t] = x]
  BY <1>1, <1>2, <1>3 DEF EndTask
<1>6. fetches' = [fetches EXCEPT ![t] = <<>>]
  BY DEF EndTask
<1>7. TaskOk(x, <<>>) /\ DoneOk(x)
  BY <1>2, <1>4 DEF TaskOk, DoneOk
<1> QED
  BY <1>1, <1>4, <1>5, <1>6, <1>7, NoneIsFresh, TaskMoves

\* finish() finds every chunk of a complete retrieval in the cache, and of a
\* verified one it returns the map's own chunks.
LEMMA FinishFacts ==
  ASSUME NEW r, IsComplete(r)
  PROVE  /\ ~FinishFails(r)
         /\ Verified(r) /\ Infos(r) \in Seq(Chunks) => Finish(r) = Infos(r)
<1>1. \A i \in DOMAIN Infos(r) : Infos(r)[i] \in DOMAIN r.cache
  BY DEF IsComplete, RequiredAddresses
<1>2. ~FinishFails(r)
  BY <1>1 DEF FinishFails
<1>3. ASSUME Verified(r), Infos(r) \in Seq(Chunks) PROVE Finish(r) = Infos(r)
  <2>1. \A i \in DOMAIN Infos(r) : r.cache[Infos(r)[i]] = Infos(r)[i]
    BY <1>1, <1>3 DEF Verified
  <2>2. Finish(r) = [i \in DOMAIN Infos(r) |-> Infos(r)[i]]
    BY <2>1 DEF Finish
  <2> QED
    BY <1>3, <2>2
<1> QED
  BY <1>2, <1>3

\* The head of the while loop, with a retrieval that is complete or under way.
LEMMA NextRoundIInv ==
  ASSUME IInv, NEW t \in Tasks, task[t].op = "download", NEW r \in RetrievalState,
         NextRound(t, r), UNCHANGED <<pool, conns, lone, excused>>, chunks_fetched' \in Nat,
         r.file = task[t].addr, r.level \in 1..Outermost(r.file),
         r.root_resolved => r.level = 1, Verified(r),
         IsComplete(r) \/ Resolving(r, task[t].addr)
  PROVE  IInv'
<1>1. PICK y \in Task : y = task[t]
  BY DEF IInv, TypeOK
<1>2. r.file \in Files
  BY DEF RetrievalState
<1>3. Infos(r) \in Seq(Chunks)
  BY <1>2, LevelsFacts DEF Infos
<1>4. CASE IsComplete(r)
  <2>1. EndTask(t, "done", Finish(r))
    BY <1>4, FinishFacts DEF NextRound
  <2>2. Finish(r) = Infos(r)
    BY <1>3, <1>4, FinishFacts
  <2>3. Finish(r) = Levels[task[t].addr][1]
    BY <1>4, <2>2 DEF IsComplete, Infos
  <2>4. Finish(r) \in Seq(Addresses)
    BY <1>3, <2>2 DEF Addresses
  <2> QED
    BY <2>1, <2>3, <2>4, EndTaskIInv
<1>5. CASE ~IsComplete(r)
  <2>1. PICK x : x = [y EXCEPT !.pc = "round", !.retrieval = r]
    OBVIOUS
  <2>2. x \in Task /\ x.pc = "round" /\ x.retrieval = r /\ x.op = y.op /\ x.addr = y.addr
    BY <2>1 DEF Task
  <2>3. task' = [task EXCEPT ![t] = x]
    BY <1>1, <1>5, <2>1 DEF NextRound, IInv, TypeOK
  <2>4. PICK fs : /\ fs = [i \in RequiredAddresses(r) |-> NewFetch(Infos(r)[i])]
                  /\ fetches' = [fetches EXCEPT ![t] = fs]
    BY <1>5 DEF NextRound
  <2>5. DOMAIN fs = RequiredAddresses(r) /\ RequiredAddresses(r) \subseteq DOMAIN Infos(r)
    BY <2>4 DEF RequiredAddresses
  <2>6. ASSUME NEW i \in DOMAIN fs
        PROVE  fs[i] \in Fetch /\ fs[i].addr = Infos(r)[i] /\ fs[i].pc = "discover" /\ fs[i].conn = 0
    <3>1. Infos(r)[i] \in Addresses
      BY <1>3, <2>5 DEF Addresses
    <3> QED
      BY <2>4, <2>5, <3>1, NewFetchFacts
  <2>7. Fresh(fs)
    <3>1. DOMAIN fs \subseteq Nat
      BY <1>3, <2>5
    <3>2. fs \in [DOMAIN fs -> Fetch]
      BY <2>4, <2>6
    <3> QED
      BY <2>6, <3>1, <3>2 DEF Fresh
  <2>8. TaskOk(x, fs) /\ DoneOk(x)
    BY <1>1, <1>5, <2>2, <2>5, <2>6 DEF TaskOk, DoneOk
  <2>9. lone' \subseteq Tasks
    BY DEF IInv, TypeOK
  <2> QED
    BY <2>2, <2>3, <2>4, <2>7, <2>8, <2>9, TaskMoves
<1> QED
  BY <1>4, <1>5

\* The retrieval of a round, supplied with the fetches S.
Supplied(t, S) ==
  Supply(task[t].retrieval,
         {<<fetches[t][i].addr, fetches[t][i].content[1]>> : i \in S})

\* Verified chunks supplied to a verified cache leave it verified.
LEMMA SupplyFacts ==
  ASSUME NEW q \in RetrievalState, Verified(q), NEW got,
         \A g \in got : g[1] \in Addresses /\ g[2] = g[1],
         NEW r, r = Supply(q, got)
  PROVE  /\ r \in RetrievalState /\ r.file = q.file /\ r.level = q.level
         /\ r.root_resolved = q.root_resolved
         /\ DOMAIN r.cache = DOMAIN q.cache \cup {g[1] : g \in got}
         /\ Verified(r)
<1>1. PICK as \in SUBSET Addresses : as = {g[1] : g \in got}
  OBVIOUS
<1>2. \A a \in as : (CHOOSE g \in got : g[1] = a)[2] = a
  BY <1>1
<1>3. PICK c : /\ c = [a \in DOMAIN q.cache \cup as |->
                        IF a \in as THEN (CHOOSE g \in got : g[1] = a)[2] ELSE q.cache[a]]
               /\ r = [q EXCEPT !.cache = c]
  BY <1>1 DEF Supply
<1>4. DOMAIN c = DOMAIN q.cache \cup as /\ \A a \in DOMAIN c : c[a] = a
  BY <1>2, <1>3 DEF Verified
<1>5. DOMAIN q.cache \subseteq Addresses
  BY DEF RetrievalState, Cache
<1>6. c \in Cache
  <2>0. PICK D : D = DOMAIN q.cache \cup as
    OBVIOUS
  <2>1. DOMAIN c = D /\ D \in SUBSET Addresses /\ \A a \in D : c[a] \in Addresses
    BY <1>4, <1>5, <2>0
  <2>2. PICK e : e = [a \in D |-> IF a \in as THEN (CHOOSE g \in got : g[1] = a)[2]
                                              ELSE q.cache[a]]
    OBVIOUS
  <2>3. c \in [D -> Addresses]
    <3>1. c = e
      BY <1>3, <2>0, <2>2
    <3>2. \A a \in D : e[a] \in Addresses
      BY <2>1, <3>1
    <3>3. e \in [D -> Addresses]
      BY <2>2, <3>2
    <3> QED
      BY <3>1, <3>3
  <2> QED
    BY <2>1, <2>3 DEF Cache
<1>7. /\ r \in RetrievalState /\ r.file = q.file /\ r.level = q.level
      /\ r.root_resolved = q.root_resolved /\ r.cache = c
  BY <1>3, <1>6 DEF RetrievalState
<1> QED
  BY <1>1, <1>4, <1>7 DEF Verified

\* The retrieval after a round whose chunks all arrived: its map is complete,
\* and advance takes it to the root.
LEMMA RoundFacts ==
  ASSUME IInv, NEW t \in Tasks, task[t].pc = "round",
         \A i \in DOMAIN fetches[t] : fetches[t][i].pc = "ok",
         NEW r, r = Supplied(t, DOMAIN fetches[t])
  PROVE  /\ r \in RetrievalState /\ r.file = task[t].addr /\ r.file \in Files
         /\ r.level = task[t].retrieval.level
         /\ r.root_resolved = task[t].retrieval.root_resolved
         /\ RequiredAddresses(r) = {} /\ Verified(r)
         /\ Advance(r) \in RetrievalState /\ Advance(r).file = r.file
         /\ Advance(r).level = 1 /\ Advance(r).root_resolved = TRUE
         /\ Advance(r).cache = r.cache
         /\ r.root_resolved => IsComplete(Advance(r))
         /\ ~r.root_resolved => Resolving(Advance(r), task[t].addr)
<1>1. PICK y \in Task : y = task[t]
  BY DEF IInv, TypeOK
<1>2. PICK q, fs : q = y.retrieval /\ fs = fetches[t]
  OBVIOUS
<1>3. /\ Resolving(q, y.addr) /\ DOMAIN fs = RequiredAddresses(q)
      /\ \A i \in DOMAIN fs : fs[i].addr = Infos(q)[i]
  BY <1>1, <1>2 DEF IInv, TasksInv, TaskOk
<1>4. q \in RetrievalState /\ q.file = y.addr /\ q.file \in Files
  BY <1>1, <1>2, <1>3 DEF Task, Resolving
<1>5. PICK got, as : /\ got = {<<fs[i].addr, fs[i].content[1]>> : i \in DOMAIN fs}
                     /\ as = {g[1] : g \in got} /\ \A i \in DOMAIN fs : fs[i].addr \in as
                     /\ \A a \in as : \E i \in DOMAIN fs : a = fs[i].addr
                     /\ \A g \in got : g[1] \in Addresses /\ g[2] = g[1]
  <2>1. ASSUME NEW i \in DOMAIN fs PROVE fs[i].addr \in Addresses /\ fs[i].content[1] = fs[i].addr
    <3>1. fs[i] \in Fetch /\ FetchOk(fs[i], conns, excused) /\ fs[i].pc = "ok"
      BY <1>2 DEF IInv, TypeOK, FetchesInv
    <3>2. fs[i].content = <<fs[i].addr>>
      BY <3>1 DEF FetchOk
    <3> QED
      BY <3>1, <3>2 DEF Fetch
  <2>2. PICK got : got = {<<fs[i].addr, fs[i].content[1]>> : i \in DOMAIN fs}
    OBVIOUS
  <2>3. ASSUME NEW g \in got
        PROVE  \E i \in DOMAIN fs : g[1] = fs[i].addr /\ g[2] = fs[i].content[1]
    <3>1. PICK i \in DOMAIN fs : g = <<fs[i].addr, fs[i].content[1]>>
      BY <2>2
    <3> QED
      BY <3>1
  <2>4. ASSUME NEW i \in DOMAIN fs PROVE \E g \in got : g[1] = fs[i].addr
    <3>1. <<fs[i].addr, fs[i].content[1]>> \in got
      BY <2>2
    <3>2. <<fs[i].addr, fs[i].content[1]>>[1] = fs[i].addr
      OBVIOUS
    <3> QED
      BY <3>1, <3>2
  <2>5. \A i \in DOMAIN fs : fs[i].addr \in {g[1] : g \in got}
    BY <2>4
  <2>6. \A a \in {g[1] : g \in got} : \E i \in DOMAIN fs : a = fs[i].addr
    BY <2>3
  <2>7. \A g \in got : g[1] \in Addresses /\ g[2] = g[1]
    BY <2>1, <2>3
  <2> QED
    BY <2>2, <2>5, <2>6, <2>7
<1>6. r = Supply(q, got)
  BY <1>1, <1>2, <1>5 DEF Supplied
<1>7. /\ r \in RetrievalState /\ r.file = q.file /\ r.level = q.level
      /\ r.root_resolved = q.root_resolved /\ DOMAIN r.cache = DOMAIN q.cache \cup as
      /\ Verified(r)
  <2>1. Verified(q)
    BY <1>3 DEF Resolving
  <2> QED
    BY <1>4, <1>5, <1>6, <2>1, SupplyFacts
<1>8. Infos(r) = Infos(q)
  BY <1>7 DEF Infos
<1>9. RequiredAddresses(r) = {}
  <2> SUFFICES ASSUME NEW i \in DOMAIN Infos(q), Infos(q)[i] \notin DOMAIN r.cache PROVE FALSE
    BY <1>8 DEF RequiredAddresses
  <2>1. i \in RequiredAddresses(q)
    BY <1>7 DEF RequiredAddresses
  <2>2. Infos(q)[i] \in as
    BY <1>3, <1>5, <2>1
  <2> QED
    BY <1>7, <2>2
<1>10. CASE r.root_resolved
  <2>1. Advance(r) = r
    BY <1>10 DEF Advance, AdvanceNeeded
  <2>2. IsComplete(r)
    BY <1>9, <1>10 DEF IsComplete
  <2>3. r.level = 1 /\ r.root_resolved = TRUE
    BY <1>3, <1>7, <1>10 DEF Resolving, RetrievalState
  <2> QED
    BY <1>1, <1>2, <1>4, <1>7, <1>9, <2>1, <2>2, <2>3
<1>11. CASE ~r.root_resolved
  <2>1. Advance(r) = [r EXCEPT !.level = 1, !.root_resolved = TRUE]
    BY <1>9, <1>11 DEF Advance, AdvanceNeeded
  <2>2. PICK z : z = Advance(r)
    OBVIOUS
  <2>3. /\ z \in RetrievalState /\ z.file = r.file /\ z.level = 1 /\ z.root_resolved = TRUE
        /\ z.cache = r.cache /\ z # <<>>
    <3>0. PICK n \in Nat \ {0} : n = 1
      OBVIOUS
    <3>1. PICK b \in BOOLEAN : b = TRUE
      BY Zenon
    <3>2. z = [file |-> r.file, level |-> n, root_resolved |-> b, cache |-> r.cache]
      BY <1>7, <2>1, <2>2, <3>0, <3>1 DEF RetrievalState
    <3>3. /\ z \in RetrievalState /\ z.file = r.file /\ z.level = n /\ z.root_resolved = b
          /\ z.cache = r.cache
      BY <1>7, <3>2 DEF RetrievalState
    <3>4. z # <<>>
      BY <3>2
    <3> QED
      BY <3>0, <3>1, <3>3, <3>4
  <2>4. q.level = Outermost(y.addr) /\ DOMAIN q.cache = {} /\ q.level # 1
    BY <1>3, <1>7, <1>11 DEF Resolving
  <2>5. Outermost(y.addr) > 1
    BY <1>4, <2>4, LevelsFacts
  <2>6. DOMAIN z.cache \subseteq Wrappers(y.addr)
    <3>1. Infos(q) = Levels[y.addr][Outermost(y.addr)]
      BY <1>4, <2>4 DEF Infos
    <3>2. \A i \in DOMAIN fs : i \in DOMAIN Infos(q) /\ fs[i].addr = Infos(q)[i]
      BY <1>3 DEF RequiredAddresses
    <3>3. as \subseteq Wrappers(y.addr)
      BY <1>5, <3>1, <3>2 DEF Wrappers
    <3> QED
      BY <1>7, <2>3, <2>4, <3>3
  <2>8. Resolving(z, y.addr)
    BY <1>4, <1>7, <2>3, <2>5, <2>6 DEF Resolving, Verified
  <2>9. Resolving(Advance(r), y.addr)
    BY <2>2, <2>8
  <2> QED
    BY <1>1, <1>2, <1>4, <1>7, <1>9, <1>11, <2>2, <2>3, <2>9
<1> QED
  BY <1>10, <1>11

\* How many chunks of a round are supplied before the first error.
LEMMA SuppliedFacts ==
  ASSUME NEW fs, NEW f \in Files, NEW k \in 1..Outermost(f), DOMAIN fs \subseteq DOMAIN Levels[f][k],
         NEW S \in SUBSET DOMAIN fs
  PROVE  Cardinality(S) \in Nat
<1>1. Levels[f][k] \in Seq(Chunks)
  BY LevelsFacts
<1>2. PICK n \in Nat : DOMAIN Levels[f][k] = 1..n
  BY <1>1
<1>3. IsFiniteSet(1..n)
  BY FS_Interval
<1>4. S \subseteq 1..n
  BY <1>2
<1> QED
  BY <1>3, <1>4, FS_Subset, FS_CardinalityType

\* fetch_chunk returns the content of the address, or its fetch failed.
LEMMA ChunkCases ==
  ASSUME IInv, NEW t \in Tasks, FetchChunkReturns(t)
  PROVE  /\ task[t].op = "fetch_chunk" /\ chunks_fetched' = chunks_fetched
         /\ UNCHANGED <<pool, conns, lone, excused>>
         /\ \/ EndTask(t, "done", <<task[t].addr>>)
            \/ fetches[t][1].pc = "err" /\ EndTask(t, "failed", NoResult)
         /\ 1 \in DOMAIN fetches[t]
<1>1. /\ task[t].pc = "chunk" /\ Joined(t) /\ UNCHANGED <<pool, conns, chunks_fetched, lone, excused>>
      /\ IF fetches[t][1].pc = "ok" THEN EndTask(t, "done", fetches[t][1].content)
                                    ELSE EndTask(t, "failed", NoResult)
  BY DEF FetchChunkReturns
<1>2. /\ DOMAIN fetches[t] = {1} /\ fetches[t][1].addr = task[t].addr /\ task[t].op = "fetch_chunk"
  BY <1>1 DEF IInv, TasksInv, TaskOk
<1>3. /\ fetches[t][1].pc \in {"ok", "err"}
      /\ fetches[t][1].pc = "ok" => fetches[t][1].content = <<task[t].addr>>
  BY <1>1, <1>2 DEF Joined, IInv, FetchesInv, FetchOk
<1> QED
  BY <1>1, <1>2, <1>3

\* fetch_chunk returns.
LEMMA FetchChunkReturnsIInv ==
  ASSUME IInv, NEW t \in Tasks, FetchChunkReturns(t)
  PROVE  IInv'
<1>1. PICK y \in Task : y = task[t]
  BY DEF IInv, TypeOK
<1>2. /\ y.op = "fetch_chunk" /\ chunks_fetched' \in Nat
      /\ UNCHANGED <<pool, conns, lone, excused>>
  BY <1>1, ChunkCases DEF IInv, TypeOK
<1>3. CASE EndTask(t, "done", <<task[t].addr>>)
  <2>1. <<task[t].addr>> \in Seq(Addresses)
    BY <1>1 DEF Task
  <2> QED
    BY <1>1, <1>2, <1>3, <2>1, EndTaskIInv
<1>4. CASE EndTask(t, "failed", NoResult)
  BY <1>2, <1>4, NoResultFacts, EndTaskIInv
<1> QED
  BY <1>3, <1>4, ChunkCases

\* MapFetched in three cases: the fetch failed, the address holds no data map,
\* or the first round begins.
LEMMA MapCases ==
  ASSUME IInv, NEW t \in Tasks, MapFetched(t)
  PROVE  /\ task[t].pc = "map" /\ task[t].op = "download" /\ UNCHANGED <<pool, conns, lone, excused>>
         /\ 1 \in DOMAIN fetches[t]
         /\ \/ /\ fetches[t][1].pc = "err" /\ EndTask(t, "failed", NoResult)
               /\ chunks_fetched' = chunks_fetched
            \/ /\ task[t].addr \notin Files /\ EndTask(t, "failed", NoResult)
               /\ chunks_fetched' = chunks_fetched + 1
            \/ /\ task[t].addr \in Files /\ NextRound(t, Begin(task[t].addr))
               /\ chunks_fetched' = chunks_fetched + 1
<1>1. PICK f : f = fetches[t][1]
  OBVIOUS
<1>2. /\ task[t].pc = "map" /\ Joined(t) /\ UNCHANGED <<pool, conns, lone, excused>>
      /\ IF f.pc = "err"
         THEN EndTask(t, "failed", NoResult) /\ UNCHANGED chunks_fetched
         ELSE /\ chunks_fetched' = chunks_fetched + 1
              /\ IF BeginFails(task[t].addr, f.content[1])
                 THEN EndTask(t, "failed", NoResult)
                 ELSE NextRound(t, Begin(f.content[1]))
  BY <1>1 DEF MapFetched
<1>3. /\ DOMAIN fetches[t] = {1} /\ f.addr = task[t].addr /\ task[t].op = "download"
  BY <1>1, <1>2 DEF IInv, TasksInv, TaskOk
<1>4. f.pc # "err" => f.content = <<task[t].addr>>
  BY <1>1, <1>2, <1>3 DEF Joined, IInv, FetchesInv, FetchOk
<1>5. CASE f.pc = "err"
  BY <1>1, <1>2, <1>3, <1>5
<1>6. CASE f.pc # "err"
  <2>1. f.content[1] = task[t].addr
    BY <1>4, <1>6
  <2>2. BeginFails(task[t].addr, f.content[1]) <=> task[t].addr \notin Files
    BY <2>1 DEF BeginFails, VerifyChunk
  <2> QED
    BY <1>2, <1>3, <1>6, <2>1, <2>2
<1> QED
  BY <1>5, <1>6

\* The data map is fetched and the first round begins, or the download fails.
LEMMA MapFetchedIInv ==
  ASSUME IInv, NEW t \in Tasks, MapFetched(t)
  PROVE  IInv'
<1>1. PICK y \in Task : y = task[t]
  BY DEF IInv, TypeOK
<1>2. /\ y.op = "download" /\ UNCHANGED <<pool, conns, lone, excused>>
  BY <1>1, MapCases
<1>3. chunks_fetched' \in Nat
  BY MapCases DEF IInv, TypeOK
<1>4. CASE EndTask(t, "failed", NoResult)
  BY <1>2, <1>3, <1>4, NoResultFacts, EndTaskIInv
<1>5. CASE task[t].addr \in Files /\ NextRound(t, Begin(task[t].addr))
  <2>1. PICK f \in Files : f = task[t].addr
    BY <1>5
  <2>2. PICK r \in RetrievalState : r = Begin(f) /\ Resolving(r, f)
    BY BeginFacts
  <2>3. /\ r.file = f /\ r.level \in 1..Outermost(r.file) /\ (r.root_resolved => r.level = 1)
        /\ Verified(r)
    BY <2>2, LevelsFacts DEF Resolving
  <2> QED
    BY <1>1, <1>2, <1>3, <1>5, <2>1, <2>2, <2>3, NextRoundIInv
<1> QED
  BY <1>4, <1>5, MapCases

\* RoundFetched in two cases: the download fails, or every chunk arrived and
\* the next round begins.
LEMMA RoundCases ==
  ASSUME IInv, NEW t \in Tasks, RoundFetched(t)
  PROVE  /\ task[t].pc = "round" /\ UNCHANGED <<pool, conns, lone, excused>>
         /\ \E S \in SUBSET DOMAIN fetches[t] :
              /\ Cardinality(S) \in Nat
              /\ chunks_fetched' = chunks_fetched + Cardinality(S)
              /\ \/ /\ EndTask(t, "failed", NoResult)
                    /\ \/ S = DOMAIN fetches[t] /\ AdvanceFails(Supplied(t, S))
                       \/ S # DOMAIN fetches[t] /\ \E i \in DOMAIN fetches[t] : fetches[t][i].pc = "err"
                 \/ S = DOMAIN fetches[t] /\ NextRound(t, Advance(Supplied(t, S)))
              /\ S = DOMAIN fetches[t] => \A i \in DOMAIN fetches[t] : fetches[t][i].pc = "ok"
<1>1. PICK S : S = {i \in DOMAIN fetches[t] :
                      \A j \in DOMAIN fetches[t] : j <= i => Accepted(fetches[t][j])}
  OBVIOUS
<1>2. /\ task[t].pc = "round" /\ Joined(t)
      /\ chunks_fetched' = chunks_fetched + Cardinality(S)
      /\ IF S # DOMAIN fetches[t] \/ AdvanceFails(Supplied(t, S))
         THEN EndTask(t, "failed", NoResult)
         ELSE NextRound(t, Advance(Supplied(t, S)))
      /\ UNCHANGED <<pool, conns, lone, excused>>
  BY <1>1 DEF RoundFetched, Supplied
<1>3. S \in SUBSET DOMAIN fetches[t]
  BY <1>1
<1>4. /\ S # DOMAIN fetches[t] => \E i \in DOMAIN fetches[t] : fetches[t][i].pc = "err"
      /\ S = DOMAIN fetches[t] => \A i \in DOMAIN fetches[t] : fetches[t][i].pc = "ok"
  <2>1. ASSUME NEW i \in DOMAIN fetches[t]
        PROVE  /\ fetches[t][i].pc \in {"ok", "err"} /\ i <= i
               /\ Accepted(fetches[t][i]) <=> fetches[t][i].pc = "ok"
    <3>1. PICK g : g = fetches[t][i] /\ (g.pc = "ok" => g.content = <<g.addr>>)
      BY DEF IInv, FetchesInv, FetchOk
    <3>2. Accepted(g) <=> g.pc = "ok"
      BY <3>1 DEF Accepted, VerifyChunk
    <3>3. i \in Nat
      BY DEF IInv, TypeOK
    <3> QED
      BY <1>2, <3>1, <3>2, <3>3 DEF Joined
  <2> QED
    BY <1>1, <2>1
<1>5. Cardinality(S) \in Nat
  <2>1. PICK y \in Task : y = task[t]
    BY DEF IInv, TypeOK
  <2>2. /\ Resolving(y.retrieval, y.addr)
        /\ DOMAIN fetches[t] = RequiredAddresses(y.retrieval)
    BY <1>2, <2>1 DEF IInv, TasksInv, TaskOk
  <2>3. PICK f \in Files : f = y.addr /\ f = y.retrieval.file
    BY <2>2 DEF Resolving
  <2>4. PICK k \in 1..Outermost(f) : k = y.retrieval.level
    BY <2>2, <2>3, LevelsFacts DEF Resolving
  <2>5. DOMAIN fetches[t] \subseteq DOMAIN Levels[f][k]
    BY <2>2, <2>3, <2>4 DEF RequiredAddresses, Infos
  <2> QED
    BY <1>3, <2>5, SuppliedFacts
<1> QED
  BY <1>2, <1>3, <1>4, <1>5

\* A round is complete: the next one begins, or the download ends.
LEMMA RoundFetchedIInv ==
  ASSUME IInv, NEW t \in Tasks, RoundFetched(t)
  PROVE  IInv'
<1>1. task[t].pc = "round" /\ UNCHANGED <<pool, conns, lone, excused>>
  BY RoundCases
<1>2. PICK S \in SUBSET DOMAIN fetches[t] :
        /\ Cardinality(S) \in Nat
        /\ chunks_fetched' = chunks_fetched + Cardinality(S)
        /\ \/ EndTask(t, "failed", NoResult)
           \/ S = DOMAIN fetches[t] /\ NextRound(t, Advance(Supplied(t, S)))
        /\ S = DOMAIN fetches[t] => \A i \in DOMAIN fetches[t] : fetches[t][i].pc = "ok"
  BY RoundCases
<1>3. chunks_fetched' \in Nat
  BY <1>2 DEF IInv, TypeOK
<1>4. CASE EndTask(t, "failed", NoResult)
  BY <1>1, <1>3, <1>4, NoResultFacts, EndTaskIInv
<1>5. CASE S = DOMAIN fetches[t] /\ NextRound(t, Advance(Supplied(t, S)))
  <2>1. PICK r : r = Supplied(t, S) /\ NextRound(t, Advance(r))
    BY <1>5
  <2>2. /\ r.file = task[t].addr /\ r.file \in Files
        /\ Advance(r) \in RetrievalState /\ Advance(r).file = r.file
        /\ Advance(r).level = 1 /\ Verified(Advance(r))
        /\ IsComplete(Advance(r)) \/ Resolving(Advance(r), task[t].addr)
    <3>1. r = Supplied(t, DOMAIN fetches[t]) /\ \A i \in DOMAIN fetches[t] : fetches[t][i].pc = "ok"
      BY <1>2, <1>5, <2>1
    <3>2. Verified(r) /\ Advance(r).cache = r.cache
      BY <1>1, <3>1, RoundFacts
    <3>3. Verified(Advance(r))
      BY <3>2 DEF Verified
    <3> QED
      BY <1>1, <3>1, <3>3, RoundFacts
  <2>3. 1 \in 1..Outermost(r.file)
    BY <2>2, LevelsFacts
  <2>4. task[t].op = "download"
    BY <1>1 DEF IInv, TasksInv, TaskOk
  <2> QED
    BY <1>1, <1>3, <2>1, <2>2, <2>3, <2>4, NextRoundIInv
<1> QED
  BY <1>2, <1>4, <1>5

\* A connection closes: it keeps its peer, and a Good peer's is an excuse.
LEMMA CloseIInv ==
  ASSUME IInv, NEW k \in DOMAIN conns, Close(k)
  PROVE  IInv'
<1>1. /\ conns' = [conns EXCEPT ![k].open = FALSE]
      /\ excused' = (excused \/ conns[k].peer \in Good)
      /\ UNCHANGED <<task, fetches, pool, chunks_fetched, lone>>
  BY DEF Close, Excuse
<1>2. conns \in Seq([peer : Peers, open : BOOLEAN]) /\ Len(conns) \in Nat
  BY DEF IInv, TypeOK
<1>3. PICK c \in [peer : Peers, open : BOOLEAN] : c = [conns[k] EXCEPT !.open = FALSE]
                                                  /\ c.peer = conns[k].peer
  <2>1. PICK d \in [peer : Peers, open : BOOLEAN] : d = conns[k]
    BY <1>2, ElementFacts, Zenon
  <2>2. PICK b \in BOOLEAN : b = FALSE
    BY Zenon
  <2>3. [d EXCEPT !.open = b] \in [peer : Peers, open : BOOLEAN] /\ [d EXCEPT !.open = b].peer = d.peer
    OBVIOUS
  <2> QED
    BY <2>1, <2>2, <2>3
<1>4. conns' = [conns EXCEPT ![k] = c]
  BY <1>1, <1>3
<1>5. /\ conns' \in Seq([peer : Peers, open : BOOLEAN]) /\ Len(conns') = Len(conns)
      /\ DOMAIN conns' = DOMAIN conns /\ conns'[k] = c
      /\ \A j \in DOMAIN conns : j # k => conns'[j] = conns[j]
  BY <1>2, <1>4
<1>6. \A j \in 1..Len(conns) : conns'[j].peer = conns[j].peer
  BY <1>2, <1>3, <1>5
<1>7. excused' \in BOOLEAN /\ (excused => excused')
  BY <1>1
<1>8. PoolInv'
  <2> SUFFICES ASSUME NEW p \in Peers, pool[p] # 0 PROVE conns'[pool[p]].peer = p
    BY <1>1 DEF PoolInv
  <2>1. pool[p] \in 1..Len(conns) /\ conns[pool[p]].peer = p
    BY <1>2 DEF IInv, TypeOK, PoolInv
  <2> QED
    BY <1>6, <2>1
<1>9. Healthy'
  <2> SUFFICES ASSUME ~excused', NEW j \in DOMAIN conns, conns'[j].peer \in Good PROVE conns'[j].open
    BY <1>5 DEF Healthy
  <2>1. j # k
    BY <1>1, <1>3, <1>5
  <2>2. conns'[j] = conns[j]
    BY <1>5, <2>1
  <2> QED
    BY <1>7, <2>2 DEF IInv, Healthy
<1>10. NetworkKept
  BY <1>1, <1>2, <1>5, <1>6, <1>7, <1>8, <1>9 DEF NetworkKept, IInv, TypeOK
<1>11. ASSUME NEW u \in Tasks, NEW j \in DOMAIN fetches[u]
       PROVE  fetches[u][j].conn \in 0..Len(conns') /\ FetchOk(fetches[u][j], conns', excused')
  <2>1. PICK g \in Fetch : g = fetches[u][j]
    BY DEF IInv, TypeOK
  <2>2. g.conn \in 0..Len(conns) /\ FetchOk(g, conns, excused)
    BY <2>1 DEF IInv, TypeOK, FetchesInv
  <2> QED
    BY <1>10, <2>1, <2>2, FetchKept DEF IInv
<1>12. FetchesInv'
  BY <1>1, <1>11 DEF FetchesInv
<1>13. TypeOK'
  BY <1>1, <1>5, <1>7, <1>11 DEF IInv, TypeOK
<1>14. TasksInv' /\ DoneIsWholeFile'
  BY <1>1 DEF IInv, TasksInv, DoneIsWholeFile
<1> QED
  BY <1>8, <1>9, <1>12, <1>13, <1>14 DEF IInv

\* Initially no call is made.
LEMMA InitIInv == Init => IInv
<1> SUFFICES ASSUME Init PROVE IInv
  OBVIOUS
<1>1. PICK x \in Task : x = Idle /\ x.pc = "idle"
  <2>1. PICK a \in Addresses : a = CHOOSE b \in Addresses : TRUE
    BY LevelsAssumption DEF Addresses
  <2>2. PICK e \in Seq(Addresses) : e = NoResult
    BY NoResultFacts
  <2>3. PICK r \in {<<>>} \cup RetrievalState : r = <<>>
    OBVIOUS
  <2>4. Idle = [pc |-> "idle", op |-> "fetch_chunk", addr |-> a, retrieval |-> r, result |-> e]
    BY <2>1, <2>2, <2>3 DEF Idle
  <2>5. Idle \in Task /\ Idle.pc = "idle"
    BY <2>4 DEF Task
  <2> QED
    BY <2>5
<1>2. task = [t \in Tasks |-> x] /\ fetches = [t \in Tasks |-> <<>>]
  BY <1>1 DEF Init
<1>3. PICK c \in [peer : Peers, open : BOOLEAN] : c = [peer |-> Bootstrap, open |-> TRUE]
                                                  /\ c.peer = Bootstrap /\ c.open = TRUE
  <2>1. PICK b \in BOOLEAN : b = TRUE
    BY Zenon
  <2>2. [peer |-> Bootstrap, open |-> b] \in [peer : Peers, open : BOOLEAN]
    BY PeersAssumption
  <2> QED
    BY <2>1, <2>2
<1>4. /\ conns = <<c>> /\ conns \in Seq([peer : Peers, open : BOOLEAN]) /\ Len(conns) = 1
      /\ DOMAIN conns = {1} /\ conns[1] = c
  BY <1>3 DEF Init
<1>5. pool \in [Peers -> 0..1] /\ \A p \in Peers : pool[p] # 0 => p = Bootstrap /\ pool[p] = 1
  BY DEF Init
<1>6. TypeOK
  <2>1. \A t \in Tasks : fetches[t] = <<>>
    BY <1>2
  <2>2. \A t \in Tasks : fetches[t] \in [DOMAIN fetches[t] -> Fetch] /\ DOMAIN fetches[t] = {}
    BY <2>1, NoneIsFresh DEF Fresh
  <2>3. pool \in [Peers -> 0..Len(conns)]
    BY <1>4, <1>5
  <2>4. excused \in BOOLEAN /\ chunks_fetched \in Nat /\ lone \subseteq Tasks
    BY DEF Init
  <2> QED
    BY <1>2, <1>4, <2>2, <2>3, <2>4 DEF TypeOK
<1>7. PoolInv
  BY <1>3, <1>4, <1>5 DEF PoolInv
<1>8. Healthy
  BY <1>3, <1>4 DEF Healthy
<1>9. FetchesInv
  BY <1>2 DEF FetchesInv
<1>10. TasksInv
  BY <1>1, <1>2 DEF TasksInv, TaskOk
<1>11. DoneIsWholeFile
  BY <1>1, <1>2 DEF DoneIsWholeFile
<1> QED
  BY <1>6, <1>7, <1>8, <1>9, <1>10, <1>11 DEF IInv

\* Every step preserves the invariant.
LEMMA NextIInv == IInv /\ [Next]_vars => IInv'
<1> SUFFICES ASSUME IInv, [Next]_vars PROVE IInv'
  OBVIOUS
<1>1. ASSUME NEW t \in Tasks, NEW op \in {"download", "fetch_chunk"}, NEW a \in Addresses,
             Start(t, op, a)
      PROVE  IInv'
  BY <1>1, StartIInv
<1>2. ASSUME NEW t \in Tasks, NEW i \in DOMAIN fetches[t], FetchStep(t, i)
      PROVE  IInv'
  BY <1>2, DiscoveredIInv, DiscoveryFailsIInv, ConnectOkIInv, ConnectFailsIInv,
     GetAnsweredIInv, GetFailsIInv DEF FetchStep
<1>3. ASSUME NEW t \in Tasks, TaskStep(t)
      PROVE  IInv'
  BY <1>3, FetchChunkReturnsIInv, MapFetchedIInv, RoundFetchedIInv DEF TaskStep
<1>4. ASSUME NEW k \in DOMAIN conns, Close(k)
      PROVE  IInv'
  BY <1>4, CloseIInv
<1>5. CASE UNCHANGED vars
  BY <1>5 DEF vars, IInv, TypeOK, PoolInv, Healthy, FetchesInv, TasksInv, DoneIsWholeFile
<1> QED
  BY <1>1, <1>2, <1>3, <1>4, <1>5 DEF Next, Quiet

\* The inductive invariant holds of every state the client can reach.
THEOREM Invariance == Spec => []IInv
BY InitIInv, NextIInv, PTL DEF Spec

\* Every variable of the client keeps its type.
THEOREM TypeCorrect == Spec => []TypeOK
<1>1. IInv => TypeOK
  BY DEF IInv
<1> QED
  BY <1>1, Invariance, PTL

\* download and fetch_chunk (src/lib.rs) return the bytes that were asked for,
\* whole and in order, however deep the map is wrapped, whatever the peers
\* serve, whatever fails and overlaps.
THEOREM DoneTheorem == Spec => []DoneIsWholeFile
<1>1. IInv => DoneIsWholeFile
  BY DEF IInv
<1> QED
  BY <1>1, Invariance, PTL

-----------------------------------------------------------------------------
(* Why a call fails                                                        *)

\* The data maps of the files are wrapped at most once.
OnceWrapped == \A f \in Files : Outermost(f) <= 2

\* A wrapper level that is fetched is the only one, so advance finds it whole.
LEMMA AdvanceSucceeds ==
  ASSUME OnceWrapped, IInv, NEW t \in Tasks, task[t].pc = "round",
         \A i \in DOMAIN fetches[t] : fetches[t][i].pc = "ok"
  PROVE  ~AdvanceFails(Supplied(t, DOMAIN fetches[t]))
<1>1. PICK r : r = Supplied(t, DOMAIN fetches[t])
  OBVIOUS
<1>2. /\ r \in RetrievalState /\ r.file = task[t].addr /\ r.file \in Files
      /\ r.level = task[t].retrieval.level
      /\ RequiredAddresses(r) = {} /\ Verified(r)
  BY <1>1, RoundFacts
<1>3. r.level = 1 \/ r.level = Outermost(r.file)
  BY <1>2 DEF IInv, TasksInv, TaskOk, Resolving
<1>4. Outermost(r.file) \in {1, 2}
  BY <1>2, LevelsFacts DEF OnceWrapped
<1>5. \A i \in DOMAIN Infos(r) : Intact(r, Infos(r)[i])
  BY <1>2 DEF RequiredAddresses, Verified, Intact
<1>6. RootReachable(r)
  <2> SUFFICES ASSUME NEW k \in 2..r.level, NEW i \in DOMAIN Levels[r.file][k]
               PROVE  Intact(r, Levels[r.file][k][i])
    BY DEF RootReachable
  <2>1. k = r.level
    BY <1>3, <1>4
  <2> QED
    BY <1>5, <2>1 DEF Infos
<1> QED
  BY <1>1, <1>6 DEF AdvanceFails

\* A call fails for a cause.
FailOk(x, ex) == x.pc = "failed" => ex \/ (x.op = "download" /\ x.addr \notin Files)

\* How a download ends.
LEMMA EndTaskFacts ==
  ASSUME TypeOK, NEW t \in Tasks, NEW pc, NEW result, EndTask(t, pc, result)
  PROVE  /\ task'[t].pc = pc /\ task'[t].op = task[t].op /\ task'[t].addr = task[t].addr
         /\ \A u \in Tasks : u # t => task'[u] = task[u]
<1>1. task \in [Tasks -> Task]
  BY DEF TypeOK
<1>2. PICK y \in Task : y = task[t]
  BY <1>1
<1>3. task' = [task EXCEPT ![t] = [y EXCEPT !.pc = pc, !.result = result]]
  BY <1>1, <1>2 DEF EndTask
<1>4. task'[t] = [y EXCEPT !.pc = pc, !.result = result]
  BY <1>1, <1>3
<1>5. task'[t].pc = pc /\ task'[t].op = y.op /\ task'[t].addr = y.addr
  BY <1>4 DEF Task
<1> QED
  BY <1>1, <1>2, <1>3, <1>5

\* What a download does between two rounds.
LEMMA NextRoundFacts ==
  ASSUME TypeOK, NEW t \in Tasks, NEW r, NextRound(t, r)
  PROVE  /\ task'[t].op = task[t].op /\ task'[t].addr = task[t].addr
         /\ IsComplete(r) => task'[t].pc = "done"
         /\ ~IsComplete(r) => task'[t].pc = "round" /\ task'[t].retrieval = r
         /\ \A u \in Tasks : u # t => task'[u] = task[u]
<1>1. task \in [Tasks -> Task]
  BY DEF TypeOK
<1>2. CASE IsComplete(r)
  BY <1>2, EndTaskFacts, FinishFacts DEF NextRound
<1>3. CASE ~IsComplete(r)
  <2>1. PICK y \in Task : y = task[t]
    BY <1>1
  <2>2. task' = [task EXCEPT ![t] = [y EXCEPT !.pc = "round", !.retrieval = r]]
    BY <1>1, <1>3, <2>1 DEF NextRound
  <2>3. task'[t] = [y EXCEPT !.pc = "round", !.retrieval = r]
    BY <1>1, <2>2
  <2>4. /\ task'[t].pc = "round" /\ task'[t].op = y.op /\ task'[t].addr = y.addr
        /\ task'[t].retrieval = r
    BY <2>3 DEF Task
  <2> QED
    BY <1>1, <1>3, <2>1, <2>2, <2>4
<1> QED
  BY <1>2, <1>3

\* Every step preserves the causes of failures.
LEMMA NextFails ==
  ASSUME OnceWrapped, IInv, FailsOnlyForCause, [Next]_vars
  PROVE  FailsOnlyForCause'
<1> SUFFICES ASSUME NEW u \in Tasks PROVE FailOk(task'[u], excused')
  BY DEF FailsOnlyForCause, FailOk
<1>0. TypeOK /\ FailOk(task[u], excused)
  BY DEF IInv, FailsOnlyForCause, FailOk
<1>1. ASSUME NEW t \in Tasks, NEW op \in {"download", "fetch_chunk"}, NEW a \in Addresses,
             Start(t, op, a)
      PROVE  FailOk(task'[u], excused')
  <2>1. excused' = excused
    BY <1>1 DEF Start
  <2>2. PICK pc \in {"map", "chunk"} :
          task' = [task EXCEPT ![t] = [pc |-> pc, op |-> op, addr |-> a,
                                       retrieval |-> <<>>, result |-> NoResult]]
    BY <1>1 DEF Start
  <2>3. CASE u = t
    <3>1. task'[u].pc = pc
      BY <1>0, <2>2, <2>3 DEF TypeOK
    <3> QED
      BY <3>1 DEF FailOk
  <2>4. CASE u # t
    BY <1>0, <2>1, <2>2, <2>4 DEF TypeOK
  <2> QED
    BY <2>3, <2>4
<1>2. ASSUME NEW t \in Tasks, NEW i \in DOMAIN fetches[t], FetchStep(t, i)
      PROVE  FailOk(task'[u], excused')
  <2>1. task' = task /\ (excused => excused')
    <3>1. ASSUME NEW peers, Discovered(t, i, peers) PROVE task' = task /\ (excused => excused')
      BY <3>1 DEF Discovered, Excuse
    <3>2. CASE DiscoveryFails(t, i)
      BY <3>2 DEF DiscoveryFails, Excuse
    <3>3. CASE ConnectOk(t, i) \/ ConnectFails(t, i)
      BY <3>3 DEF ConnectOk, ConnectFails
    <3>4. ASSUME NEW b, GetAnswered(t, i, b) PROVE task' = task /\ (excused => excused')
      BY <3>4 DEF GetAnswered
    <3>5. CASE GetFails(t, i)
      BY <3>5 DEF GetFails
    <3> QED
      BY <1>2, <3>1, <3>2, <3>3, <3>4, <3>5 DEF FetchStep
  <2> QED
    BY <1>0, <2>1 DEF FailOk
<1>3. ASSUME NEW k \in DOMAIN conns, Close(k) PROVE FailOk(task'[u], excused')
  <2>1. task' = task /\ (excused => excused')
    BY <1>3 DEF Close, Excuse
  <2> QED
    BY <1>0, <2>1 DEF FailOk
<1>4. ASSUME NEW t \in Tasks, \E i \in DOMAIN fetches[t] : fetches[t][i].pc = "err"
      PROVE  excused
  BY <1>4 DEF IInv, FetchesInv, FetchOk
<1>5. ASSUME NEW t \in Tasks, NEW r, NextRound(t, r), excused' = excused
      PROVE  FailOk(task'[u], excused')
  <2>1. /\ task'[t].pc \in {"done", "round"}
        /\ \A v \in Tasks : v # t => task'[v] = task[v]
    BY <1>0, <1>5, NextRoundFacts
  <2>2. CASE u = t
    BY <2>1, <2>2 DEF FailOk
  <2>3. CASE u # t
    BY <1>0, <1>5, <2>1, <2>3
  <2> QED
    BY <2>2, <2>3
<1>6. ASSUME NEW t \in Tasks, NEW pc, NEW result, EndTask(t, pc, result), excused' = excused,
             pc = "failed" => excused \/ (task[t].op = "download" /\ task[t].addr \notin Files)
      PROVE  FailOk(task'[u], excused')
  <2>1. /\ task'[t].pc = pc /\ task'[t].op = task[t].op /\ task'[t].addr = task[t].addr
        /\ \A v \in Tasks : v # t => task'[v] = task[v]
    BY <1>0, <1>6, EndTaskFacts
  <2>2. CASE u = t
    BY <1>6, <2>1, <2>2 DEF FailOk
  <2>3. CASE u # t
    BY <1>0, <1>6, <2>1, <2>3
  <2> QED
    BY <2>2, <2>3
<1>7. ASSUME NEW t \in Tasks, FetchChunkReturns(t) PROVE FailOk(task'[u], excused')
  <2>1. excused' = excused /\ 1 \in DOMAIN fetches[t]
    BY <1>7, ChunkCases
  <2>2. CASE EndTask(t, "done", <<task[t].addr>>)
    BY <1>6, <2>1, <2>2
  <2>3. CASE fetches[t][1].pc = "err" /\ EndTask(t, "failed", NoResult)
    BY <1>4, <1>6, <2>1, <2>3
  <2> QED
    BY <1>7, <2>2, <2>3, ChunkCases
<1>8. ASSUME NEW t \in Tasks, MapFetched(t) PROVE FailOk(task'[u], excused')
  <2>1. excused' = excused /\ 1 \in DOMAIN fetches[t] /\ task[t].op = "download"
    BY <1>8, MapCases
  <2>2. CASE fetches[t][1].pc = "err" /\ EndTask(t, "failed", NoResult)
    BY <1>4, <1>6, <2>1, <2>2
  <2>3. CASE task[t].addr \in Files /\ NextRound(t, Begin(task[t].addr))
    BY <1>5, <2>1, <2>3
  <2>4. CASE task[t].addr \notin Files /\ EndTask(t, "failed", NoResult)
    BY <1>6, <2>1, <2>4
  <2> QED
    BY <1>8, <2>2, <2>3, <2>4, MapCases
<1>9. ASSUME NEW t \in Tasks, RoundFetched(t) PROVE FailOk(task'[u], excused')
  <2>1. excused' = excused /\ task[t].pc = "round"
    BY <1>9, RoundCases
  <2>2. PICK S \in SUBSET DOMAIN fetches[t] :
          \/ /\ EndTask(t, "failed", NoResult)
             /\ \/ /\ S = DOMAIN fetches[t] /\ AdvanceFails(Supplied(t, S))
                   /\ \A i \in DOMAIN fetches[t] : fetches[t][i].pc = "ok"
                \/ \E i \in DOMAIN fetches[t] : fetches[t][i].pc = "err"
          \/ NextRound(t, Advance(Supplied(t, S)))
    BY <1>9, RoundCases
  <2>3. CASE NextRound(t, Advance(Supplied(t, S)))
    BY <1>5, <2>1, <2>3
  <2>4. CASE EndTask(t, "failed", NoResult) /\ \E i \in DOMAIN fetches[t] : fetches[t][i].pc = "err"
    BY <1>4, <1>6, <2>1, <2>4
  <2> QED
    BY <2>1, <2>2, <2>3, <2>4, AdvanceSucceeds
<1>10. CASE UNCHANGED vars
  BY <1>0, <1>10 DEF vars
<1> QED
  BY <1>1, <1>2, <1>3, <1>7, <1>8, <1>9, <1>10 DEF Next, TaskStep, Quiet

\* A call fails only because the address holds no data map, discovery failed
\* or named no serving peer, or a serving peer's connection closed (get_direct,
\* src/lib.rs): for every file whose map is wrapped at most once.
THEOREM FailTheorem ==
  ASSUME OnceWrapped
  PROVE  Spec => []FailsOnlyForCause
<1>1. Init => FailsOnlyForCause
  BY DEF Init, Idle, FailsOnlyForCause
<1>2. IInv /\ FailsOnlyForCause /\ [Next]_vars => FailsOnlyForCause'
  BY NextFails
<1> QED
  BY <1>1, <1>2, Invariance, PTL DEF Spec

-----------------------------------------------------------------------------
(* What is counted                                                         *)

\* No content chunk of a file is one of its wrapper chunks as well.
DistinctLevels ==
  \A f \in Files : Outermost(f) > 1 =>
    \A j \in DOMAIN Levels[f][1] : Levels[f][1][j] \notin Wrappers(f)

\* A set of pairs with a fixed first component.
LEMMA PairsFacts ==
  ASSUME NEW k, NEW n \in Nat
  PROVE  IsFiniteSet({k} \X (1..n)) /\ Cardinality({k} \X (1..n)) = n
<1>1. IsFiniteSet({k}) /\ Cardinality({k}) = 1
  BY FS_Singleton
<1>2. IsFiniteSet(1..n) /\ Cardinality(1..n) = n
  <2>1. IsFiniteSet(1..n) /\ Cardinality(1..n) = IF 1 > n THEN 0 ELSE n - 1 + 1
    BY FS_Interval
  <2> QED
    BY <2>1
<1>3. IsFiniteSet({k} \X (1..n)) /\ Cardinality({k} \X (1..n)) = Cardinality({k}) * Cardinality(1..n)
  BY <1>1, <1>2, FS_Product
<1> QED
  BY <1>1, <1>2, <1>3

\* The number of chunks of a file whose map is wrapped at most once.
LEMMA ChunksOfFacts ==
  ASSUME NEW f \in Files
  PROVE  /\ Outermost(f) = 1 => ChunksOf(f) = 1 + Len(Levels[f][1])
         /\ Outermost(f) = 2 => ChunksOf(f) = 1 + Len(Levels[f][2]) + Len(Levels[f][1])
<1>1. /\ DOMAIN Levels[f] = 1..Outermost(f)
      /\ \A k \in 1..Outermost(f) : Levels[f][k] \in Seq(Chunks)
  BY LevelsFacts
<1>2. ASSUME Outermost(f) = 1 PROVE ChunksOf(f) = 1 + Len(Levels[f][1])
  <2>1. DOMAIN Levels[f] = {1}
    BY <1>1, <1>2
  <2>2. PICK n \in Nat : n = Len(Levels[f][1]) /\ DOMAIN Levels[f][1] = 1..n
    <3>1. Levels[f][1] \in Seq(Chunks)
      BY <1>1, <1>2
    <3> QED
      BY <3>1
  <2>3. Entries(f) = {1} \X (1..n)
    BY <2>1, <2>2 DEF Entries
  <2> QED
    BY <2>2, <2>3, PairsFacts DEF ChunksOf
<1>3. ASSUME Outermost(f) = 2 PROVE ChunksOf(f) = 1 + Len(Levels[f][2]) + Len(Levels[f][1])
  <2>1. DOMAIN Levels[f] = {1, 2}
    BY <1>1, <1>3
  <2>2. PICK n \in Nat : n = Len(Levels[f][1]) /\ DOMAIN Levels[f][1] = 1..n
    <3>1. Levels[f][1] \in Seq(Chunks)
      BY <1>1, <1>3
    <3> QED
      BY <3>1
  <2>3. PICK m \in Nat : m = Len(Levels[f][2]) /\ DOMAIN Levels[f][2] = 1..m
    <3>1. Levels[f][2] \in Seq(Chunks)
      BY <1>1, <1>3
    <3> QED
      BY <3>1
  <2>4. Entries(f) = ({1} \X (1..n)) \cup ({2} \X (1..m))
    BY <2>1, <2>2, <2>3 DEF Entries
  <2>5. ({1} \X (1..n)) \cap ({2} \X (1..m)) = {}
    OBVIOUS
  <2>6. /\ IsFiniteSet({1} \X (1..n)) /\ Cardinality({1} \X (1..n)) = n
        /\ IsFiniteSet({2} \X (1..m)) /\ Cardinality({2} \X (1..m)) = m
    BY PairsFacts
  <2>7. Cardinality(({1} \X (1..n)) \cap ({2} \X (1..m))) = 0
    BY <2>5, FS_EmptySet
  <2>8. Cardinality(Entries(f)) = n + m
    <3>1. PICK A : A = {1} \X (1..n)
      OBVIOUS
    <3>2. PICK B : B = {2} \X (1..m)
      OBVIOUS
    <3>3. /\ IsFiniteSet(A) /\ Cardinality(A) = n /\ IsFiniteSet(B) /\ Cardinality(B) = m
          /\ Cardinality(A \cap B) = 0 /\ Entries(f) = A \cup B
      BY <2>4, <2>6, <2>7, <3>1, <3>2
    <3>4. Cardinality(A \cup B) = Cardinality(A) + Cardinality(B) - Cardinality(A \cap B)
      BY <3>3, FS_Union
    <3> QED
      BY <3>3, <3>4
  <2>9. ChunksOf(f) = 1 + (n + m)
    BY <2>8 DEF ChunksOf
  <2>10. 1 + (n + m) = 1 + m + n
    OBVIOUS
  <2> QED
    BY <2>2, <2>3, <2>9, <2>10
<1> QED
  BY <1>2, <1>3

\* What is counted when a round starts: the map chunk, and the wrappers once
\* they are resolved.
Base(r) == IF r.level = Outermost(r.file) THEN 1 ELSE 1 + Len(Levels[r.file][2])

\* What a download has counted for itself.
Due(x) == IF x.pc = "map" THEN 0
          ELSE IF x.pc = "round" THEN Base(x.retrieval)
          ELSE ChunksOf(x.addr)

Counts(x) == x.op = "download" /\ x.pc \in {"map", "round", "done"}

\* The counter holds exactly the share of a download that runs alone.
CountOk(x, c, alone) == Counts(x) => Due(x) \in Nat /\ (alone => c = Due(x))

\* A download that runs alone is the only one that is under way.
Alone == \A t \in lone : \A u \in Tasks : u # t => ~Downloading(u)

CountInv ==
  /\ Alone
  /\ \A t \in Tasks : CountOk(task[t], chunks_fetched, t \in lone)

\* A round fetches every entry of its map: none is cached already.
LEMMA RoundIsWhole ==
  ASSUME DistinctLevels, NEW f \in Files, NEW r \in RetrievalState, Resolving(r, f)
  PROVE  /\ RequiredAddresses(r) = DOMAIN Infos(r)
         /\ Len(Infos(r)) \in Nat /\ DOMAIN Infos(r) = 1..Len(Infos(r))
         /\ Cardinality(RequiredAddresses(r)) = Len(Infos(r))
<1>1. r.file = f /\ r.level \in 1..Outermost(f)
  BY LevelsFacts DEF Resolving
<1>2. Infos(r) = Levels[f][r.level]
  BY <1>1 DEF Infos
<1>3. Infos(r) \in Seq(Chunks)
  BY <1>1, <1>2, LevelsFacts
<1>4. PICK n \in Nat : n = Len(Infos(r)) /\ DOMAIN Infos(r) = 1..n
  BY <1>3
<1>5. ASSUME NEW i \in DOMAIN Infos(r) PROVE Infos(r)[i] \notin DOMAIN r.cache
  <2>1. CASE DOMAIN r.cache = {}
    BY <2>1
  <2>2. CASE r.level = 1 /\ Outermost(f) > 1 /\ DOMAIN r.cache \subseteq Wrappers(f)
    BY <1>2, <1>5, <2>2 DEF DistinctLevels
  <2> QED
    BY <2>1, <2>2 DEF Resolving
<1>6. RequiredAddresses(r) = DOMAIN Infos(r)
  BY <1>5 DEF RequiredAddresses
<1>7. Cardinality(1..n) = n
  <2>1. Cardinality(1..n) = IF 1 > n THEN 0 ELSE n - 1 + 1
    BY FS_Interval
  <2> QED
    BY <2>1
<1> QED
  BY <1>4, <1>6, <1>7

\* The number of entries at a level is a number.
LEMMA LenFacts ==
  ASSUME NEW f \in Files, NEW k \in 1..Outermost(f)
  PROVE  Len(Levels[f][k]) \in Nat
<1>1. Levels[f][k] \in Seq(Chunks)
  BY LevelsFacts
<1> QED
  BY <1>1

\* What a finished download has counted is a number.
LEMMA BaseFacts ==
  ASSUME OnceWrapped, NEW f \in Files
  PROVE  /\ ChunksOf(f) \in Nat
         /\ \A r \in RetrievalState : Resolving(r, f) => Base(r) \in Nat
<1>1. Outermost(f) \in {1, 2}
  BY LevelsFacts DEF OnceWrapped
<1>2. /\ Len(Levels[f][1]) \in Nat
      /\ Outermost(f) = 2 => Len(Levels[f][2]) \in Nat
  BY <1>1, LenFacts
<1>3. ChunksOf(f) \in Nat
  <2>1. PICK n \in Nat : n = Len(Levels[f][1])
    BY <1>2
  <2>2. CASE Outermost(f) = 1
    <3>1. ChunksOf(f) = 1 + n
      BY <2>1, <2>2, ChunksOfFacts
    <3> QED
      BY <3>1
  <2>3. CASE Outermost(f) = 2
    <3>1. PICK m \in Nat : m = Len(Levels[f][2])
      BY <1>2, <2>3
    <3>2. ChunksOf(f) = 1 + m + n
      BY <2>1, <2>3, <3>1, ChunksOfFacts
    <3> QED
      BY <3>2
  <2> QED
    BY <1>1, <2>2, <2>3
<1>4. ASSUME NEW r \in RetrievalState, Resolving(r, f) PROVE Base(r) \in Nat
  BY <1>1, <1>2, <1>4 DEF Base, Resolving
<1> QED
  BY <1>3, <1>4

\* The invariant after task t, whose download is under way unless it counts
\* nothing, has counted d chunks more.
LEMMA CountMoves ==
  ASSUME TypeOK, CountInv, NEW t \in Tasks, NEW d \in Nat,
         chunks_fetched' = chunks_fetched + d, lone' = lone,
         \A u \in Tasks : u # t => task'[u] = task[u],
         Downloading(t) \/ (d = 0 /\ ~Downloading(t)'),
         Counts(task'[t]) => Counts(task[t]) /\ Due(task'[t]) = Due(task[t]) + d
  PROVE  CountInv'
<1>1. PICK c \in Nat : c = chunks_fetched
  BY DEF TypeOK
<1>2. Alone'
  <2> SUFFICES ASSUME NEW v \in lone, NEW u \in Tasks, u # v PROVE ~Downloading(u)'
    BY DEF Alone
  <2>1. ~Downloading(u)
    BY DEF CountInv, Alone
  <2> QED
    BY <2>1 DEF Downloading
<1> SUFFICES ASSUME NEW u \in Tasks
             PROVE  CountOk(task'[u], c + d, u \in lone)
  BY <1>1, <1>2 DEF CountInv
<1>3. CountOk(task[u], c, u \in lone)
  BY <1>1 DEF CountInv
<1>4. CASE u = t
  <2> SUFFICES ASSUME Counts(task'[u])
               PROVE  Due(task'[u]) \in Nat /\ (u \in lone => c + d = Due(task'[u]))
    BY DEF CountOk
  <2>1. Counts(task[u]) /\ Due(task'[u]) = Due(task[u]) + d
    BY <1>4
  <2>2. Due(task[u]) \in Nat /\ (u \in lone => c = Due(task[u]))
    BY <1>3, <2>1 DEF CountOk
  <2> QED
    BY <2>1, <2>2
<1>5. CASE u # t
  <2>1. task'[u] = task[u]
    BY <1>5
  <2>2. u \in lone => d = 0
    BY <1>5 DEF CountInv, Alone
  <2> SUFFICES ASSUME Counts(task[u])
               PROVE  Due(task[u]) \in Nat /\ (u \in lone => c + d = Due(task[u]))
    BY <2>1 DEF CountOk
  <2>3. Due(task[u]) \in Nat /\ (u \in lone => c = Due(task[u]))
    BY <1>3 DEF CountOk
  <2> QED
    BY <2>2, <2>3
<1> QED
  BY <1>4, <1>5

\* The first download of a client, or the next one, starts to count at 0.
LEMMA StartCounts ==
  ASSUME TypeOK, CountInv, NEW t \in Tasks, NEW op \in {"download", "fetch_chunk"},
         NEW a \in Addresses, Start(t, op, a)
  PROVE  CountInv'
<1>1. PICK x : /\ x = [pc |-> IF op = "download" THEN "map" ELSE "chunk", op |-> op, addr |-> a,
                       retrieval |-> <<>>, result |-> NoResult]
               /\ task' = [task EXCEPT ![t] = x]
  BY DEF Start
<1>2. /\ x.op = op
      /\ op = "download" => x.pc = "map"
      /\ op = "fetch_chunk" => x.pc = "chunk"
  BY <1>1
<1>3. \A u \in Tasks : (u = t /\ task'[u] = x) \/ (u # t /\ task'[u] = task[u])
  BY <1>1 DEF TypeOK
<1>4. CASE op = "download"
  <2>1. /\ chunks_fetched' = 0
        /\ lone' = {u \in {t} : \A v \in Tasks : ~Downloading(v)}
    BY <1>4 DEF Start, CountAtStart
  <2>2. Alone'
    <3> SUFFICES ASSUME NEW v \in lone', NEW u \in Tasks, u # v PROVE ~Downloading(u)'
      BY DEF Alone
    <3>1. v = t /\ ~Downloading(u)
      BY <2>1
    <3> QED
      BY <1>3, <3>1 DEF Downloading
  <2>3. ASSUME NEW u \in Tasks PROVE CountOk(task'[u], chunks_fetched', u \in lone')
    <3>1. CASE u = t
      <4>1. Due(task'[u]) = 0
        BY <1>2, <1>3, <1>4, <3>1 DEF Due
      <4> QED
        BY <2>1, <4>1 DEF CountOk
    <3>2. CASE u # t
      <4>1. task'[u] = task[u] /\ u \notin lone' /\ CountOk(task[u], chunks_fetched, u \in lone)
        BY <1>3, <2>1, <3>2 DEF CountInv
      <4> QED
        BY <4>1 DEF CountOk
    <3> QED
      BY <3>1, <3>2
  <2> QED
    BY <2>2, <2>3 DEF CountInv
<1>5. CASE op = "fetch_chunk"
  <2>1. chunks_fetched' = chunks_fetched /\ lone' = lone
    BY <1>5 DEF Start, CountAtStart
  <2>2. Alone'
    <3> SUFFICES ASSUME NEW v \in lone, NEW u \in Tasks, u # v PROVE ~Downloading(u)'
      BY <2>1 DEF Alone
    <3>1. ~Downloading(u)
      BY DEF CountInv, Alone
    <3> QED
      BY <1>2, <1>3, <1>5, <3>1 DEF Downloading
  <2>3. ASSUME NEW u \in Tasks PROVE CountOk(task'[u], chunks_fetched', u \in lone')
    <3>1. CASE u = t
      BY <1>2, <1>3, <1>5, <3>1 DEF CountOk, Counts
    <3>2. CASE u # t
      <4>1. task'[u] = task[u] /\ CountOk(task[u], chunks_fetched, u \in lone)
        BY <1>3, <3>2 DEF CountInv
      <4> QED
        BY <2>1, <4>1
    <3> QED
      BY <3>1, <3>2
  <2> QED
    BY <2>2, <2>3 DEF CountInv
<1> QED
  BY <1>4, <1>5

\* The map chunk is counted; a map without entries is the whole file.
LEMMA MapCounts ==
  ASSUME OnceWrapped, DistinctLevels, IInv, CountInv, NEW t \in Tasks, MapFetched(t)
  PROVE  CountInv'
<1>1. /\ TypeOK /\ task[t].pc = "map" /\ task[t].op = "download" /\ lone' = lone
      /\ Downloading(t)
  BY MapCases DEF IInv, Downloading
<1>2. Counts(task[t]) /\ Due(task[t]) = 0
  BY <1>1 DEF Counts, Due
<1>3. PICK d \in Nat : d \in {0, 1} /\ chunks_fetched' = chunks_fetched + d
  <2>1. chunks_fetched \in Nat
    BY <1>1 DEF TypeOK
  <2>2. chunks_fetched' = chunks_fetched + 0 \/ chunks_fetched' = chunks_fetched + 1
    BY <2>1, MapCases
  <2> QED
    BY <2>2
<1>4. CASE EndTask(t, "failed", NoResult)
  <2>1. /\ task'[t].pc = "failed"
        /\ \A u \in Tasks : u # t => task'[u] = task[u]
    BY <1>1, <1>4, EndTaskFacts
  <2>2. ~Counts(task'[t])
    BY <2>1 DEF Counts
  <2> QED
    BY <1>1, <1>3, <2>1, <2>2, CountMoves
<1>5. CASE /\ chunks_fetched' = chunks_fetched + 1
           /\ task[t].addr \in Files /\ NextRound(t, Begin(task[t].addr))
  <2>1. PICK f \in Files : f = task[t].addr
    BY <1>5
  <2>2. PICK r \in RetrievalState : r = Begin(f) /\ Resolving(r, f)
    BY BeginFacts
  <2>3. r.file = f /\ r.level = Outermost(f) /\ (r.root_resolved => Outermost(f) = 1)
    BY <2>2 DEF Begin, Outermost
  <2>4. /\ task'[t].addr = f
        /\ IsComplete(r) => task'[t].pc = "done"
        /\ ~IsComplete(r) => task'[t].pc = "round" /\ task'[t].retrieval = r
        /\ \A u \in Tasks : u # t => task'[u] = task[u]
    BY <1>1, <1>5, <2>1, <2>2, NextRoundFacts
  <2>5. Due(task'[t]) = 1
    <3>1. CASE IsComplete(r)
      <4>1. Outermost(f) = 1 /\ RequiredAddresses(r) = {}
        BY <2>3, <3>1 DEF IsComplete
      <4>2. PICK n \in Nat : n = Len(Infos(r)) /\ RequiredAddresses(r) = 1..n
        BY <2>2, RoundIsWhole
      <4>3. n = 0
        BY <4>1, <4>2
      <4>4. Infos(r) = Levels[f][1]
        BY <2>3, <4>1 DEF Infos
      <4>5. ChunksOf(f) = 1 + n
        BY <4>1, <4>2, <4>4, ChunksOfFacts
      <4>6. ChunksOf(f) = 1
        BY <4>3, <4>5
      <4> QED
        BY <2>4, <3>1, <4>6 DEF Due
    <3>2. CASE ~IsComplete(r)
      BY <2>3, <2>4, <3>2 DEF Due, Base
    <3> QED
      BY <3>1, <3>2
  <2>6. Due(task'[t]) = Due(task[t]) + 1
    BY <1>2, <2>5
  <2> QED
    BY <1>1, <1>2, <1>5, <2>4, <2>6, CountMoves
<1> QED
  BY <1>4, <1>5, MapCases

\* A round that succeeds counts its whole map, and leaves the retrieval at
\* the root or the file complete.
LEMMA RoundCounts ==
  ASSUME OnceWrapped, DistinctLevels, IInv, CountInv, NEW t \in Tasks, RoundFetched(t)
  PROVE  CountInv'
<1>1. /\ TypeOK /\ task[t].pc = "round" /\ lone' = lone /\ Downloading(t)
  BY RoundCases DEF IInv, Downloading
<1>2. PICK S \in SUBSET DOMAIN fetches[t] :
        /\ Cardinality(S) \in Nat
        /\ chunks_fetched' = chunks_fetched + Cardinality(S)
        /\ \/ EndTask(t, "failed", NoResult)
           \/ S = DOMAIN fetches[t] /\ NextRound(t, Advance(Supplied(t, S)))
        /\ S = DOMAIN fetches[t] => \A i \in DOMAIN fetches[t] : fetches[t][i].pc = "ok"
  BY RoundCases
<1>3. PICK d \in Nat : d = Cardinality(S) /\ chunks_fetched' = chunks_fetched + d
  BY <1>2
<1>4. CASE EndTask(t, "failed", NoResult)
  <2>1. /\ task'[t].pc = "failed"
        /\ \A u \in Tasks : u # t => task'[u] = task[u]
    BY <1>1, <1>4, EndTaskFacts
  <2>2. ~Counts(task'[t])
    BY <2>1 DEF Counts
  <2> QED
    BY <1>1, <1>3, <2>1, <2>2, CountMoves
<1>5. CASE S = DOMAIN fetches[t] /\ NextRound(t, Advance(Supplied(t, S)))
  <2>1. PICK y \in Task : y = task[t]
    BY <1>1 DEF TypeOK
  <2>2. /\ y.op = "download" /\ Resolving(y.retrieval, y.addr)
        /\ DOMAIN fetches[t] = RequiredAddresses(y.retrieval)
    BY <1>1, <2>1 DEF IInv, TasksInv, TaskOk
  <2>3. PICK f \in Files : f = y.addr
    BY <2>2 DEF Resolving
  <2>4. PICK q \in RetrievalState : q = y.retrieval
    BY <2>1, <2>2 DEF Task, Resolving
  <2>5. Resolving(q, f) /\ q.file = f
    BY <2>2, <2>3, <2>4 DEF Resolving
  <2>6. PICK r : r = Supplied(t, S)
    OBVIOUS
  <2>7. /\ r.file = f /\ r.root_resolved = q.root_resolved
        /\ r.root_resolved => IsComplete(Advance(r))
        /\ ~r.root_resolved => Resolving(Advance(r), f)
        /\ Advance(r) \in RetrievalState /\ Advance(r).level = 1 /\ Advance(r).file = f
    <3>1. /\ IInv /\ t \in Tasks /\ task[t].pc = "round"
          /\ \A i \in DOMAIN fetches[t] : fetches[t][i].pc = "ok"
          /\ r = Supplied(t, DOMAIN fetches[t])
      BY <1>1, <1>2, <1>5, <2>6
    <3>2. task[t].addr = f /\ task[t].retrieval.root_resolved = q.root_resolved
      BY <2>1, <2>3, <2>4
    <3>3. /\ r.file = task[t].addr /\ r.root_resolved = task[t].retrieval.root_resolved
          /\ r.root_resolved => IsComplete(Advance(r))
          /\ ~r.root_resolved => Resolving(Advance(r), task[t].addr)
          /\ Advance(r) \in RetrievalState /\ Advance(r).level = 1 /\ Advance(r).file = r.file
      BY ONLY <3>1, RoundFacts
    <3> QED
      BY <3>2, <3>3
  <2>8. PICK z \in RetrievalState : z = Advance(r)
    BY <2>7
  <2>9. /\ task'[t].op = y.op /\ task'[t].addr = f
        /\ IsComplete(z) => task'[t].pc = "done"
        /\ ~IsComplete(z) => task'[t].pc = "round" /\ task'[t].retrieval = z
        /\ \A u \in Tasks : u # t => task'[u] = task[u]
    BY <1>1, <1>5, <2>1, <2>3, <2>6, <2>8, NextRoundFacts
  <2>10. d = Len(Infos(q))
    BY <1>3, <1>5, <2>2, <2>4, <2>5, RoundIsWhole
  <2>11. Infos(q) = Levels[f][q.level]
    BY <2>5 DEF Infos
  <2>12. Due(task[t]) = Base(q) /\ Counts(task[t])
    BY <1>1, <2>1, <2>2, <2>4 DEF Due, Counts
  <2>13. Outermost(f) \in {1, 2}
    BY LevelsFacts DEF OnceWrapped
  <2>14. Due(task'[t]) = Base(q) + d
    <3>1. CASE q.level = 1 /\ Outermost(f) = 1
      <4>1. Due(task'[t]) = ChunksOf(f)
        BY <2>5, <2>7, <2>8, <2>9, <3>1 DEF Due, Resolving
      <4>2. ChunksOf(f) = 1 + d
        BY <2>10, <2>11, <3>1, ChunksOfFacts
      <4> QED
        BY <2>5, <3>1, <4>1, <4>2 DEF Base
    <3>2. CASE q.level = 1 /\ Outermost(f) = 2
      <4>1. Due(task'[t]) = ChunksOf(f)
        BY <2>5, <2>7, <2>8, <2>9, <3>2 DEF Due, Resolving
      <4>2. ChunksOf(f) = 1 + Len(Levels[f][2]) + d
        BY <2>10, <2>11, <3>2, ChunksOfFacts
      <4>3. Base(q) = 1 + Len(Levels[f][2])
        BY <2>5, <3>2 DEF Base
      <4> QED
        BY <4>1, <4>2, <4>3
    <3>3. CASE q.level = 2 /\ Outermost(f) = 2
      <4>1. Base(q) = 1 /\ d = Len(Levels[f][2])
        BY <2>5, <2>10, <2>11, <3>3 DEF Base
      <4>2. Resolving(z, f) /\ z.level = 1 /\ z.file = f
        <5>1. ~q.root_resolved
          BY <2>5, <3>3 DEF Resolving
        <5> QED
          BY <2>7, <2>8, <5>1
      <4>3. CASE IsComplete(z)
        <5>1. PICK n \in Nat : n = Len(Infos(z)) /\ RequiredAddresses(z) = 1..n
          BY <4>2, RoundIsWhole
        <5>2. n = 0
          BY <4>3, <5>1 DEF IsComplete
        <5>3. Infos(z) = Levels[f][1]
          BY <4>2 DEF Infos
        <5>4. ChunksOf(f) = 1 + d + n
          BY <3>3, <4>1, <5>1, <5>3, ChunksOfFacts
        <5>5. Due(task'[t]) = ChunksOf(f)
          BY <2>9, <4>3 DEF Due
        <5> QED
          BY <4>1, <5>2, <5>4, <5>5
      <4>4. CASE ~IsComplete(z)
        <5>1. Due(task'[t]) = Base(z)
          BY <2>9, <4>4 DEF Due
        <5>2. Base(z) = 1 + d
          BY <3>3, <4>1, <4>2 DEF Base
        <5> QED
          BY <4>1, <5>1, <5>2
      <4> QED
        BY <4>3, <4>4
    <3> QED
      BY <2>5, <2>13, <3>1, <3>2, <3>3 DEF Resolving
  <2>15. Due(task'[t]) = Due(task[t]) + d
    BY <2>12, <2>14
  <2> QED
    BY <1>1, <1>3, <2>9, <2>12, <2>15, CountMoves
<1> QED
  BY <1>2, <1>4, <1>5

\* Every step preserves the count.
LEMMA NextCounts ==
  ASSUME OnceWrapped, DistinctLevels, IInv, CountInv, [Next]_vars
  PROVE  CountInv'
<1>0. TypeOK
  BY DEF IInv
<1>1. ASSUME NEW t \in Tasks, FetchChunkReturns(t) PROVE CountInv'
  <2>1. /\ chunks_fetched' = chunks_fetched + 0 /\ lone' = lone /\ task[t].op = "fetch_chunk"
    <3>1. chunks_fetched' = chunks_fetched /\ lone' = lone /\ task[t].op = "fetch_chunk"
      BY <1>1, ChunkCases
    <3>2. chunks_fetched \in Nat
      BY <1>0 DEF TypeOK
    <3> QED
      BY <3>1, <3>2
  <2>2. /\ task'[t].op = task[t].op /\ task'[t].pc \in {"done", "failed"}
        /\ \A u \in Tasks : u # t => task'[u] = task[u]
    <3>1. CASE EndTask(t, "done", <<task[t].addr>>)
      BY <1>0, <3>1, EndTaskFacts
    <3>2. CASE EndTask(t, "failed", NoResult)
      BY <1>0, <3>2, EndTaskFacts
    <3> QED
      BY <1>1, <3>1, <3>2, ChunkCases
  <2>3. ~Counts(task'[t]) /\ ~Downloading(t)'
    BY <2>1, <2>2 DEF Counts, Downloading
  <2>4. 0 \in Nat
    OBVIOUS
  <2> QED
    BY <1>0, <2>1, <2>2, <2>3, <2>4, CountMoves
<1>2. ASSUME UNCHANGED <<task, chunks_fetched, lone>> PROVE CountInv'
  BY <1>2 DEF CountInv, Alone, Downloading
<1>3. ASSUME NEW t \in Tasks, NEW i \in DOMAIN fetches[t], FetchStep(t, i) PROVE CountInv'
  <2>1. ASSUME NEW peers, Discovered(t, i, peers) PROVE CountInv'
    BY <1>2, <2>1 DEF Discovered
  <2>2. CASE DiscoveryFails(t, i)
    BY <1>2, <2>2 DEF DiscoveryFails
  <2>3. CASE ConnectOk(t, i) \/ ConnectFails(t, i)
    BY <1>2, <2>3 DEF ConnectOk, ConnectFails
  <2>4. ASSUME NEW b, GetAnswered(t, i, b) PROVE CountInv'
    BY <1>2, <2>4 DEF GetAnswered
  <2>5. CASE GetFails(t, i)
    BY <1>2, <2>5 DEF GetFails
  <2> QED
    BY <1>3, <2>1, <2>2, <2>3, <2>4, <2>5 DEF FetchStep
<1>4. ASSUME NEW k \in DOMAIN conns, Close(k) PROVE CountInv'
  BY <1>2, <1>4 DEF Close
<1>5. CASE UNCHANGED vars
  BY <1>2, <1>5 DEF vars
<1> QED
  BY <1>0, <1>1, <1>3, <1>4, <1>5, StartCounts, MapCounts, RoundCounts
  DEF Next, TaskStep, Quiet

\* What is counted, for every reachable state.
LEMMA Counting ==
  ASSUME OnceWrapped, DistinctLevels
  PROVE  Spec => []CountInv
<1>1. Init => CountInv
  <2> SUFFICES ASSUME Init, NEW t \in Tasks PROVE ~Counts(task[t])
    BY DEF CountInv, CountOk, Alone, Init
  <2> QED
    BY DEF Init, Idle, Counts
<1>2. IInv /\ CountInv /\ [Next]_vars => CountInv'
  BY NextCounts
<1> QED
  BY <1>1, <1>2, Invariance, PTL DEF Spec

\* chunk_count (src/lib.rs) after a download during which no other download
\* ran is the map chunk plus every entry of every level, repeated addresses
\* included, however often the client was used before and whatever fetch_chunk
\* calls overlap: for every file whose map is wrapped at most once and shares
\* no chunk with its wrapper.
THEOREM CountTheorem ==
  ASSUME OnceWrapped, DistinctLevels
  PROVE  Spec => []CountIsExact
<1>1. TypeOK /\ CountInv => CountIsExact
  <2> SUFFICES ASSUME TypeOK, CountInv, NEW t \in lone, task[t].pc = "done",
                      task[t].op = "download"
               PROVE  chunks_fetched = ChunksOf(task[t].addr)
    BY DEF CountIsExact
  <2>1. CountOk(task[t], chunks_fetched, t \in lone)
    BY DEF CountInv, TypeOK
  <2> QED
    BY <2>1 DEF CountOk, Counts, Due
<1> QED
  BY <1>1, Counting, TypeCorrect, PTL
=============================================================================
