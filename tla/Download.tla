------------------------------ MODULE Download ------------------------------
(***************************************************************************)
(* The download side of WasmClient (src/lib.rs): connection pool,          *)
(* connection_for, get_direct, fetch_chunk and download.                   *)
(*                                                                         *)
(* Tasks are calls a page makes on one client, possibly overlapping.  A    *)
(* download fetches the data map, then round after round the chunks its    *)
(* retrieval still needs: join_all runs one get_direct per address, and    *)
(* each of those suspends in discovery, in connect and in get_verified.    *)
(*                                                                         *)
(* A connection is used through its contract, which NodeConnection         *)
(* establishes: the answer get_verified reads is the one to its request,   *)
(* or an error.  The Good peers hold every chunk, accept every connection  *)
(* and answer on it while it is open; the others may fail at each step and *)
(* serve any bytes.                                                        *)
(***************************************************************************)
EXTENDS Retrieval

CONSTANTS
  Tasks,       \* overlapping calls on the client
  Peers,       \* nodes discovery can name
  Good,        \* peers that serve whatever they are asked for
  Bootstrap,   \* the peer of the bootstrap connection
  MaxStarts,   \* bound: calls made
  MaxCloses    \* bound: connections that close

ASSUME PeersAssumption ==
  /\ IsFiniteSet(Peers)
  /\ Bootstrap \in Peers /\ Good \subseteq Peers
ASSUME DownloadBoundsAssumption == MaxStarts \in Nat /\ MaxCloses \in Nat

VARIABLES
  task,            \* per task: what it runs and how far it is
  fetches,         \* per task: the get_direct futures of the current join_all
  pool,            \* peer -> index into conns, 0 when absent
  conns,           \* every connection opened; conns[1] is the bootstrap
  chunks_fetched,
  lone,            \* history: the task whose download started last, while no
                   \* other download was under way; empty otherwise
  starts, closes,  \* counters for the bounds
  excused          \* some failure is the network's: see Excuse

vars == <<task, fetches, pool, conns, chunks_fetched, lone, starts, closes, excused>>

NoResult == <<>>

\* A task runs "download" or "fetch_chunk" for addr; in "map" and "chunk" it
\* awaits one get_direct, in "round" a join_all.
Idle == [pc |-> "idle", op |-> "fetch_chunk", addr |-> CHOOSE a \in Addresses : TRUE,
         retrieval |-> <<>>, result |-> NoResult]

Task == [pc : {"idle", "chunk", "map", "round", "done", "failed"},
         op : {"download", "fetch_chunk"}, addr : Addresses,
         retrieval : {<<>>} \cup RetrievalState, result : Seq(Addresses)]

Fetch == [pc : {"discover", "connect", "get", "ok", "err"},
          addr : Addresses, peers : Seq(Peers), conn : Nat,
          content : {<<>>} \cup {<<b>> : b \in Addresses}]

TypeOK ==
  /\ task \in [Tasks -> Task]
  /\ DOMAIN fetches = Tasks
  /\ \A t \in Tasks :
       /\ fetches[t] \in [DOMAIN fetches[t] -> Fetch]
       /\ DOMAIN fetches[t] \subseteq Nat
       /\ \A i \in DOMAIN fetches[t] : fetches[t][i].conn \in 0..Len(conns)
  /\ pool \in [Peers -> 0..Len(conns)]
  /\ conns \in Seq([peer : Peers, open : BOOLEAN])
  /\ chunks_fetched \in Nat /\ lone \subseteq Tasks
  /\ excused \in BOOLEAN

Init ==
  /\ task = [t \in Tasks |-> Idle]
  /\ fetches = [t \in Tasks |-> <<>>]
  /\ pool = [p \in Peers |-> IF p = Bootstrap THEN 1 ELSE 0]
  /\ conns = <<[peer |-> Bootstrap, open |-> TRUE]>>
  /\ chunks_fetched = 0 /\ lone = {}
  /\ starts = 0 /\ closes = 0
  /\ excused = FALSE

-----------------------------------------------------------------------------
(* get_direct                                                              *)

NewFetch(a) ==
  [pc |-> "discover", addr |-> a, peers |-> <<>>, conn |-> 0, content |-> <<>>]

\* The loop head of get_direct for the peers still to try, up to the next
\* await: connection_for returns a pooled connection at once, whatever became
\* of it, or starts to connect.
TryPeers(f, peers) ==
  IF peers = <<>>
  THEN [f EXCEPT !.pc = "err", !.peers = <<>>, !.conn = 0]
  ELSE [f EXCEPT !.pc = IF pool[Head(peers)] = 0 THEN "connect" ELSE "get",
                 !.peers = peers, !.conn = pool[Head(peers)]]

SetFetch(t, i, f) == fetches' = [fetches EXCEPT ![t][i] = f]

\* An answer the network owes a healthy client and did not give.
Excuse(b) == excused' = (excused \/ b)

\* closest_peers answers.  An empty list ends get_direct with an error.
Discovered(t, i, peers) ==
  /\ fetches[t][i].pc = "discover"
  /\ conns[1].open
  /\ SetFetch(t, i, TryPeers(fetches[t][i], peers))
  /\ Excuse(\A k \in DOMAIN peers : peers[k] \notin Good)
  /\ UNCHANGED <<task, pool, conns, chunks_fetched, lone, starts, closes>>

DiscoveryFails(t, i) ==
  /\ fetches[t][i].pc = "discover"
  /\ SetFetch(t, i, [fetches[t][i] EXCEPT !.pc = "err"])
  /\ Excuse(TRUE)
  /\ UNCHANGED <<task, pool, conns, chunks_fetched, lone, starts, closes>>

\* connect succeeds: the connection goes into the pool, over one that another
\* task may have put there meanwhile, and get_verified starts on it.
ConnectOk(t, i) ==
  LET f == fetches[t][i]
      k == Len(conns) + 1
  IN /\ f.pc = "connect"
     /\ conns' = Append(conns, [peer |-> Head(f.peers), open |-> TRUE])
     /\ pool' = [pool EXCEPT ![Head(f.peers)] = k]
     /\ SetFetch(t, i, [f EXCEPT !.pc = "get", !.conn = k])
     /\ UNCHANGED <<task, chunks_fetched, lone, starts, closes, excused>>

ConnectFailsPooled(t, i) ==
  LET f == fetches[t][i]
  IN /\ f.pc = "connect"
     /\ Head(f.peers) \notin Good
     /\ SetFetch(t, i, TryPeers(f, Tail(f.peers)))
     /\ pool' = [pool EXCEPT ![Head(f.peers)] = Len(conns) + 1]
     /\ UNCHANGED <<task, conns, chunks_fetched, lone, starts, closes, excused>>

ConnectFails(t, i) ==
  LET f == fetches[t][i]
  IN /\ f.pc = "connect"
     /\ Head(f.peers) \notin Good
     /\ SetFetch(t, i, TryPeers(f, Tail(f.peers)))
     /\ UNCHANGED <<task, pool, conns, chunks_fetched, lone, starts, closes, excused>>

GivesUp(f) == [f EXCEPT !.pc = "err", !.peers = <<>>, !.conn = 0]

\* get_verified fails: the loop goes on to the next peer.
AfterGetErrStopping(f) == GivesUp(f)
AfterGetErr(f) == TryPeers(f, Tail(f.peers))

\* get_verified hashes the content served (conn.rs).
GetUnverified(a, b) == TRUE
GetVerified(a, b) == b = a

\* The peer serves the bytes b for the address.
GetAnswered(t, i, b) ==
  LET f == fetches[t][i]
  IN /\ f.pc = "get"
     /\ conns[f.conn].open
     /\ Head(f.peers) \in Good => b = f.addr
     /\ SetFetch(t, i, IF GetVerified(f.addr, b)
                       THEN [f EXCEPT !.pc = "ok", !.peers = <<>>, !.conn = 0, !.content = <<b>>]
                       ELSE AfterGetErr(f))
     /\ UNCHANGED <<task, pool, conns, chunks_fetched, lone, starts, closes, excused>>

GetFails(t, i) ==
  LET f == fetches[t][i]
  IN /\ f.pc = "get"
     /\ ~conns[f.conn].open \/ Head(f.peers) \notin Good
     /\ SetFetch(t, i, AfterGetErr(f))
     /\ UNCHANGED <<task, pool, conns, chunks_fetched, lone, starts, closes, excused>>

-----------------------------------------------------------------------------
(* fetch_chunk and download                                                *)

Running(t) == task[t].pc \in {"chunk", "map", "round"}
Downloading(t) == task[t].pc \in {"map", "round"}
Joined(t) == \A i \in DOMAIN fetches[t] : fetches[t][i].pc \in {"ok", "err"}

CountKept(op) == chunks_fetched
CountAtStart(op) == IF op = "download" THEN 0 ELSE chunks_fetched

Start(t, op, a) ==
  /\ ~Running(t)
  /\ starts < MaxStarts
  /\ starts' = starts + 1
  /\ task' = [task EXCEPT ![t] =
       [pc |-> IF op = "download" THEN "map" ELSE "chunk", op |-> op, addr |-> a,
        retrieval |-> <<>>, result |-> NoResult]]
  /\ fetches' = [fetches EXCEPT ![t] = <<NewFetch(a)>>]
  /\ chunks_fetched' = CountAtStart(op)
  /\ lone' = IF op # "download" THEN lone
             ELSE {u \in {t} : \A v \in Tasks : ~Downloading(v)}
  /\ UNCHANGED <<pool, conns, closes, excused>>

EndTask(t, pc, result) ==
  /\ task' = [task EXCEPT ![t].pc = pc, ![t].result = result]
  /\ fetches' = [fetches EXCEPT ![t] = <<>>]

\* The head of the while loop: the next round's join_all, or finish.
NextRound(t, r) ==
  IF ~IsComplete(r)
  THEN /\ task' = [task EXCEPT ![t].pc = "round", ![t].retrieval = r]
       /\ fetches' = [fetches EXCEPT ![t] =
                        [i \in RequiredAddresses(r) |-> NewFetch(Infos(r)[i])]]
  ELSE IF FinishFails(r) THEN EndTask(t, "failed", NoResult)
                         ELSE EndTask(t, "done", Finish(r))

FetchChunkReturns(t) ==
  /\ task[t].pc = "chunk" /\ Joined(t)
  /\ IF fetches[t][1].pc = "ok" THEN EndTask(t, "done", fetches[t][1].content)
                                ELSE EndTask(t, "failed", NoResult)
  /\ UNCHANGED <<pool, conns, chunks_fetched, lone, starts, closes, excused>>

\* The chunk at the address arrived (or not) and is a data map (or not).
MapFetched(t) ==
  /\ task[t].pc = "map" /\ Joined(t)
  /\ LET f == fetches[t][1]
     IN IF f.pc = "err"
        THEN EndTask(t, "failed", NoResult) /\ UNCHANGED chunks_fetched
        ELSE /\ chunks_fetched' = chunks_fetched + 1
             /\ IF BeginFails(task[t].addr, f.content[1])
                THEN EndTask(t, "failed", NoResult)
                ELSE NextRound(t, Begin(f.content[1]))
  /\ UNCHANGED <<pool, conns, lone, starts, closes, excused>>

Accepted(f) == f.pc = "ok" /\ VerifyChunk(f.addr, f.content[1])

\* join_all resolved.  The results are supplied in order; the first error, of
\* the fetch or of supply, ends the download, with the chunks before it
\* supplied and counted.
RoundFetched(t) ==
  /\ task[t].pc = "round" /\ Joined(t)
  /\ LET fs == fetches[t]
         supplied == {i \in DOMAIN fs : \A j \in DOMAIN fs : j <= i => Accepted(fs[j])}
         r == Supply(task[t].retrieval, {<<fs[i].addr, fs[i].content[1]>> : i \in supplied})
     IN /\ chunks_fetched' = chunks_fetched + Cardinality(supplied)
        /\ IF supplied # DOMAIN fs \/ AdvanceFails(r)
           THEN EndTask(t, "failed", NoResult)
           ELSE NextRound(t, Advance(r))
  /\ UNCHANGED <<pool, conns, lone, starts, closes, excused>>

-----------------------------------------------------------------------------
\* A connection closes; nothing removes it from the pool.
Close(k) ==
  /\ closes < MaxCloses
  /\ conns[k].open
  /\ conns' = [conns EXCEPT ![k].open = FALSE]
  /\ closes' = closes + 1
  /\ Excuse(conns[k].peer \in Good)
  /\ UNCHANGED <<task, fetches, pool, chunks_fetched, lone, starts>>

\* The answers discovery gives: any list of distinct peers.
PeerLists ==
  {l \in UNION {[1..n -> Peers] : n \in 0..Cardinality(Peers)} :
     \A i, j \in DOMAIN l : i # j => l[i] # l[j]}

FetchStep(t, i) ==
  \/ \E peers \in PeerLists : Discovered(t, i, peers)
  \/ DiscoveryFails(t, i)
  \/ ConnectOk(t, i) \/ ConnectFails(t, i)
  \/ \E b \in Addresses : GetAnswered(t, i, b)
  \/ GetFails(t, i)

TaskStep(t) == FetchChunkReturns(t) \/ MapFetched(t) \/ RoundFetched(t)

Quiet == starts = MaxStarts /\ (\A t \in Tasks : ~Running(t)) /\ UNCHANGED vars

Next ==
  \/ \E t \in Tasks, op \in {"download", "fetch_chunk"}, a \in Addresses : Start(t, op, a)
  \/ \E t \in Tasks : \E i \in DOMAIN fetches[t] : FetchStep(t, i)
  \/ \E t \in Tasks : TaskStep(t)
  \/ \E k \in DOMAIN conns : Close(k)
  \/ Quiet

Spec == Init /\ [][Next]_vars

\* Every await of get_direct resolves (NodeConnection!OnlySilenceBlocks says
\* when it does), so that the futures of a call are joined or go on again and
\* again; some FetchStep is enabled until they are, so this is its weak
\* fairness.  A task whose futures are ready runs.
Fairness ==
  \A t \in Tasks :
    /\ []<>Joined(t) \/ []<><<fetches'[t] # fetches[t]>>_vars
    /\ WF_vars(TaskStep(t))

FairSpec == Spec /\ Fairness

-----------------------------------------------------------------------------
(* Properties                                                              *)

\* download returns the plaintext of the bytes of the file's own content
\* chunks, in order and complete: never of a wrapper level, of a partial set
\* or of bytes that some peer made up, whatever failed on the way and whatever
\* else runs; fetch_chunk returns the content of the address asked for.
DoneIsWholeFile ==
  \A t \in Tasks : task[t].pc = "done" =>
    task[t].result = IF task[t].op = "download" THEN Levels[task[t].addr][1]
                                                ELSE <<task[t].addr>>

\* A call fails only for a cause: the address holds no data map, discovery
\* failed or named no peer that serves, or a serving peer's connection closed.
\* In particular a refusing peer, a failed connect or a dead connection to
\* another peer never costs a chunk that some discovered peer would serve.
FailsOnlyForCause ==
  \A t \in Tasks : task[t].pc = "failed" =>
    excused \/ (task[t].op = "download" /\ task[t].addr \notin Files)

\* chunk_count after a download during which no other download ran is the
\* data map plus every content and wrapper chunk (src/lib.rs, chunk_count),
\* also for the second download on the same client, with chunks repeated in a
\* map and with fetch_chunk calls in between.
CountIsExact ==
  \A t \in lone : (task[t].pc = "done" /\ task[t].op = "download")
    => chunks_fetched = ChunksOf(task[t].addr)

\* "Chunks the last `download` fetched over the network" (src/lib.rs,
\* chunk_count): when the downloads are over, the count is that of one of
\* them, whichever is taken to be the last.
CountIsOneDownloads ==
  (\A t \in Tasks : task[t].pc = "done" /\ task[t].op = "download")
    => \E t \in Tasks : chunks_fetched = ChunksOf(task[t].addr)

\* No sequence of rounds, errors and closes makes a call run forever while
\* its requests are answered: the calls a page has made are all over again
\* and again (it makes MaxStarts of them, so each call ends).
EveryCallEnds == []<>(\A t \in Tasks : ~Running(t))

\* "shrunk (multi-level) data maps are resolved round by round, so large files
\* work" (README.md): a download of a stored file whose chunks are all served
\* does not fail, however often its map is wrapped.
LargeFilesWork ==
  \A t \in Tasks :
    (task[t].pc = "failed" /\ task[t].op = "download" /\ task[t].addr \in Files) => excused

\* "Number of open node connections" (src/lib.rs, connection_count, which
\* counts the pool): what the pool holds is open.
CountedIsOpen == \A p \in Peers : pool[p] # 0 => conns[pool[p]].open
=============================================================================
