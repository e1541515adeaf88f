----------------------------- MODULE Retrieval ------------------------------
(***************************************************************************)
(* The verified-retrieval state machine of src/retrieval.rs, as operators  *)
(* on a record [file, level, root_resolved, cache].                        *)
(*                                                                         *)
(* A chunk's bytes stand for themselves under the address they hash to:    *)
(* the bytes b are the right ones for the address a exactly when b = a, and *)
(* what a node serves is any b.  The cache maps an address to the bytes    *)
(* supplied for it.                                                        *)
(*                                                                         *)
(* A data map is identified by the file it belongs to and its level.  The  *)
(* map at level 1 is the root: its infos are the content chunks.  The map  *)
(* at level k > 1 is a child (is_child): its infos are the wrapper chunks  *)
(* that decrypt to the map at level k - 1.  The chunk at the public        *)
(* address holds the outermost map, at level Len(Levels[file]).            *)
(*                                                                         *)
(* self_encryption is external: get_root_data_map walks from a child map   *)
(* to the root, taking every wrapper chunk on the way from its argument.   *)
(***************************************************************************)
EXTENDS Naturals, Sequences, FiniteSets

CONSTANTS
  Files,     \* public addresses that hold a data map
  Chunks,    \* addresses that hold a content or wrapper chunk
  Levels     \* Levels[f][k]: the infos of f's map at level k, in order

ASSUME LevelsAssumption ==
  /\ Files \cap Chunks = {} /\ Files # {}
  /\ \A f \in Files : Levels[f] \in Seq(Seq(Chunks)) /\ Levels[f] # <<>>

Addresses == Files \cup Chunks

Cache == UNION {[held -> Addresses] : held \in SUBSET Addresses}

RetrievalState == [file : Files, level : Nat \ {0}, root_resolved : BOOLEAN, cache : Cache]

\* The chunks a full retrieval of f takes off the network: the map chunk and
\* every entry of every level.
Entries(f) == UNION {{k} \X DOMAIN Levels[f][k] : k \in DOMAIN Levels[f]}
ChunksOf(f) == 1 + Cardinality(Entries(f))

\* verify_chunk (external): the bytes hash to the address.
VerifyChunk(a, b) == b = a

\* begin() fails when the bytes do not verify or are no data map.
BeginFails(a, b) == ~VerifyChunk(a, b) \/ b \notin Files

\* The map the bytes b decode to.
Begin(b) ==
  [file |-> b, level |-> Len(Levels[b]),
   root_resolved |-> Len(Levels[b]) = 1, cache |-> [a \in {} |-> a]]

Infos(r) == Levels[r.file][r.level]

\* The entries of the current map that are still needed, by their index: an
\* address that the map repeats is required once for each.
RequiredAddresses(r) == {i \in DOMAIN Infos(r) : Infos(r)[i] \notin DOMAIN r.cache}

\* supply() for each <<address, bytes>> of got, all of them verified (so that
\* an address supplied twice is supplied the same bytes).
Supply(r, got) ==
  LET supplied == {g[1] : g \in got}
      chunk(a) == (CHOOSE g \in got : g[1] = a)[2]
  IN [r EXCEPT !.cache = [a \in DOMAIN r.cache \cup supplied |->
                            IF a \in supplied THEN chunk(a) ELSE r.cache[a]]]

\* The cache holds the address, and the bytes it holds are its content.
Intact(r, a) == a \in DOMAIN r.cache /\ r.cache[a] = a

\* get_root_data_map (external) finds every wrapper down to the root and
\* decrypts it.
RootReachable(r) ==
  \A k \in 2..r.level : \A i \in DOMAIN Levels[r.file][k] : Intact(r, Levels[r.file][k][i])

AdvanceNeeded(r) == ~r.root_resolved /\ RequiredAddresses(r) = {}

\* advance() returns an error exactly when a wrapper is missing or damaged.
AdvanceFails(r) == AdvanceNeeded(r) /\ ~RootReachable(r)

AdvanceUnmarked(r) ==
  IF AdvanceNeeded(r) THEN [r EXCEPT !.level = 1] ELSE r

Advance(r) ==
  IF AdvanceNeeded(r) THEN [r EXCEPT !.level = 1, !.root_resolved = TRUE] ELSE r

IsComplete(r) == r.root_resolved /\ RequiredAddresses(r) = {}

\* finish() fails on an incomplete retrieval or a chunk the cache lacks.
FinishFails(r) ==
  ~IsComplete(r) \/ \E i \in DOMAIN Infos(r) : Infos(r)[i] \notin DOMAIN r.cache

\* Otherwise decrypt (external) makes the plaintext of the bytes the cache
\* holds for the map's entries, in the map's order.
Finish(r) == [i \in DOMAIN Infos(r) |-> r.cache[Infos(r)[i]]]
=============================================================================
