---------------------------- MODULE UploadProofs ----------------------------
(***************************************************************************)
(* Safety of Upload for every set of peers, every file, every group size,  *)
(* majority and number of attempts.                                        *)
(*                                                                         *)
(* The inductive invariant says what store_one's two counters stand for:   *)
(* already counts peers of the group, before the one being quoted, that    *)
(* hold the chunk or lie about it, and misses no honest holder among them; *)
(* accepted counts such peers before the one being PUT to.                 *)
(***************************************************************************)
EXTENDS Upload, FiniteSetTheorems, TLAPS

Quoting == pc \in {"connect", "quote"}
Paying == pc \in {"approve", "pay"}
Asking == Quoting \/ Paying \/ pc = "put"

\* Everything before the current item is stored; after the last one, all is.
PrefixStored ==
  /\ \A j \in 1..Len(items) : j < item => AtMajority(items[j])
  /\ pc = "done" => item = Len(items) /\ AtMajority(items[item])

\* The group is a whole one of distinct peers while store_one asks them.
GroupChosen ==
  /\ \A i, j \in 1..Len(group) : group[i] = group[j] => i = j
  /\ Asking => Len(group) = GroupSize

\* The peers of the group before the current one that hold the chunk at hand.
Earlier == {i \in 1..Len(group) : i < peer}
HoldersBefore == {group[i] : i \in Earlier} \cap Holders(Address)
HonestBefore == HonestHolders(Address) \cap Earlier

CountsStart ==
  /\ pc = "discover" => peer = 1 /\ attempt = 0 /\ already = 0 /\ accepted = 0
  /\ Quoting => accepted = 0
  /\ Paying => peer = 1 /\ attempt = 0 /\ accepted = 0

AlreadyCounts ==
  /\ Quoting => /\ already < Majority
                /\ already <= Cardinality(HoldersBefore)
                /\ Cardinality(HonestBefore) <= already
  /\ Paying => Cardinality(HonestHolders(Address)) < Majority

AcceptedCounts ==
  pc = "put" => accepted < peer /\ accepted <= Cardinality(HoldersBefore)

IInv ==
  /\ TypeOK
  /\ PrefixStored
  /\ GroupChosen
  /\ CountsStart
  /\ AlreadyCounts
  /\ AcceptedCounts
  /\ NoDanglingMap

-----------------------------------------------------------------------------
(* The file and its holders                                                *)

\* The data map is the last item of the store order, and only the last.
LEMMA ItemsFacts ==
  /\ items \in Seq(Addresses)
  /\ Len(items) \in Nat \ {0}
  /\ DOMAIN items = 1..Len(items)
  /\ items[Len(items)] = Map
  /\ \A j \in 1..(Len(items) - 1) : items[j] # Map
<1> DEFINE S == ChunkSet(Content) \cup ChunkSet(Wrappers) \cup {Map}
<1>1. Content \in Seq(S) /\ Wrappers \in Seq(S) /\ <<Map>> \in Seq(S)
  BY FileAssumption
<1>2. items \in Seq(S) /\ Len(items) = Len(Content) + Len(Wrappers) + 1
  BY <1>1 DEF items, StoreOrder
<1>3. items[Len(items)] = Map
  BY <1>1, <1>2 DEF items, StoreOrder
<1>4. ASSUME NEW j \in 1..(Len(items) - 1) PROVE items[j] # Map
  <2>1. CASE j <= Len(Content)
    <3>1. items[j] = Content[j] /\ j \in DOMAIN Content
      BY <1>1, <1>2, <2>1 DEF items, StoreOrder
    <3> QED
      BY <3>1, FileAssumption DEF ChunkSet
  <2>2. CASE j > Len(Content)
    <3>1. /\ items[j] = Wrappers[j - Len(Content)]
          /\ j - Len(Content) \in DOMAIN Wrappers
      BY <1>1, <1>2, <2>2 DEF items, StoreOrder
    <3> QED
      BY <3>1, FileAssumption DEF ChunkSet
  <2> QED
    BY <1>1, <1>2, <2>1, <2>2
<1>5. items \in Seq(Addresses)
  BY <1>2 DEF Addresses
<1> QED
  BY <1>1, <1>2, <1>3, <1>4, <1>5

\* Whoever holds a chunk or lies about it is one of finitely many peers.
LEMMA HoldersFinite ==
  ASSUME NEW a
  PROVE  /\ IsFiniteSet(Holders(a)) /\ Cardinality(Holders(a)) \in Nat
         /\ \A S \in SUBSET Holders(a) :
              /\ IsFiniteSet(S) /\ Cardinality(S) \in Nat
              /\ Cardinality(S) <= Cardinality(Holders(a))
<1>1. Holders(a) \subseteq Peers
  BY GroupAssumption DEF Holders
<1>2. IsFiniteSet(Holders(a))
  BY <1>1, GroupAssumption, FS_Subset
<1> QED
  BY <1>2, FS_Subset, FS_CardinalityType

\* Nodes lose nothing.
Grows == \A p \in Peers : stored[p] \subseteq stored'[p]

\* What has reached a majority stays there.
LEMMA MajorityStays ==
  ASSUME Grows, NEW a, AtMajority(a)
  PROVE  AtMajority(a)'
<1>1. Holders(a) \subseteq Holders(a)'
  BY DEF Holders, Grows
<1>2. Holders(a)' \subseteq Peers
  BY GroupAssumption DEF Holders
<1>3. IsFiniteSet(Holders(a)')
  BY <1>2, GroupAssumption, FS_Subset
<1>4. Cardinality(Holders(a)) <= Cardinality(Holders(a)')
  BY <1>1, <1>3, FS_Subset
<1>5. Cardinality(Holders(a)) \in Nat /\ Cardinality(Holders(a)') \in Nat
  BY <1>3, HoldersFinite, FS_CardinalityType
<1> QED
  BY <1>4, <1>5, GroupAssumption DEF AtMajority

-----------------------------------------------------------------------------
(* Counting peers of the group                                             *)

\* The peers of the group up to the current one that hold chunk a.
HoldersSoFar(a) == {group[i] : i \in Earlier \cup {peer}} \cap Holders(a)

\* A peer counted now was not counted before, as the group names it once.
LEMMA OneMoreHolder ==
  ASSUME IInv, Asking
  PROVE  /\ IsFiniteSet(HoldersBefore) /\ Cardinality(HoldersBefore) \in Nat
         /\ IsFiniteSet(HoldersBefore \cup {Current})
         /\ Cardinality(HoldersBefore \cup {Current}) = Cardinality(HoldersBefore) + 1
<1>1. Current \notin HoldersBefore
  BY DEF IInv, TypeOK, GroupChosen, HoldersBefore, Earlier, Current
<1>2. IsFiniteSet(HoldersBefore) /\ Cardinality(HoldersBefore) \in Nat
  BY HoldersFinite DEF HoldersBefore
<1> QED
  BY <1>1, <1>2, FS_AddElement

\* Counting the quote of the current peer.
LEMMA QuoteCounts ==
  ASSUME IInv, Quoting, NEW flag \in BOOLEAN,
         (flag = (Address \in stored[Current])) \/ Current \in Liars
  PROVE  /\ flag => already + 1 <= Cardinality(HoldersSoFar(Address))
         /\ already <= Cardinality(HoldersSoFar(Address))
         /\ Cardinality(HoldersSoFar(Address)) <= Cardinality(Holders(Address))
         /\ Cardinality(HonestHolders(Address) \cap (Earlier \cup {peer}))
              <= IF flag THEN already + 1 ELSE already
<1> USE DEF IInv
<1>1. already \in Nat /\ peer \in 1..Len(group) /\ Current \in Peers
  BY DEF TypeOK, GroupChosen, Asking, Current
<1>2. /\ already <= Cardinality(HoldersBefore)
      /\ Cardinality(HonestBefore) <= already
  BY DEF AlreadyCounts
<1>3. HoldersSoFar(Address) \subseteq Holders(Address)
  BY DEF HoldersSoFar
<1>4. IsFiniteSet(HoldersSoFar(Address)) /\ Cardinality(HoldersSoFar(Address)) \in Nat
  BY <1>3, HoldersFinite
<1>5. already <= Cardinality(HoldersSoFar(Address))
  <2>1. HoldersBefore \subseteq HoldersSoFar(Address)
    BY DEF HoldersBefore, HoldersSoFar
  <2>2. Cardinality(HoldersBefore) <= Cardinality(HoldersSoFar(Address))
    BY <1>4, <2>1, FS_Subset
  <2> QED
    BY <1>1, <1>2, <1>4, <2>2, OneMoreHolder DEF Asking
<1>6. ASSUME flag
      PROVE  already + 1 <= Cardinality(HoldersSoFar(Address))
  <2>1. Current \in Holders(Address)
    BY <1>1, <1>6 DEF Holders
  <2>2. HoldersBefore \cup {Current} \subseteq HoldersSoFar(Address)
    BY <2>1 DEF HoldersBefore, HoldersSoFar, Current
  <2>3. Cardinality(HoldersBefore \cup {Current}) <= Cardinality(HoldersSoFar(Address))
    BY <1>4, <2>2, FS_Subset
  <2> QED
    BY <1>1, <1>2, <1>4, <2>3, OneMoreHolder DEF Asking
<1>7. /\ IsFiniteSet(HonestBefore) /\ Cardinality(HonestBefore) \in Nat
      /\ peer \notin HonestBefore
  <2>1. Len(group) \in Nat /\ HonestBefore \subseteq 1..Len(group)
    BY DEF TypeOK, HonestBefore, Earlier
  <2>2. IsFiniteSet(1..Len(group))
    BY <2>1, FS_Interval
  <2> QED
    BY <1>1, <2>1, <2>2, FS_Subset, FS_CardinalityType DEF HonestBefore, Earlier
<1>8. ASSUME ~flag
      PROVE  Cardinality(HonestHolders(Address) \cap (Earlier \cup {peer})) <= already
  <2>1. HonestHolders(Address) \cap (Earlier \cup {peer}) = HonestBefore
    <3>1. peer \notin HonestHolders(Address)
      BY <1>8 DEF HonestHolders, Current
    <3> QED
      BY <3>1 DEF HonestBefore
  <2> QED
    BY <1>2, <1>8, <2>1
<1>9. ASSUME flag
      PROVE  Cardinality(HonestHolders(Address) \cap (Earlier \cup {peer})) <= already + 1
  <2>1. HonestHolders(Address) \cap (Earlier \cup {peer}) \subseteq HonestBefore \cup {peer}
    BY DEF HonestBefore
  <2>2. /\ IsFiniteSet(HonestBefore \cup {peer})
        /\ Cardinality(HonestBefore \cup {peer}) = Cardinality(HonestBefore) + 1
    BY <1>7, FS_AddElement
  <2>3. Cardinality(HonestHolders(Address) \cap (Earlier \cup {peer})) \in Nat
    BY <2>1, <2>2, FS_Subset, FS_CardinalityType
  <2>4. Cardinality(HonestHolders(Address) \cap (Earlier \cup {peer}))
          <= Cardinality(HonestBefore) + 1
    BY <2>1, <2>2, FS_Subset
  <2> QED
    BY <1>1, <1>2, <1>7, <1>9, <2>3, <2>4
<1> QED
  BY <1>3, <1>5, <1>6, <1>8, <1>9, HoldersFinite

\* What a step may do to the chunks nodes hold, and why it strands no map:
\* only a PUT of the last item stores the map.
LEMMA StoreEffect ==
  ASSUME IInv, UNCHANGED stored \/ (Asking /\ pc = "put" /\ Store)
  PROVE  /\ stored' \in [Peers -> SUBSET Addresses]
         /\ Grows
         /\ NoDanglingMap'
<1> USE DEF IInv
<1>1. Address \in Addresses
  BY ItemsFacts DEF TypeOK, Address
<1>2. stored' \in [Peers -> SUBSET Addresses] /\ Grows
  BY <1>1 DEF TypeOK, Store, Grows
<1>3. CASE \A p \in Peers : Map \in stored'[p] => Map \in stored[p]
  BY <1>2, <1>3, MajorityStays DEF NoDanglingMap
<1>4. CASE \E p \in Peers : Map \in stored'[p] /\ Map \notin stored[p]
  <2>1. Address = Map
    BY <1>4 DEF Store, TypeOK
  <2>2. item = Len(items)
    BY <2>1, ItemsFacts DEF Address, TypeOK
  <2>3. ASSUME NEW a \in Addresses \ {Map} PROVE AtMajority(a)
    <3>1. PICK j \in DOMAIN items : items[j] = a
      BY DEF Addresses
    <3>2. j \in 1..Len(items) /\ j < item
      BY <2>2, <2>3, <3>1, ItemsFacts
    <3> QED
      BY <3>1, <3>2 DEF PrefixStored
  <2> QED
    BY <1>2, <2>3, MajorityStays DEF NoDanglingMap
<1> QED
  BY <1>2, <1>3, <1>4

\* The parts of the state that no counter depends on.
Surroundings ==
  /\ link' \in [Peers -> {"none", "open", "broken"}]
  /\ payments' \in [Addresses -> Nat]
  /\ uploads' \in 0..MaxUploads /\ faults' \in 0..MaxFaults

\* upload gives up: the items before the current one stay stored.
LEMMA FailsIInv ==
  ASSUME IInv, UploadFails, Surroundings,
         UNCHANGED stored \/ (Asking /\ pc = "put" /\ Store)
  PROVE  IInv'
<1> USE DEF IInv, UploadFails
<1>1. TypeOK'
  BY StoreEffect DEF TypeOK, Surroundings
<1>2. PrefixStored'
  BY StoreEffect, MajorityStays DEF PrefixStored, TypeOK
<1>3. GroupChosen' /\ CountsStart' /\ AlreadyCounts' /\ AcceptedCounts'
  BY DEF GroupChosen, CountsStart, AlreadyCounts, AcceptedCounts, Asking, Quoting, Paying
<1> QED
  BY <1>1, <1>2, <1>3, StoreEffect

\* store_one returns Ok, with its chunk a at a majority.
LEMMA ItemStoredIInv ==
  ASSUME IInv, ItemStored, Surroundings,
         UNCHANGED stored \/ (Asking /\ pc = "put" /\ Store),
         NEW CONSTANT a, a = Address, AtMajority(a)'
  PROVE  IInv'
<1> USE DEF IInv
<1>1. \/ item = Len(items) /\ pc' = "done" /\ item' = item
      \/ item # Len(items) /\ pc' = "discover" /\ item' = item + 1
  BY DEF ItemStored
<1>2. group' = <<>> /\ peer' = 1 /\ attempt' = 0 /\ already' = 0 /\ accepted' = 0
  BY DEF ItemStored
<1>3. Len(items) \in Nat /\ item \in 1..Len(items) /\ item' \in 1..Len(items)
  BY <1>1, ItemsFacts DEF TypeOK
<1>4. TypeOK'
  <2>1. stored' \in [Peers -> SUBSET Addresses]
    BY StoreEffect
  <2>2. item' \in DOMAIN items
    BY <1>3, ItemsFacts
  <2>3. /\ peer' \in 1..GroupSize /\ attempt' \in 0..(Attempts - 1)
        /\ already' \in 0..GroupSize /\ accepted' \in 0..GroupSize
    BY <1>2, GroupAssumption
  <2>4. group' \in Seq(Peers) /\ Len(group') = 0
    BY <1>2
  <2> QED
    BY <1>1, <2>1, <2>2, <2>3, <2>4 DEF TypeOK, Surroundings
<1>5. ASSUME NEW j \in 1..item PROVE AtMajority(items[j])'
  <2>1. CASE j = item
    BY <2>1 DEF Address
  <2>2. CASE j # item
    <3>1. j \in 1..Len(items) /\ j < item
      BY <1>3, <2>2
    <3> QED
      BY <3>1, StoreEffect, MajorityStays DEF PrefixStored
  <2> QED
    BY <2>1, <2>2
<1>6. PrefixStored'
  <2>1. ASSUME NEW j \in 1..Len(items), j < item' PROVE j \in 1..item
    BY <1>1, <1>3, <2>1
  <2>2. (\A j \in 1..Len(items) : j < item => AtMajority(items[j]))'
    BY <1>5, <2>1
  <2>3. (pc = "done" => item = Len(items) /\ AtMajority(items[item]))'
    BY <1>1, <1>3, <1>5
  <2> QED
    BY <2>2, <2>3 DEF PrefixStored
<1>7. GroupChosen' /\ CountsStart' /\ AlreadyCounts' /\ AcceptedCounts'
  BY <1>1, <1>2 DEF GroupChosen, CountsStart, AlreadyCounts, AcceptedCounts,
                    Asking, Quoting, Paying
<1> QED
  BY <1>4, <1>6, <1>7, StoreEffect

-----------------------------------------------------------------------------
(* The actions                                                             *)

\* The initial state satisfies the invariant.
LEMMA InitIInv == Init => IInv
<1> SUFFICES ASSUME Init PROVE IInv
  OBVIOUS
<1> USE ItemsFacts, GroupAssumption, UploadBoundsAssumption DEF Init
<1>1. TypeOK
  BY DEF TypeOK, FreshPool
<1>2. PrefixStored /\ GroupChosen /\ CountsStart /\ AlreadyCounts /\ AcceptedCounts
  BY DEF PrefixStored, GroupChosen, CountsStart, AlreadyCounts, AcceptedCounts,
         Asking, Quoting, Paying
<1>3. NoDanglingMap
  BY DEF NoDanglingMap
<1> QED
  BY <1>1, <1>2, <1>3 DEF IInv

\* Steps that leave items, group, counters and nodes alone, and stay in their
\* phase of store_one, keep the invariant.
LEMMA SamePhaseIInv ==
  ASSUME IInv, Surroundings,
         UNCHANGED <<item, group, peer, already, accepted, stored>>,
         attempt' \in 0..(Attempts - 1),
         \/ pc' = pc /\ (attempt' = attempt \/ Quoting \/ pc = "put")
         \/ Quoting /\ pc' \in {"connect", "quote"}
         \/ pc = "approve" /\ pc' = "pay" /\ attempt' = attempt
         \/ pc = "pay" /\ pc' = "put" /\ attempt' = attempt
  PROVE  IInv'
<1> USE DEF IInv
<1>1. TypeOK'
  BY DEF TypeOK, Surroundings, Quoting
<1>2. PrefixStored' /\ GroupChosen' /\ CountsStart' /\ NoDanglingMap'
  BY StoreEffect, MajorityStays DEF PrefixStored, GroupChosen, CountsStart, Asking, Quoting, Paying
<1>3. AlreadyCounts'
  BY DEF AlreadyCounts, Quoting, Paying, HoldersBefore, HonestBefore, HonestHolders, Earlier,
         Holders, Address
<1>4. AcceptedCounts'
  <2>1. CASE pc' = "put" /\ pc = "put"
    BY <2>1 DEF AcceptedCounts, HoldersBefore, Earlier, Holders, Address, Quoting
  <2>2. CASE pc' = "put" /\ pc = "pay"
    <3>1. HoldersBefore' \subseteq Holders(Address)
      BY DEF HoldersBefore, Holders, Address
    <3> QED
      BY <2>2, <3>1, HoldersFinite DEF AcceptedCounts, CountsStart, Paying
  <2> QED
    BY <2>1, <2>2 DEF AcceptedCounts, Quoting
<1> QED
  BY <1>1, <1>2, <1>3, <1>4

\* What Surroundings asks of a step that touches no payment.
LEMMA SurroundingsKept ==
  ASSUME TypeOK, link' \in [Peers -> {"none", "open", "broken"}],
         UNCHANGED <<payments, uploads>>, Fault \/ UNCHANGED faults
  PROVE  Surroundings
BY UploadBoundsAssumption DEF TypeOK, Surroundings, Fault

\* A mined payment is counted.
LEMMA MinedType ==
  ASSUME TypeOK, Mined
  PROVE  payments' \in [Addresses -> Nat]
<1>1. payments \in [Addresses -> Nat]
  BY DEF TypeOK
<1>2. payments' = [a \in Addresses |-> IF a = Address THEN payments[a] + 1 ELSE payments[a]]
  BY <1>1 DEF Mined
<1> QED
  BY <1>1, <1>2

\* upload starts over.
LEMMA UploadIInv ==
  ASSUME IInv, Upload
  PROVE  IInv'
<1> USE DEF IInv, Upload, netVars
<1>1. TypeOK'
  BY ItemsFacts, GroupAssumption, UploadBoundsAssumption DEF TypeOK
<1>2. PrefixStored' /\ GroupChosen' /\ CountsStart' /\ AlreadyCounts' /\ AcceptedCounts'
  BY ItemsFacts DEF PrefixStored, GroupChosen, CountsStart, AlreadyCounts, AcceptedCounts,
         Asking, Quoting, Paying
<1> QED
  BY <1>1, <1>2, StoreEffect

\* Discovery answers: the group is the head of its list.
LEMMA DiscoveredIInv ==
  ASSUME IInv, NEW list \in Lists, Discovered(list)
  PROVE  IInv'
<1> USE DEF IInv
<1>1. pc = "discover" /\ UNCHANGED <<link, stored, payments, uploads, faults>>
  BY DEF Discovered, netVars
<1>2. Surroundings
  BY <1>1, SurroundingsKept DEF TypeOK
<1>3. CASE UploadFails
  BY <1>1, <1>2, <1>3, FailsIInv
<1>4. CASE ~UploadFails
  <2>1. list \in Seq(Peers) /\ Len(list) >= GroupSize /\ Len(list) \in Nat
    BY <1>4, ListsAssumption, GroupAssumption DEF Discovered
  <2>2. /\ group' = SubSeq(list, 1, GroupSize)
        /\ UNCHANGED <<item, peer, attempt, already, accepted>>
        /\ pc' \in {"connect", "quote"}
    BY <1>4 DEF Discovered, QuoteOrConnect
  <2>3. /\ group' \in Seq(Peers) /\ Len(group') = GroupSize
        /\ \A k \in 1..GroupSize : group'[k] = list[k]
    BY <2>1, <2>2, GroupAssumption
  <2>4. peer = 1 /\ attempt = 0 /\ already = 0 /\ accepted = 0
    BY <1>1 DEF CountsStart
  <2>5. TypeOK'
    BY <1>1, <1>2, <2>2, <2>3 DEF TypeOK, Surroundings
  <2>6. PrefixStored' /\ NoDanglingMap'
    BY <1>1, <2>2, StoreEffect, MajorityStays DEF PrefixStored
  <2>7. GroupChosen' /\ CountsStart' /\ AcceptedCounts'
    BY <2>1, <2>2, <2>3, <2>4, ListsAssumption, GroupAssumption
       DEF GroupChosen, CountsStart, AcceptedCounts, Quoting, Paying
  <2>8. AlreadyCounts'
    <3>1. Earlier' = {}
      BY <2>2, <2>3, <2>4 DEF Earlier
    <3>2. HoldersBefore' = {} /\ HonestBefore' = {}
      BY <3>1 DEF HoldersBefore, HonestBefore
    <3>3. Cardinality(HoldersBefore') = 0 /\ Cardinality(HonestBefore') = 0
      BY <3>2, FS_EmptySet
    <3> QED
      BY <2>2, <2>4, <3>3, GroupAssumption DEF AlreadyCounts, Quoting, Paying
  <2> QED
    BY <2>5, <2>6, <2>7, <2>8
<1> QED
  BY <1>3, <1>4

\* The error arm of the quote loop.
LEMMA QuoteErrorIInv ==
  ASSUME IInv, Quoting, UNCHANGED <<stored, payments, uploads>>, Fault \/ UNCHANGED faults,
         NEW l \in [Peers -> {"none", "open", "broken"}], QuoteError(l)
  PROVE  IInv'
<1> USE DEF IInv
<1>1. link' \in [Peers -> {"none", "open", "broken"}]
  BY DEF QuoteError, TypeOK
<1>2. Surroundings
  BY <1>1, SurroundingsKept
<1>3. CASE UploadFails
  BY <1>2, <1>3, FailsIInv
<1>4. CASE ~UploadFails
  <2>1. /\ MoreAttempts(attempt + 1) /\ attempt' = attempt + 1 /\ pc' = "connect"
        /\ UNCHANGED <<item, group, peer, already, accepted>>
    BY <1>4 DEF QuoteError
  <2>2. attempt' \in 0..(Attempts - 1)
    BY <2>1, GroupAssumption DEF TypeOK, MoreAttempts
  <2> QED
    BY <1>2, <2>1, <2>2, SamePhaseIInv
<1> QED
  BY <1>3, <1>4

\* A quote arrives: one peer more is counted, and the loop, or store_one, ends.
LEMMA QuoteOkIInv ==
  ASSUME IInv, NEW flag \in BOOLEAN, QuoteOk(flag)
  PROVE  IInv'
<1> USE DEF IInv
<1>1. /\ Quoting /\ Asking /\ UNCHANGED <<link, stored, payments, uploads, faults>>
      /\ (flag = (Address \in stored[Current])) \/ Current \in Liars
  BY DEF QuoteOk, netVars, Quoting, Asking
<1>2. Surroundings
  BY <1>1, SurroundingsKept DEF TypeOK
<1>3. already \in Nat /\ peer \in 1..GroupSize /\ Len(group) = GroupSize /\ GroupSize \in Nat
  BY <1>1, GroupAssumption DEF TypeOK, GroupChosen
<1> DEFINE n == IF flag THEN already + 1 ELSE already
           Counted == HonestHolders(Address) \cap (Earlier \cup {peer})
<1>4. /\ n <= Cardinality(HoldersSoFar(Address)) /\ Cardinality(Counted) <= n
      /\ Cardinality(HoldersSoFar(Address)) <= Cardinality(Holders(Address))
  BY <1>1, QuoteCounts
<1>5. Cardinality(HoldersSoFar(Address)) \in Nat /\ Cardinality(Holders(Address)) \in Nat
  BY HoldersFinite DEF HoldersSoFar
<1>6. CASE flag /\ EnoughStored(already + 1)
  <2>1. ItemStored
    BY <1>6 DEF QuoteOk
  <2>2. AtMajority(Address)
    BY <1>3, <1>4, <1>5, <1>6, GroupAssumption DEF AtMajority, EnoughStored
  <2>3. PICK a : a = Address
    OBVIOUS
  <2>4. AtMajority(a)'
    BY <1>1, <2>2, <2>3 DEF AtMajority, Holders
  <2> QED
    BY <1>1, <1>2, <2>1, <2>3, <2>4, ItemStoredIInv
<1>7. CASE ~(flag /\ EnoughStored(already + 1))
  <2>1. /\ already' = n /\ attempt' = 0 /\ UNCHANGED <<item, group, accepted>>
        /\ \/ peer = GroupSize /\ pc' = "approve" /\ peer' = 1
           \/ peer # GroupSize /\ pc' \in {"connect", "quote"} /\ peer' = peer + 1
    BY <1>7 DEF QuoteOk, QuoteOrConnect
  <2>2. n \in Nat /\ n < Majority
    BY <1>1, <1>3, <1>7, GroupAssumption DEF EnoughStored, AlreadyCounts
  <2>3. TypeOK'
    BY <1>1, <1>2, <1>3, <2>1, <2>2, GroupAssumption DEF TypeOK, Surroundings
  <2>4. PrefixStored' /\ NoDanglingMap'
    BY <1>1, <2>1, StoreEffect, MajorityStays DEF PrefixStored
  <2>5. GroupChosen' /\ CountsStart' /\ AcceptedCounts'
    BY <1>1, <2>1 DEF GroupChosen, CountsStart, AcceptedCounts, Quoting, Paying, Asking
  <2>6. AlreadyCounts'
    <3>1. CASE peer = GroupSize
      <4>1. HonestHolders(Address)' = Counted
        BY <1>1, <1>3, <2>1, <3>1 DEF HonestHolders, Earlier, Address
      <4>2. Cardinality(Counted) < Majority
        <5>1. IsFiniteSet(1..Len(group)) /\ Counted \subseteq 1..Len(group)
          BY <1>3, FS_Interval DEF HonestHolders
        <5>2. Cardinality(Counted) \in Nat
          BY <5>1, FS_Subset, FS_CardinalityType
        <5> QED
          BY <1>4, <2>2, <5>2, GroupAssumption
      <4> QED
        BY <2>1, <3>1, <4>1, <4>2 DEF AlreadyCounts, Quoting, Paying
    <3>2. CASE peer # GroupSize
      <4>1. Earlier' = Earlier \cup {peer}
        BY <1>3, <2>1, <3>2 DEF Earlier
      <4>2. HoldersBefore' = HoldersSoFar(Address) /\ HonestBefore' = Counted
        BY <1>1, <2>1, <4>1
           DEF HoldersBefore, HoldersSoFar, HonestBefore, HonestHolders, Holders, Address
      <4> QED
        BY <1>4, <2>1, <2>2, <3>2, <4>2 DEF AlreadyCounts, Quoting, Paying
    <3> QED
      BY <3>1, <3>2
  <2> QED
    BY <2>3, <2>4, <2>5, <2>6
<1> QED
  BY <1>6, <1>7

\* A peer of the PUT loop is done with: the next one, or the verdict, with n
\* of the group known to have the chunk.
LEMMA NextPutIInv ==
  ASSUME IInv, pc = "put", Surroundings, UNCHANGED stored \/ Store,
         NEW CONSTANT a, a = Address,
         NEW CONSTANT n \in Nat, n <= peer,
         NEW CONSTANT H, H = {group[i] : i \in Earlier \cup {peer}} \cap Holders(a)',
         n <= Cardinality(H),
         NextPut(n)
  PROVE  IInv'
<1> USE DEF IInv
<1>1. Asking /\ Len(group) = GroupSize /\ peer \in 1..GroupSize /\ GroupSize \in Nat
  BY GroupAssumption DEF Asking, GroupChosen, TypeOK
<1>2. Holders(a)' \subseteq Peers
  BY GroupAssumption DEF Holders
<1>3. IsFiniteSet(Holders(a)') /\ Cardinality(Holders(a)') \in Nat
  BY <1>2, GroupAssumption, FS_Subset, FS_CardinalityType
<1>4. IsFiniteSet(H) /\ Cardinality(H) \in Nat /\ Cardinality(H) <= Cardinality(Holders(a)')
  BY <1>3, FS_Subset, FS_CardinalityType
<1>5. CASE peer < GroupSize
  <2>1. /\ peer' = peer + 1 /\ attempt' = 0 /\ accepted' = n
        /\ UNCHANGED <<pc, item, group, already>>
    BY <1>5 DEF NextPut
  <2>2. TypeOK'
    BY <1>1, <1>5, <2>1, StoreEffect, GroupAssumption DEF TypeOK, Surroundings
  <2>3. PrefixStored' /\ NoDanglingMap'
    BY <1>1, <2>1, StoreEffect, MajorityStays DEF PrefixStored
  <2>4. GroupChosen' /\ CountsStart' /\ AlreadyCounts'
    BY <2>1 DEF GroupChosen, CountsStart, AlreadyCounts, Quoting, Paying, Asking
  <2>5. AcceptedCounts'
    <3>1. Earlier' = Earlier \cup {peer}
      BY <1>1, <1>5, <2>1 DEF Earlier
    <3>2. HoldersBefore' = H
      BY <2>1, <3>1 DEF HoldersBefore, Holders, Address
    <3> QED
      BY <1>1, <2>1, <3>2 DEF AcceptedCounts
  <2> QED
    BY <2>2, <2>3, <2>4, <2>5
<1>6. CASE ~(peer < GroupSize) /\ AcceptedEnough(n)
  <2>1. ItemStored
    BY <1>6 DEF NextPut
  <2>2. AtMajority(a)'
    BY <1>3, <1>4, <1>6, GroupAssumption DEF AtMajority, AcceptedEnough
  <2> QED
    BY <1>1, <2>1, <2>2, ItemStoredIInv
<1>7. CASE ~(peer < GroupSize) /\ ~AcceptedEnough(n)
  BY <1>1, <1>7, FailsIInv DEF NextPut
<1> QED
  BY <1>5, <1>6, <1>7

\* The error arm of the PUT loop counts nobody.
LEMMA PutErrorIInv ==
  ASSUME IInv, pc = "put", Surroundings, UNCHANGED stored \/ Store, PutError
  PROVE  IInv'
<1> USE DEF IInv
<1>1. PICK a : a = Address
  OBVIOUS
<1>2. PICK H : H = {group[i] : i \in Earlier \cup {peer}} \cap Holders(a)'
  OBVIOUS
<1>3. Asking
  BY DEF Asking
<1>4. HoldersBefore \subseteq H
  BY <1>1, <1>2, <1>3, StoreEffect DEF HoldersBefore, Holders, Grows
<1>5. H \subseteq Peers
  BY <1>2, GroupAssumption DEF Holders
<1>6. IsFiniteSet(H) /\ Cardinality(H) \in Nat
  BY <1>5, GroupAssumption, FS_Subset, FS_CardinalityType
<1>7. /\ accepted \in Nat /\ accepted < peer /\ peer \in Nat
      /\ accepted <= Cardinality(HoldersBefore)
  BY GroupAssumption DEF TypeOK, AcceptedCounts
<1>8. accepted <= Cardinality(H)
  <2>1. Cardinality(HoldersBefore) <= Cardinality(H)
    BY <1>4, <1>6, FS_Subset
  <2> QED
    BY <1>3, <1>6, <1>7, <2>1, OneMoreHolder
<1>9. CASE NextPut(accepted)
  <2>1. PICK n : n = accepted
    OBVIOUS
  <2> QED
    BY <1>1, <1>2, <1>7, <1>8, <1>9, <2>1, NextPutIInv
<1>10. CASE ~NextPut(accepted)
  <2>1. /\ MoreAttempts(attempt + 1) /\ attempt' = attempt + 1
        /\ UNCHANGED <<pc, item, group, peer, already, accepted>>
    BY <1>10 DEF PutError
  <2>2. attempt' \in 0..(Attempts - 1)
    BY <2>1, GroupAssumption DEF TypeOK, MoreAttempts
  <2>3. CASE UNCHANGED stored
    BY <2>1, <2>2, <2>3, SamePhaseIInv
  <2>4. CASE Store
    <3>1. TypeOK'
      BY <1>3, <2>1, <2>2, <2>4, StoreEffect DEF TypeOK, Surroundings
    <3>2. PrefixStored' /\ NoDanglingMap'
      BY <1>3, <2>1, <2>4, StoreEffect, MajorityStays DEF PrefixStored
    <3>3. GroupChosen' /\ CountsStart' /\ AlreadyCounts'
      BY <2>1 DEF GroupChosen, CountsStart, AlreadyCounts, Quoting, Paying, Asking
    <3>4. AcceptedCounts'
      <4>1. HoldersBefore' = {group[i] : i \in Earlier} \cap Holders(a)'
        BY <1>1, <2>1 DEF HoldersBefore, Holders, Address, Earlier
      <4>2. HoldersBefore \subseteq HoldersBefore' /\ HoldersBefore' \subseteq H
        BY <1>1, <1>2, <1>3, <2>4, <4>1, StoreEffect DEF HoldersBefore, Holders, Grows
      <4>3. /\ Cardinality(HoldersBefore) <= Cardinality(HoldersBefore')
            /\ Cardinality(HoldersBefore') \in Nat
        BY <1>6, <4>2, FS_Subset, FS_CardinalityType
      <4> QED
        BY <1>3, <1>7, <2>1, <4>3, OneMoreHolder DEF AcceptedCounts
    <3> QED
      BY <3>1, <3>2, <3>3, <3>4
  <2> QED
    BY <2>3, <2>4
<1> QED
  BY <1>9, <1>10

\* A node says that it has the chunk: one peer more is counted.
LEMMA PutOkIInv ==
  ASSUME IInv, NEW response \in PutResponse, PutOk(response)
  PROVE  IInv'
<1> USE DEF IInv
<1>1. /\ pc = "put" /\ Asking /\ UNCHANGED <<link, payments, uploads, faults>>
      /\ UNCHANGED stored \/ Store
      /\ NextPut(accepted + 1)
  BY DEF PutOk, Asking
<1>2. Surroundings
  BY <1>1, SurroundingsKept DEF TypeOK
<1>3. PICK a : a = Address
  OBVIOUS
<1>4. PICK H : H = {group[i] : i \in Earlier \cup {peer}} \cap Holders(a)'
  OBVIOUS
<1>5. Current \in Peers
  BY <1>1 DEF TypeOK, GroupChosen, Current
<1>6. Current \in Holders(a)'
  BY <1>3, <1>5 DEF PutOk, Store, Holders, TypeOK
<1>7. HoldersBefore \cup {Current} \subseteq H
  BY <1>1, <1>3, <1>4, <1>6, StoreEffect DEF HoldersBefore, Holders, Grows, Current
<1>8. H \subseteq Peers
  BY <1>4, GroupAssumption DEF Holders
<1>9. IsFiniteSet(H) /\ Cardinality(H) \in Nat
  BY <1>8, GroupAssumption, FS_Subset, FS_CardinalityType
<1>10. Cardinality(HoldersBefore \cup {Current}) <= Cardinality(H)
  BY <1>7, <1>9, FS_Subset
<1>11. PICK n : n = accepted + 1
  OBVIOUS
<1>12. n \in Nat /\ n <= peer /\ n <= Cardinality(H)
  BY <1>1, <1>9, <1>10, <1>11, OneMoreHolder DEF TypeOK, AcceptedCounts
<1> QED
  BY <1>1, <1>2, <1>3, <1>4, <1>11, <1>12, NextPutIInv

\* Every step of the upload, of the wallet and of the nodes keeps the invariant.
LEMMA NextIInv == IInv /\ [Next]_vars => IInv'
<1> SUFFICES ASSUME IInv, [Next]_vars PROVE IInv'
  OBVIOUS
<1>1. CASE Upload
  BY <1>1, UploadIInv
<1>2. ASSUME NEW list \in Lists, Discovered(list) PROVE IInv'
  BY <1>2, DiscoveredIInv
<1>3. CASE DiscoveryFails \/ ApproveFails \/ Reload
  <2>1. UploadFails /\ UNCHANGED <<stored, payments, uploads>> /\ Fault
    BY <1>3 DEF DiscoveryFails, ApproveFails, Reload, netVars
  <2>2. link' \in [Peers -> {"none", "open", "broken"}]
    BY <1>3 DEF DiscoveryFails, ApproveFails, Reload, FreshPool, IInv, TypeOK
  <2> QED
    BY <2>1, <2>2, SurroundingsKept, FailsIInv DEF IInv
<1>4. CASE ConnectOk
  <2>1. /\ Quoting /\ pc' = "quote"
        /\ UNCHANGED <<item, group, peer, attempt, already, accepted, stored,
                       payments, uploads, faults>>
    BY <1>4 DEF ConnectOk, Quoting, netVars
  <2>2. link' \in [Peers -> {"none", "open", "broken"}]
    BY <1>4 DEF ConnectOk, IInv, TypeOK
  <2>3. attempt' \in 0..(Attempts - 1)
    BY <2>1 DEF IInv, TypeOK
  <2> QED
    BY <2>1, <2>2, <2>3, SurroundingsKept, SamePhaseIInv DEF IInv
<1>5. CASE ConnectFails \/ QuoteOnBroken
  <2>1. Quoting /\ QuoteError(link) /\ UNCHANGED <<stored, payments, uploads>>
    BY <1>5 DEF ConnectFails, QuoteOnBroken, Quoting, netVars
  <2>2. Fault \/ UNCHANGED faults
    BY <1>5 DEF ConnectFails, QuoteOnBroken
  <2>3. PICK l : l = link
    OBVIOUS
  <2>4. l \in [Peers -> {"none", "open", "broken"}]
    BY <2>3 DEF IInv, TypeOK
  <2> QED
    BY <2>1, <2>2, <2>3, <2>4, QuoteErrorIInv
<1>6. ASSUME NEW flag \in BOOLEAN, QuoteOk(flag) PROVE IInv'
  BY <1>6, QuoteOkIInv
<1>7. CASE QuoteFails
  <2>1. Quoting /\ Fault /\ UNCHANGED <<stored, payments, uploads>>
    BY <1>7 DEF QuoteFails, Quoting, netVars
  <2>2. PICK l \in {link, [link EXCEPT ![Current] = "broken"]} : QuoteError(l)
    BY <1>7 DEF QuoteFails
  <2>3. l \in [Peers -> {"none", "open", "broken"}]
    BY <2>2 DEF IInv, TypeOK
  <2> QED
    BY <2>1, <2>2, <2>3, QuoteErrorIInv
<1>8. CASE Approved
  <2>1. /\ pc = "approve" /\ pc' = "pay"
        /\ UNCHANGED <<item, group, peer, attempt, already, accepted, link, stored,
                       payments, uploads, faults>>
    BY <1>8 DEF Approved, netVars
  <2>2. Surroundings /\ attempt' \in 0..(Attempts - 1)
    BY <2>1, SurroundingsKept DEF IInv, TypeOK
  <2> QED
    BY <2>1, <2>2, SamePhaseIInv
<1>9. CASE Paid
  <2>1. /\ pc = "pay" /\ pc' = "put" /\ Mined
        /\ UNCHANGED <<item, group, peer, attempt, already, accepted, link, stored,
                       uploads, faults>>
    BY <1>9 DEF Paid
  <2>2. Surroundings /\ attempt' \in 0..(Attempts - 1)
    <3>1. payments' \in [Addresses -> Nat]
      BY <1>9, MinedType DEF Paid, IInv
    <3> QED
      BY <2>1, <3>1 DEF IInv, TypeOK, Surroundings
  <2> QED
    BY <2>1, <2>2, SamePhaseIInv
<1>10. CASE PayFails
  <2>1. UploadFails /\ Fault /\ UNCHANGED <<link, stored, uploads>>
    BY <1>10 DEF PayFails
  <2>2. payments' \in [Addresses -> Nat]
    BY <1>10, MinedType DEF PayFails, IInv, TypeOK
  <2>3. Surroundings
    BY <2>1, <2>2, UploadBoundsAssumption DEF Surroundings, IInv, TypeOK, Fault
  <2> QED
    BY <2>1, <2>3, FailsIInv
<1>11. ASSUME NEW response \in PutResponse, PutOk(response) PROVE IInv'
  BY <1>11, PutOkIInv
<1>12. ASSUME NEW response \in PutResponse, PutRejected(response) PROVE IInv'
  <2>1. /\ pc = "put" /\ PutError /\ Fault
        /\ UNCHANGED <<link, stored, payments, uploads>>
    BY <1>12 DEF PutRejected, netVars
  <2> QED
    BY <2>1, SurroundingsKept, PutErrorIInv DEF IInv, TypeOK
<1>13. CASE PutLost
  <2>1. /\ pc = "put" /\ PutError /\ Fault
        /\ UNCHANGED stored \/ Store
        /\ UNCHANGED <<payments, uploads>>
    BY <1>13 DEF PutLost
  <2>2. link' \in [Peers -> {"none", "open", "broken"}]
    BY <1>13 DEF PutLost, IInv, TypeOK
  <2> QED
    BY <2>1, <2>2, SurroundingsKept, PutErrorIInv DEF IInv
<1>14. CASE PutOnBroken
  <2>1. /\ pc = "put" /\ PutError
        /\ UNCHANGED <<link, stored, payments, uploads, faults>>
    BY <1>14 DEF PutOnBroken, netVars
  <2> QED
    BY <2>1, SurroundingsKept, PutErrorIInv DEF IInv, TypeOK
<1>15. ASSUME NEW p \in Peers, Break(p) PROVE IInv'
  <2>1. /\ UNCHANGED <<pc, item, group, peer, attempt, already, accepted, stored,
                       payments, uploads>>
        /\ Fault
    BY <1>15 DEF Break, netVars
  <2>2. link' \in [Peers -> {"none", "open", "broken"}]
    BY <1>15 DEF Break, IInv, TypeOK
  <2>3. attempt' \in 0..(Attempts - 1)
    BY <2>1 DEF IInv, TypeOK
  <2> QED
    BY <2>1, <2>2, <2>3, SurroundingsKept, SamePhaseIInv DEF IInv
<1>16. CASE UNCHANGED vars
  <2>1. UNCHANGED <<pc, item, group, peer, attempt, already, accepted, link, stored,
                    payments, uploads, faults>>
    BY <1>16 DEF vars
  <2>2. Surroundings /\ attempt' \in 0..(Attempts - 1)
    BY <2>1, SurroundingsKept DEF IInv, TypeOK
  <2> QED
    BY <2>1, <2>2, SamePhaseIInv
<1> QED
  BY <1>1, <1>2, <1>3, <1>4, <1>5, <1>6, <1>7, <1>8, <1>9, <1>10, <1>11, <1>12, <1>13,
     <1>14, <1>15, <1>16 DEF Next, ClientStep, Quiet

-----------------------------------------------------------------------------
(* The theorems                                                            *)

\* The inductive invariant holds in every reachable state.
THEOREM Invariance == Spec => []IInv
BY InitIInv, NextIInv, PTL DEF Spec

\* The state of upload and store_one (src/lib.rs) is always well formed: the
\* indices of item and peer stay in their lists, the attempts below
\* QUOTE_ATTEMPTS and the two tallies within the group.
THEOREM TypeCorrect == Spec => []TypeOK
<1>1. IInv => TypeOK
  BY DEF IInv
<1> QED
  BY <1>1, Invariance, PTL

\* When upload returns the file's address, a majority of a close group holds
\* every chunk of it (upload and store_one, src/lib.rs).
THEOREM OkTheorem == Spec => []OkMeansStored
<1>1. IInv => OkMeansStored
  <2> SUFFICES ASSUME IInv, pc = "done", NEW a \in Addresses PROVE AtMajority(a)
    BY DEF OkMeansStored
  <2>1. PICK j \in 1..Len(items) : items[j] = a
    BY ItemsFacts DEF Addresses
  <2> QED
    <3>1. item = Len(items) /\ AtMajority(items[item]) /\ Len(items) \in Nat
      BY ItemsFacts DEF IInv, PrefixStored
    <3>2. j < item \/ j = item
      BY <3>1
    <3> QED
      BY <2>1, <3>1, <3>2 DEF IInv, PrefixStored
<1> QED
  BY <1>1, Invariance, PTL

\* No node holds the data map before a majority holds each chunk it leads to,
\* wherever an upload stopped (the store order of upload, src/lib.rs).
THEOREM MapTheorem == Spec => []NoDanglingMap
<1>1. IInv => NoDanglingMap
  BY DEF IInv
<1> QED
  BY <1>1, Invariance, PTL

\* store_one pays only while fewer than a majority of the quoted honest peers
\* hold the chunk.
THEOREM PayTheorem == Spec => NeverPayForStored
<1>1. IInv /\ [Next]_vars => [payments' # payments =>
                               Cardinality(HonestHolders(Address)) < Majority]_vars
  <2> SUFFICES ASSUME IInv, [Next]_vars, payments' # payments
               PROVE  Cardinality(HonestHolders(Address)) < Majority
    OBVIOUS
  <2>1. pc = "pay"
    BY DEF Next, ClientStep, Quiet, vars, netVars, Upload, Discovered, DiscoveryFails, ConnectOk,
           ConnectFails, QuoteOk, QuoteFails, QuoteOnBroken, Approved, ApproveFails, Paid,
           PayFails, PutOk, PutRejected, PutLost, PutOnBroken, Break, Reload
  <2> QED
    BY <2>1 DEF IInv, AlreadyCounts, Paying
<1> QED
  BY <1>1, Invariance, PTL DEF Spec, NeverPayForStored
=============================================================================
