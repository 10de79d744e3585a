------------------------- MODULE SharedCacheProofs -------------------------
(***************************************************************************)
(* Proofs about SharedCache, for every set of keys and payloads, every     *)
(* number of slots and every size of file.                                 *)
(***************************************************************************)
EXTENDS SharedCache, TLAPS, FiniteSetTheorems, WellFoundedInduction

End(s) == entries[s].offset + entries[s].length

Apart(s, t) == End(s) <= entries[t].offset \/ End(t) <= entries[s].offset

(* s is the slot of the Put in progress, filled but not yet below next_offset *)
Filling(s) == call.pc \in {"copy", "advance"} /\ s = call.slot

(* What the steps of a Put know from the steps before them *)
CallInv ==
  /\ call.pc = "idle" => call = Idle
  /\ call.pc # "idle" => initialized /\ call.key \in Keys /\ call.value \in Values
  /\ call.pc \in {"find", "fill", "copy", "advance"} =>
       next_offset + Len(call.value) <= FileSize
  /\ call.pc = "fill" =>
       /\ call.slot \in Slots
       /\ IF entries[call.slot].is_used THEN entries[call.slot].key = call.key
                                        ELSE Holding(call.key) = {}
  /\ call.pc \in {"copy", "advance"} =>
       /\ call.slot \in Slots
       /\ entries[call.slot] = [key |-> call.key, length |-> Len(call.value),
                                offset |-> next_offset, is_used |-> TRUE,
                                checksum |-> CalculateChecksum(call.value)]

(* A file without the magic number is all zeros *)
StampInv ==
  /\ initialized => stamped
  /\ stamped => next_offset \in DataStart .. FileSize
  /\ ~stamped => Used = {} /\ written = [k \in Keys |-> Nothing]

(* entry_count runs ahead of the table only between the claim of a free slot
   and the writing of its fields *)
CountInv ==
  entry_count = Cardinality(Used) +
    (IF call.pc = "fill" /\ call.slot \notin Used THEN 1 ELSE 0)

(* Each used slot has a region of the file, below next_offset and apart from
   the others except while a compaction is moving them *)
LayoutInv ==
  /\ \A s \in Used : /\ entries[s].length >= 1
                     /\ DataStart <= entries[s].offset
                     /\ End(s) <= FileSize
  /\ call.pc # "compact" =>
       /\ \A s \in Used : ~Filling(s) => End(s) <= next_offset
       /\ \A s, t \in Used : s # t => Apart(s, t)

(* The slots before i have been packed below write_offset; the space they
   took and the space of those to come is what was in use at the start *)
CompactInv ==
  call.pc = "compact" =>
    /\ DataStart <= call.write_offset
    /\ call.write_offset + Cardinality(LiveBytesFrom(call.i)) = DataStart + LiveBytes
    /\ DataStart + LiveBytes <= next_offset
    /\ \A s \in Used : s < call.i => End(s) <= call.write_offset
    /\ \A s, t \in Used : s < call.i /\ t < call.i /\ s # t => Apart(s, t)
    /\ \/ call.write_offset = DataStart
       \/ \E s \in Used : s < call.i /\ End(s) = call.write_offset

(* The table describes what the last successful Puts stored *)
ContentInv ==
  /\ \A s \in Used :
       /\ entries[s].key \in Keys
       /\ ~Filling(s) =>
            /\ written[entries[s].key] # Nothing
            /\ entries[s].length = Len(written[entries[s].key])
            /\ entries[s].checksum = CalculateChecksum(written[entries[s].key])
  /\ \A k \in Keys : written[k] # Nothing => \E s \in Used : entries[s].key = k

IInv ==
  /\ TypeOK
  /\ CallInv /\ StampInv /\ CountInv /\ UniqueKeys
  /\ LayoutInv /\ CompactInv /\ ContentInv
-----------------------------------------------------------------------------
(* Lemmas about the slot table *)

(* A set of naturals that is not empty holds its minimum. *)
LEMMA MinIsElement ==
  ASSUME NEW S, S \subseteq Nat, S # {}
  PROVE  Min(S) \in S
<1> DEFINE less == {p \in Nat \X Nat : p[1] < p[2]}
<1>1. less = OpToRel(<, Nat)
  BY Zenon DEF OpToRel
<1>2. IsWellFoundedOn(less, Nat)
  BY <1>1, NatLessThanWellFounded, Zenon
<1>3. PICK x \in S : \A y \in S : <<y, x>> \notin less
  BY <1>2, WFMin
<1>4. ASSUME NEW y \in S PROVE x <= y
  <2>1. /\ x \in Nat /\ y \in Nat
        /\ <<y, x>> \notin less
    BY <1>3
  <2>2. ~ (y < x)
    BY <2>1, Zenon
  <2> QED  BY <2>1, <2>2
<1> QED  BY <1>4 DEF Min

(* FindEntry returns a used slot that holds the key, or -1 if there is none. *)
LEMMA FindEntryFinds ==
  ASSUME NEW k
  PROVE  \/ FindEntry(k) = NoSlot /\ Holding(k) = {}
         \/ /\ FindEntry(k) # NoSlot
            /\ FindEntry(k) \in Slots
            /\ entries[FindEntry(k)].is_used
            /\ entries[FindEntry(k)].key = k
<1>1. Holding(k) \subseteq Nat
  BY SizesAssumption DEF Holding, Used, Slots
<1>2. CASE Holding(k) = {}
  BY <1>2 DEF FindEntry
<1>3. CASE Holding(k) # {}
  <2>1. FindEntry(k) \in Holding(k)
    BY <1>1, <1>3, MinIsElement DEF FindEntry
  <2> QED  BY <2>1, SizesAssumption DEF Holding, Used, Slots, NoSlot
<1> QED  BY <1>2, <1>3

(* FindFreeEntry returns an unused slot, or -1 if there is none. *)
LEMMA FindFreeEntryFinds ==
  ASSUME FindFreeEntry # NoSlot
  PROVE  FindFreeEntry \in Slots /\ FindFreeEntry \notin Used
<1>1. Free \subseteq Nat
  BY SizesAssumption DEF Free, Slots
<1>2. FindFreeEntry \in Free
  BY <1>1, MinIsElement DEF FindFreeEntry
<1> QED  BY <1>2 DEF Free

(* The used slots are finitely many. *)
LEMMA UsedIsFinite == IsFiniteSet(Used)
<1>1. IsFiniteSet(Slots)
  BY SizesAssumption, FS_Interval DEF Slots
<1> QED  BY <1>1, FS_Subset DEF Used

(* The space a row of the table holds has as many elements as bytes. *)
LEMMA RowCardinality ==
  ASSUME NEW s, NEW n \in Nat
  PROVE  /\ IsFiniteSet({s} \X (1 .. n))
         /\ Cardinality({s} \X (1 .. n)) = n
<1> DEFINE f == [m \in 1 .. n |-> <<s, m>>]
<1>1. f \in Bijection(1 .. n, {s} \X (1 .. n))
  <2>1. f \in [1 .. n -> {s} \X (1 .. n)]
    OBVIOUS
  <2>2. \A a, b \in 1 .. n : f[a] = f[b] => a = b
    OBVIOUS
  <2>3. \A p \in {s} \X (1 .. n) : \E m \in 1 .. n : f[m] = p
    OBVIOUS
  <2> QED  BY <2>1, <2>2, <2>3 DEF Bijection, Injection, Surjection, IsInjective
<1>2. IsFiniteSet(1 .. n) /\ Cardinality(1 .. n) = n
  BY FS_Interval
<1> QED  BY <1>1, <1>2, FS_Bijection DEF ExistsBijection

(* The space in use from a slot on is finite, and none past the last slot. *)
LEMMA LiveBytesFinite ==
  ASSUME NEW i \in Nat
  PROVE  /\ IsFiniteSet(LiveBytesFrom(i))
         /\ Cardinality(LiveBytesFrom(i)) \in Nat
         /\ i >= MaxEntries => Cardinality(LiveBytesFrom(i)) = 0
<1>1. IsFiniteSet((i .. MaxEntries - 1) \X (1 .. FileSize))
  <2>1. IsFiniteSet(i .. MaxEntries - 1) /\ IsFiniteSet(1 .. FileSize)
    BY SizesAssumption, FS_Interval
  <2> QED  BY <2>1, FS_Product
<1>2. IsFiniteSet(LiveBytesFrom(i))
  BY <1>1, FS_Subset DEF LiveBytesFrom
<1>3. Cardinality(LiveBytesFrom(i)) \in Nat
  BY <1>2, FS_CardinalityType
<1>4. ASSUME i >= MaxEntries PROVE LiveBytesFrom(i) = {}
  BY <1>4, SizesAssumption DEF LiveBytesFrom
<1> QED  BY <1>2, <1>3, <1>4, FS_EmptySet

(* A used slot adds its length to the space in use from the next slot on, an
   unused one nothing. *)
LEMMA LiveBytesStep ==
  ASSUME entries \in [Slots -> EntryHeaders], NEW i \in Slots,
         entries[i].is_used => entries[i].length <= FileSize
  PROVE  Cardinality(LiveBytesFrom(i)) = Cardinality(LiveBytesFrom(i + 1)) +
           (IF entries[i].is_used THEN entries[i].length ELSE 0)
<1> DEFINE n == IF entries[i].is_used THEN entries[i].length ELSE 0
           row == {i} \X (1 .. n)
<1>1. /\ n \in Nat /\ n <= FileSize
      /\ i \in Nat /\ i + 1 \in Nat /\ i <= MaxEntries - 1
  BY SizesAssumption DEF EntryHeaders, Slots
<1>2. IsFiniteSet(row) /\ Cardinality(row) = n
  BY <1>1, RowCardinality
<1>3. LiveBytesFrom(i) = LiveBytesFrom(i + 1) \cup row
  <2>1. ASSUME NEW p PROVE p \in LiveBytesFrom(i) <=> p \in LiveBytesFrom(i + 1) \cup row
    BY <1>1, SizesAssumption DEF LiveBytesFrom, EntryHeaders, Slots
  <2> QED  BY <2>1
<1>4. LiveBytesFrom(i + 1) \cap row = {}
  BY <1>1, SizesAssumption DEF LiveBytesFrom
<1>5. /\ IsFiniteSet(LiveBytesFrom(i + 1))
      /\ Cardinality(LiveBytesFrom(i + 1)) \in Nat
  BY <1>1, LiveBytesFinite
<1> HIDE DEF n, row
<1>6. Cardinality(LiveBytesFrom(i + 1) \cup row)
        = Cardinality(LiveBytesFrom(i + 1)) + Cardinality(row)
          - Cardinality(LiveBytesFrom(i + 1) \cap row)
  BY <1>2, <1>5, FS_Union
<1>7. Cardinality(LiveBytesFrom(i + 1) \cap row) = 0
  BY <1>4, FS_EmptySet
<1>8. Cardinality(LiveBytesFrom(i)) = Cardinality(LiveBytesFrom(i + 1)) + n
  BY <1>1, <1>2, <1>3, <1>5, <1>6, <1>7
<1> QED  BY <1>8 DEF n

(* Regions that are apart and below next_offset take no more than the space
   below next_offset. *)
LEMMA ApartRegionsFit ==
  ASSUME TypeOK,
         DataStart <= next_offset,
         \A s \in Used : DataStart <= entries[s].offset /\ End(s) <= next_offset,
         \A s, t \in Used : s # t => Apart(s, t)
  PROVE  DataStart + LiveBytes <= next_offset
<1> DEFINE L == LiveBytesFrom(0)
           T == DataStart .. next_offset - 1
           f == [p \in L |-> entries[p[1]].offset + p[2] - 1]
<1>1. \A p \in L : /\ p[1] \in Used /\ p[2] \in Nat \ {0}
                   /\ p[2] <= entries[p[1]].length
                   /\ p = <<p[1], p[2]>>
  BY SizesAssumption DEF LiveBytesFrom, Used, Slots
<1>2. \A s \in Used : entries[s].offset \in Nat /\ entries[s].length \in Nat
  BY DEF TypeOK, EntryHeaders, Used
<1>3. f \in [L -> T]
  <2>1. ASSUME NEW p \in L PROVE entries[p[1]].offset + p[2] - 1 \in T
    <3> DEFINE o == entries[p[1]].offset
               l == entries[p[1]].length
               n == p[2]
    <3>1. /\ DataStart <= o /\ o + l <= next_offset
          /\ o \in Nat /\ l \in Nat
          /\ n \in Nat \ {0} /\ n <= l
      BY <1>1, <1>2 DEF End
    <3>2. DataStart \in Nat /\ next_offset \in Nat
      BY SizesAssumption DEF TypeOK
    <3> HIDE DEF o, l, n
    <3>3. o + n - 1 \in T
      BY <3>1, <3>2
    <3> QED  BY <3>3 DEF o, n
  <2> QED  BY <2>1
<1>4. ASSUME NEW p \in L, NEW q \in L, f[p] = f[q] PROVE p = q
  <2>1. p[1] = q[1]
    BY <1>1, <1>2, <1>4 DEF Apart, End
  <2>2. p[2] = q[2]
    BY <1>1, <1>2, <1>4, <2>1
  <2> QED  BY <1>1, <2>1, <2>2
<1>5. f \in Injection(L, T)
  BY <1>3, <1>4 DEF Injection, IsInjective
<1>6. IsFiniteSet(T) /\ Cardinality(T) = next_offset - DataStart
  <2>1. DataStart \in Int /\ next_offset \in Int
    BY SizesAssumption DEF TypeOK
  <2> QED  BY <2>1, FS_Interval
<1>7. Cardinality(L) <= Cardinality(T)
  BY <1>5, <1>6, FS_Injection
<1>8. Cardinality(L) \in Nat
  BY LiveBytesFinite
<1> QED  BY <1>6, <1>7, <1>8, SizesAssumption DEF LiveBytes, TypeOK
-----------------------------------------------------------------------------
(* IInv holds initially and is preserved by every action. *)

(* An empty table has no used slot and nothing to count. *)
LEMMA EmptyTable ==
  ASSUME NEW t, t = [s \in Slots |-> EmptyEntry]
  PROVE  /\ {s \in Slots : t[s].is_used} = {}
         /\ t \in [Slots -> EntryHeaders]
BY DEF EmptyEntry, EntryHeaders, Checksums

(* The locals of a process that is in no Put. *)
LEMMA IdleType == Idle.pc = "idle" /\ Idle \in Calls
BY SizesAssumption DEF Idle, Calls

(* The initial file satisfies the invariant. *)
LEMMA InitInvariant ==
  ASSUME Init
  PROVE  IInv
<1>1. Used = {}
  BY EmptyTable DEF Init, Used
<1>2. call.pc = "idle"
  BY IdleType DEF Init
<1>3. TypeOK
  BY BytesAssumption, EmptyTable, IdleType DEF Init, TypeOK
<1>4. CountInv
  BY <1>1, <1>2, FS_EmptySet DEF Init, CountInv
<1>5. CallInv /\ StampInv /\ CompactInv
  BY <1>1, <1>2 DEF Init, CallInv, StampInv, CompactInv
<1>6. UniqueKeys /\ LayoutInv /\ ContentInv
  BY <1>1, <1>2 DEF Init, UniqueKeys, LayoutInv, ContentInv
<1> QED  BY <1>3, <1>4, <1>5, <1>6 DEF IInv

(* InitializeCache leaves an empty, well-formed file. *)
LEMMA InitializeCacheInvariant ==
  ASSUME IInv, InitializeCache, initialized' \in BOOLEAN, call = Idle, call' = Idle
  PROVE  IInv'
<1>1. Used' = {}
  BY EmptyTable DEF InitializeCache, Used
<1>2. call'.pc = "idle"
  BY IdleType
<1>3. TypeOK'
  BY SizesAssumption, EmptyTable, IdleType DEF IInv, InitializeCache, TypeOK
<1>4. CountInv'
  BY <1>1, <1>2, FS_EmptySet DEF InitializeCache, CountInv
<1>5. CallInv' /\ StampInv' /\ CompactInv'
  BY <1>1, <1>2, SizesAssumption DEF InitializeCache, CallInv, StampInv, CompactInv
<1>6. UniqueKeys' /\ LayoutInv' /\ ContentInv'
  BY <1>1, <1>2 DEF InitializeCache, UniqueKeys, LayoutInv, ContentInv
<1> QED  BY <1>3, <1>4, <1>5, <1>6 DEF IInv

(* The invariant speaks of the call in progress only through pc, value, slot
   and, in a compaction, i and write_offset: a step outside compactions that
   leaves the file alone preserves what it says of the file. *)
LEMMA FileUnchanged ==
  ASSUME IInv, UNCHANGED <<file, written>>,
         call.pc # "compact", call'.pc # "compact",
         call.pc \notin {"fill", "copy", "advance"},
         call'.pc \in {"fill", "copy", "advance"} =>
           call'.pc = "fill" /\ call'.slot \in Used
  PROVE  /\ CountInv' /\ UniqueKeys' /\ LayoutInv' /\ CompactInv' /\ ContentInv'
<1> USE DEF IInv, file
<1>1. Used' = Used /\ \A s : End(s)' = End(s)
  BY DEF Used, End
<1>2. \A s : ~Filling(s) /\ ~Filling(s)'
  BY DEF Filling
<1>3. CountInv'
  BY <1>1 DEF CountInv
<1>4. UniqueKeys' /\ CompactInv'
  BY <1>1 DEF UniqueKeys, CompactInv
<1>5. LayoutInv'
  BY <1>1, <1>2 DEF LayoutInv, Apart
<1>6. ContentInv'
  BY <1>1, <1>2 DEF ContentInv
<1> QED  BY <1>3, <1>4, <1>5, <1>6

(* Opening the file keeps a stamped one and initializes a new one. *)
LEMMA EnsureInitializedInvariant ==
  ASSUME IInv, EnsureInitialized
  PROVE  IInv'
<1>1. call = Idle /\ call' = Idle /\ initialized' = TRUE
  BY DEF IInv, CallInv, EnsureInitialized
<1>2. call.pc = "idle" /\ call'.pc = "idle"
  BY <1>1, IdleType
<1>3. CASE stamped
  <2>1. UNCHANGED <<file, written>>
    BY <1>3 DEF EnsureInitialized
  <2>2. TypeOK'
    BY <1>1, <2>1 DEF IInv, file, TypeOK
  <2>3. CallInv'
    BY <1>1, <1>2 DEF CallInv
  <2>4. StampInv'
    BY <1>3, <2>1 DEF IInv, file, StampInv
  <2> QED  BY <1>2, <2>1, <2>2, <2>3, <2>4, FileUnchanged DEF IInv
<1>4. CASE ~stamped
  BY <1>1, <1>4, InitializeCacheInvariant DEF EnsureInitialized
<1> QED  BY <1>3, <1>4

(* Clear writes the header and the table of a new file. *)
LEMMA ClearInvariant ==
  ASSUME IInv, Clear
  PROVE  IInv'
BY InitializeCacheInvariant DEF IInv, TypeOK, Clear, Ready

(* A restart changes nothing in the file. *)
LEMMA RestartInvariant ==
  ASSUME IInv, Restart
  PROVE  IInv'
<1>1. call.pc = "idle" /\ call' = call /\ UNCHANGED <<file, written>>
  BY IdleType DEF Restart, Ready
<1>2. TypeOK'
  BY <1>1 DEF Restart, IInv, file, TypeOK
<1>3. CallInv'
  BY <1>1 DEF Restart, Ready, CallInv
<1>4. StampInv'
  BY <1>1 DEF Restart, IInv, file, StampInv, Used
<1> QED  BY <1>1, <1>2, <1>3, <1>4, FileUnchanged DEF IInv

(* The length of a payload. *)
LEMMA PayloadLength ==
  ASSUME NEW v \in Values
  PROVE  Len(v) \in Nat /\ Len(v) >= 1
BY ValuesAssumption

(* At the start of a compaction everything is still to be packed. *)
LEMMA PutStartInvariant ==
  ASSUME IInv, NEW k \in Keys, NEW v \in Values, PutStart(k, v)
  PROVE  IInv'
<1>1. call.pc = "idle" /\ initialized
  BY IdleType DEF PutStart, Ready
<1>2. /\ UNCHANGED <<file, initialized, written>>
      /\ call' = [pc |-> IF Len(v) > AvailableSpace THEN "compact" ELSE "find",
                  key |-> k, value |-> v, slot |-> NoSlot, i |-> 0,
                  write_offset |-> DataStart]
  BY DEF PutStart, Idle
<1>3. next_offset \in DataStart .. FileSize
  BY <1>1 DEF IInv, StampInv
<1>4. TypeOK'
  <2>1. call' \in Calls
    BY <1>2, SizesAssumption DEF Calls
  <2> QED  BY <1>2, <2>1 DEF IInv, TypeOK, file
<1>5. CallInv'
  BY <1>1, <1>2, <1>3, PayloadLength, SizesAssumption
  DEF CallInv, AvailableSpace, file
<1>6. StampInv'
  BY <1>2 DEF IInv, StampInv, Used, file
<1>7. CASE call'.pc = "compact"
  <2>1. Used' = Used /\ LiveBytes' = LiveBytes /\ LiveBytesFrom(0)' = LiveBytesFrom(0)
    BY <1>2 DEF Used, LiveBytes, LiveBytesFrom, file
  <2>2. DataStart + LiveBytes <= next_offset
    <3>1. \A s \in Used : DataStart <= entries[s].offset /\ End(s) <= next_offset
      BY <1>1 DEF IInv, LayoutInv, Filling
    <3>2. \A s, t \in Used : s # t => Apart(s, t)
      BY <1>1 DEF IInv, LayoutInv
    <3> QED  BY <1>3, <3>1, <3>2, ApartRegionsFit DEF IInv
  <2>3. \A s \in Used : ~ (s < 0)
    BY SizesAssumption DEF Used, Slots
  <2>4. CompactInv'
    BY <1>2, <2>1, <2>2, <2>3, SizesAssumption DEF CompactInv, LiveBytes, file
  <2>5. CountInv' /\ UniqueKeys'
    BY <1>1, <1>2, <1>7, <2>1 DEF IInv, CountInv, UniqueKeys, file
  <2>6. LayoutInv'
    BY <1>1, <1>2, <1>7, <2>1 DEF IInv, LayoutInv, End, Filling, file
  <2>7. ContentInv'
    BY <1>1, <1>2, <1>7, <2>1 DEF IInv, ContentInv, Filling, file
  <2> QED  BY <1>4, <1>5, <1>6, <2>4, <2>5, <2>6, <2>7 DEF IInv
<1>8. CASE call'.pc # "compact"
  BY <1>1, <1>2, <1>4, <1>5, <1>6, <1>8, FileUnchanged DEF IInv
<1> QED  BY <1>7, <1>8

(* The slot search finds the key's slot, *)
LEMMA PutReuseSlotInvariant ==
  ASSUME IInv, PutReuseSlot
  PROVE  IInv'
<1>1. /\ call.pc = "find"
      /\ UNCHANGED <<file, initialized, written>>
      /\ call' = [call EXCEPT !.pc = "fill", !.slot = FindEntry(call.key)]
  BY DEF PutReuseSlot
<1>2. /\ FindEntry(call.key) \in Slots
      /\ entries[FindEntry(call.key)].is_used
      /\ entries[FindEntry(call.key)].key = call.key
  BY FindEntryFinds DEF PutReuseSlot
<1>3. /\ call' \in Calls
      /\ call'.pc = "fill" /\ call'.slot = FindEntry(call.key)
      /\ call'.key = call.key /\ call'.value = call.value
  BY <1>1, <1>2 DEF IInv, TypeOK, Calls
<1>4. TypeOK'
  BY <1>1, <1>3 DEF IInv, TypeOK, file
<1>5. CallInv' /\ StampInv'
  BY <1>1, <1>2, <1>3 DEF IInv, CallInv, StampInv, Used, file
<1>6. call'.slot \in Used
  BY <1>2, <1>3 DEF Used
<1> QED  BY <1>1, <1>3, <1>4, <1>5, <1>6, FileUnchanged DEF IInv

(* or none at all, and Put returns, *)
LEMMA PutNoSlotInvariant ==
  ASSUME IInv, PutNoSlot
  PROVE  IInv'
<1>1. /\ call.pc = "find" /\ call' = Idle /\ call'.pc = "idle"
      /\ UNCHANGED <<file, initialized, written>>
  BY IdleType DEF PutNoSlot, Return
<1>2. TypeOK' /\ CallInv' /\ StampInv'
  BY <1>1, IdleType DEF IInv, TypeOK, CallInv, StampInv, Used, file
<1> QED  BY <1>1, <1>2, FileUnchanged DEF IInv

(* or a free slot, which is counted before it is filled. *)
LEMMA PutClaimSlotInvariant ==
  ASSUME IInv, PutClaimSlot
  PROVE  IInv'
<1>1. /\ call.pc = "find"
      /\ UNCHANGED <<stamped, next_offset, entries, data, initialized, written>>
      /\ entry_count' = entry_count + 1
      /\ call' = [call EXCEPT !.pc = "fill", !.slot = FindFreeEntry]
  BY DEF PutClaimSlot
<1>2. FindFreeEntry \in Slots /\ FindFreeEntry \notin Used
  BY FindFreeEntryFinds DEF PutClaimSlot
<1>3. Holding(call.key) = {}
  BY FindEntryFinds DEF PutClaimSlot
<1>4. /\ call' \in Calls
      /\ call'.pc = "fill" /\ call'.slot = FindFreeEntry
      /\ call'.key = call.key /\ call'.value = call.value
  BY <1>1, <1>2 DEF IInv, TypeOK, Calls
<1>5. Used' = Used /\ (\A s : End(s)' = End(s)) /\ \A k : Holding(k)' = Holding(k)
  BY <1>1 DEF Used, End, Holding
<1>6. TypeOK'
  BY <1>1, <1>4 DEF IInv, TypeOK
<1>7. CallInv' /\ StampInv'
  BY <1>1, <1>2, <1>3, <1>4, <1>5 DEF IInv, CallInv, StampInv, Used
<1>8. CountInv'
  BY <1>1, <1>2, <1>4, <1>5, UsedIsFinite, FS_CardinalityType
  DEF IInv, TypeOK, CountInv
<1>9. UniqueKeys' /\ CompactInv'
  BY <1>1, <1>4, <1>5 DEF IInv, UniqueKeys, CompactInv
<1>10. LayoutInv'
  BY <1>1, <1>4, <1>5 DEF IInv, LayoutInv, Filling, Apart
<1>11. ContentInv'
  BY <1>1, <1>4, <1>5 DEF IInv, ContentInv, Filling
<1> QED  BY <1>6, <1>7, <1>8, <1>9, <1>10, <1>11 DEF IInv

(* The slot's fields are written: the region it is given starts at
   next_offset, above every other. *)
LEMMA PutFillEntryInvariant ==
  ASSUME IInv, PutFillEntry
  PROVE  IInv'
<1> DEFINE new == [key |-> call.key, length |-> Len(call.value),
                   offset |-> next_offset, is_used |-> TRUE,
                   checksum |-> CalculateChecksum(call.value)]
<1>1. /\ call.pc = "fill"
      /\ UNCHANGED <<stamped, entry_count, next_offset, data, initialized, written>>
      /\ entries' = [entries EXCEPT ![call.slot] = new]
      /\ call' = [call EXCEPT !.pc = "copy"]
  BY DEF PutFillEntry
<1>2. /\ initialized /\ call.key \in Keys /\ call.value \in Values
      /\ call.slot \in Slots
      /\ next_offset + Len(call.value) <= FileSize
      /\ next_offset \in DataStart .. FileSize
      /\ Len(call.value) \in Nat /\ Len(call.value) >= 1
  BY <1>1, PayloadLength DEF IInv, CallInv, StampInv
<1>3. /\ call' \in Calls
      /\ call'.pc = "copy" /\ call'.slot = call.slot
      /\ call'.key = call.key /\ call'.value = call.value
  BY <1>1 DEF IInv, TypeOK, Calls
<1>4. new \in EntryHeaders
  BY <1>2, SizesAssumption DEF EntryHeaders, Checksums
<1> HIDE DEF new
<1>5. /\ entries'[call.slot] = new
      /\ \A s \in Slots : s # call.slot => entries'[s] = entries[s]
      /\ entries' \in [Slots -> EntryHeaders]
  BY <1>1, <1>2, <1>4 DEF IInv, TypeOK
<1>6. /\ Used' = Used \cup {call.slot}
      /\ \A s \in Slots : s # call.slot => End(s)' = End(s)
      /\ End(call.slot)' = next_offset + Len(call.value)
  <2>1. entries'[call.slot].is_used
    BY <1>5 DEF new
  <2>2. Used' = Used \cup {call.slot}
    BY <1>2, <1>5, <2>1 DEF Used
  <2>3. \A s \in Slots : s # call.slot => End(s)' = End(s)
    BY <1>5 DEF End
  <2>4. End(call.slot)' = next_offset + Len(call.value)
    BY <1>1, <1>3, <1>5 DEF End, new
  <2> QED  BY <2>2, <2>3, <2>4
<1>7. TypeOK'
  BY <1>1, <1>3, <1>5 DEF IInv, TypeOK
<1>8. CallInv' /\ StampInv'
  BY <1>1, <1>2, <1>3, <1>5 DEF IInv, CallInv, StampInv, new
<1>9. CountInv'
  BY <1>1, <1>3, <1>6, UsedIsFinite, FS_AddElement, FS_CardinalityType
  DEF IInv, CountInv
<1>10. \A s \in Used : s # call.slot => entries[s].key # call.key
  BY <1>1, <1>2 DEF IInv, CallInv, UniqueKeys, Holding, Used
<1>11. UniqueKeys'
  BY <1>5, <1>6, <1>10 DEF IInv, UniqueKeys, Used, new
<1>12. \A s \in Used : s \in Slots /\ End(s) <= next_offset
  BY <1>1 DEF IInv, LayoutInv, Filling, Used
<1>13. \A s, t \in Used' : s # t => Apart(s, t)'
  <2> SUFFICES ASSUME NEW s \in Used', NEW t \in Used', s # t
               PROVE  Apart(s, t)'
    OBVIOUS
  <2>1. CASE s = call.slot
    BY <2>1, <1>5, <1>6, <1>12 DEF Apart, new
  <2>2. CASE t = call.slot
    BY <2>2, <1>5, <1>6, <1>12 DEF Apart, new
  <2>3. CASE s # call.slot /\ t # call.slot
    BY <2>3, <1>1, <1>5, <1>6, <1>12 DEF IInv, LayoutInv, Apart
  <2> QED  BY <2>1, <2>2, <2>3
<1>14. LayoutInv'
  BY <1>1, <1>2, <1>3, <1>5, <1>6, <1>12, <1>13
  DEF IInv, LayoutInv, Filling, new
<1>15. CompactInv'
  BY <1>3 DEF CompactInv
<1>16. ContentInv'
  <2>1. \A s \in Used' : s # call.slot => s \in Used /\ entries'[s] = entries[s]
    BY <1>5, <1>6, <1>12
  <2>2. entries'[call.slot].key = call.key /\ Filling(call.slot)'
    BY <1>3, <1>5 DEF Filling, new
  <2>3. \A s \in Used : ~Filling(s)
    BY <1>1 DEF Filling
  <2>4. ASSUME NEW k \in Keys, written[k] # Nothing
        PROVE  \E s \in Used' : entries'[s].key = k
    <3>1. PICK s \in Used : entries[s].key = k
      BY <2>4 DEF IInv, ContentInv
    <3>2. CASE s = call.slot
      BY <1>1, <1>6, <2>2, <3>1, <3>2 DEF IInv, CallInv, Used
    <3>3. CASE s # call.slot
      BY <1>6, <2>1, <3>1, <3>3
    <3> QED  BY <3>2, <3>3
  <2> QED  BY <1>1, <1>2, <2>1, <2>2, <2>3, <2>4 DEF IInv, ContentInv
<1> QED  BY <1>7, <1>8, <1>9, <1>11, <1>14, <1>15, <1>16 DEF IInv

(* The memcpy stays inside the data area and changes bytes only. *)
LEMMA PutCopyInvariant ==
  ASSUME IInv, PutCopy
  PROVE  IInv'
<1>1. /\ call.pc = "copy"
      /\ UNCHANGED <<stamped, entry_count, next_offset, entries, initialized, written>>
      /\ data' = Stored(call.value, entries[call.slot].offset)
      /\ call' = [call EXCEPT !.pc = "advance"]
  BY DEF PutCopy
<1>2. /\ call' \in Calls
      /\ call'.pc = "advance" /\ call'.slot = call.slot
      /\ call'.key = call.key /\ call'.value = call.value
  BY <1>1 DEF IInv, TypeOK, Calls
<1>3. call.value \in Seq(Byte) /\ entries[call.slot].offset \in Nat
  BY <1>1, ValuesAssumption DEF IInv, CallInv, TypeOK
<1>4. data' \in [DataArea -> Byte]
  <2> DEFINE dst == entries[call.slot].offset
  <2>1. ASSUME NEW a \in DataArea PROVE data'[a] \in Byte
    <3>1. CASE a \in dst .. dst + Len(call.value) - 1
      <4>1. a - dst + 1 \in 1 .. Len(call.value)
        BY <1>3, <3>1, SizesAssumption DEF DataArea
      <4>2. data'[a] = call.value[a - dst + 1]
        BY <1>1, <3>1 DEF Stored
      <4> QED  BY <1>3, <4>1, <4>2
    <3>2. CASE a \notin dst .. dst + Len(call.value) - 1
      BY <1>1, <3>2 DEF IInv, TypeOK, Stored
    <3> QED  BY <3>1, <3>2
  <2> QED  BY <1>1, <2>1 DEF Stored
<1>5. /\ Used' = Used
      /\ \A s : End(s)' = End(s) /\ Filling(s)' = Filling(s)
  BY <1>1, <1>2 DEF Used, End, Filling
<1>6. TypeOK'
  BY <1>1, <1>2, <1>4 DEF IInv, TypeOK
<1>7. CallInv' /\ StampInv'
  BY <1>1, <1>2, <1>5 DEF IInv, CallInv, StampInv
<1>8. CountInv' /\ UniqueKeys' /\ CompactInv'
  BY <1>1, <1>2, <1>5 DEF IInv, CountInv, UniqueKeys, CompactInv
<1>9. LayoutInv'
  BY <1>1, <1>2, <1>5 DEF IInv, LayoutInv, Apart
<1>10. ContentInv'
  BY <1>1, <1>2, <1>5 DEF IInv, ContentInv
<1> QED  BY <1>6, <1>7, <1>8, <1>9, <1>10 DEF IInv

(* next_offset moves past the new region, and the Put has succeeded. *)
LEMMA PutAdvanceInvariant ==
  ASSUME IInv, PutAdvance
  PROVE  IInv'
<1>1. /\ call.pc = "advance" /\ call' = Idle /\ call'.pc = "idle"
      /\ UNCHANGED <<stamped, entry_count, entries, data, initialized>>
      /\ next_offset' = next_offset + Len(call.value)
      /\ written' = [written EXCEPT ![call.key] = call.value]
  BY IdleType DEF PutAdvance, Return
<1>2. /\ initialized /\ call.key \in Keys /\ call.value \in Values
      /\ call.slot \in Slots
      /\ next_offset + Len(call.value) <= FileSize
      /\ next_offset \in DataStart .. FileSize
      /\ Len(call.value) \in Nat /\ Len(call.value) >= 1
      /\ entries[call.slot] = [key |-> call.key, length |-> Len(call.value),
                               offset |-> next_offset, is_used |-> TRUE,
                               checksum |-> CalculateChecksum(call.value)]
  BY <1>1, PayloadLength DEF IInv, CallInv, StampInv
<1>3. /\ Used' = Used /\ call.slot \in Used
      /\ \A s : End(s)' = End(s) /\ ~Filling(s)'
      /\ \A s \in Used : Filling(s) <=> s = call.slot
  BY <1>1, <1>2 DEF Used, End, Filling
<1>4. TypeOK'
  BY <1>1, <1>2, IdleType, SizesAssumption DEF IInv, TypeOK
<1>5. CallInv' /\ StampInv'
  BY <1>1, <1>2, SizesAssumption DEF IInv, CallInv, StampInv
<1>6. CountInv' /\ UniqueKeys' /\ CompactInv'
  BY <1>1, <1>3 DEF IInv, CountInv, UniqueKeys, CompactInv
<1>7. LayoutInv'
  <2>1. \A s \in Used : End(s) \in Nat
    BY SizesAssumption DEF IInv, TypeOK, EntryHeaders, Used, End
  <2>2. End(call.slot) = next_offset'
    BY <1>1, <1>2 DEF End
  <2>3. \A s \in Used : End(s) <= next_offset'
    BY <1>1, <1>2, <1>3, <2>1, <2>2, SizesAssumption DEF IInv, LayoutInv
  <2> QED  BY <1>1, <1>3, <2>3 DEF IInv, LayoutInv, Apart
<1>8. ContentInv'
  <2>1. \A s \in Used : s # call.slot => entries[s].key # call.key
    BY <1>2, <1>3 DEF IInv, UniqueKeys
  <2>2. written'[call.key] = call.value /\ call.value # Nothing
    BY <1>1, <1>2, ValuesAssumption DEF IInv, TypeOK, Nothing
  <2>3. \A k \in Keys : k # call.key => written'[k] = written[k]
    BY <1>1 DEF IInv, TypeOK
  <2>4. \A s \in Used : entries[s].key \in Keys
    BY DEF IInv, ContentInv
  <2> QED  BY <1>1, <1>2, <1>3, <2>1, <2>2, <2>3, <2>4 DEF IInv, ContentInv
<1> QED  BY <1>4, <1>5, <1>6, <1>7, <1>8 DEF IInv

(* Remove empties the key's only slot and uncounts it. *)
LEMMA RemoveInvariant ==
  ASSUME IInv, NEW k \in Keys, Remove(k)
  PROVE  IInv'
<1> DEFINE r == FindEntry(k)
<1>1. /\ call = Idle /\ call' = Idle /\ call.pc = "idle" /\ initialized
      /\ UNCHANGED <<stamped, next_offset, data, initialized, call>>
      /\ entries' = [entries EXCEPT ![r] = EmptyEntry]
      /\ entry_count' = entry_count - 1
      /\ written' = [written EXCEPT ![k] = Nothing]
  BY IdleType DEF Remove, Ready
<1>2. r \in Slots /\ entries[r].is_used /\ entries[r].key = k
  BY FindEntryFinds DEF Remove
<1> HIDE DEF r
<1>3. /\ entries'[r] = EmptyEntry
      /\ \A s \in Slots : s # r => entries'[s] = entries[s]
      /\ entries' \in [Slots -> EntryHeaders]
  <2>1. EmptyEntry \in EntryHeaders
    BY DEF EmptyEntry, EntryHeaders, Checksums
  <2> QED  BY <1>1, <1>2, <2>1 DEF IInv, TypeOK
<1>4. /\ Used' = Used \ {r} /\ r \in Used /\ Used \subseteq Slots
      /\ \A s \in Used' : entries'[s] = entries[s] /\ End(s)' = End(s)
  BY <1>2, <1>3 DEF Used, End, EmptyEntry
<1>5. CountInv' /\ entry_count' \in Nat
  <2>1. entry_count = Cardinality(Used)
    BY <1>1, UsedIsFinite, FS_CardinalityType DEF IInv, CountInv
  <2>2. /\ IsFiniteSet(Used \ {r})
        /\ Cardinality(Used \ {r}) = Cardinality(Used) - 1
    BY <1>4, UsedIsFinite, FS_RemoveElement
  <2>3. entry_count' = Cardinality(Used') /\ entry_count' \in Nat
    BY <1>1, <1>4, <2>1, <2>2, FS_CardinalityType
  <2> QED  BY <1>1, <2>3 DEF CountInv
<1>6. TypeOK'
  BY <1>1, <1>3, <1>5 DEF IInv, TypeOK
<1>7. CallInv' /\ StampInv'
  BY <1>1, <1>4 DEF IInv, CallInv, StampInv
<1>8. UniqueKeys' /\ CompactInv'
  BY <1>1, <1>4 DEF IInv, UniqueKeys, CompactInv
<1>9. LayoutInv'
  BY <1>1, <1>4 DEF IInv, LayoutInv, Filling, Apart
<1>10. ContentInv'
  <2>1. \A s \in Used' : entries[s].key # k
    BY <1>2, <1>4 DEF IInv, UniqueKeys
  <2>2. /\ written'[k] = Nothing
        /\ \A j \in Keys : j # k => written'[j] = written[j]
    BY <1>1 DEF IInv, TypeOK
  <2> QED  BY <1>1, <1>2, <1>4, <2>1, <2>2 DEF IInv, ContentInv, Filling
<1> QED  BY <1>5, <1>6, <1>7, <1>8, <1>9, <1>10 DEF IInv

(* The space in use depends only on which slots are used and their lengths. *)
LEMMA SameLengths ==
  ASSUME \A s \in Slots : /\ entries'[s].is_used = entries[s].is_used
                          /\ entries'[s].length = entries[s].length
  PROVE  /\ LiveBytes' = LiveBytes
         /\ \A i \in Nat : LiveBytesFrom(i)' = LiveBytesFrom(i)
<1>1. ASSUME NEW i \in Nat PROVE LiveBytesFrom(i)' = LiveBytesFrom(i)
  <2>1. ASSUME NEW p \in (i .. MaxEntries - 1) \X (1 .. FileSize)
        PROVE  /\ entries'[p[1]].is_used = entries[p[1]].is_used
               /\ entries'[p[1]].length = entries[p[1]].length
    BY <1>1, SizesAssumption DEF Slots
  <2> QED  BY <2>1 DEF LiveBytesFrom
<1> QED  BY <1>1 DEF LiveBytes

(* One iteration of the loop of CompactCache: a used slot's region moves to
   write_offset, which stays inside the file because what is packed and what
   is to come never exceeded the space in use. *)
LEMMA CompactSlotInvariant ==
  ASSUME IInv, CompactSlot
  PROVE  IInv'
<1>0. PICK i, w, n : i = call.i /\ w = call.write_offset /\ n = entries[i].length
  OBVIOUS
<1>1. /\ call.pc = "compact" /\ i < MaxEntries
      /\ UNCHANGED <<stamped, entry_count, next_offset, initialized, written>>
  BY <1>0 DEF CompactSlot
<1>2. /\ i \in Slots /\ i \in Nat /\ i + 1 \in Nat /\ i + 1 <= MaxEntries
      /\ w \in Nat /\ n \in Nat /\ entries[i].offset \in Nat
      /\ next_offset \in DataStart .. FileSize
      /\ DataStart \in Nat /\ FileSize \in Nat /\ MaxEntries \in Nat
  BY <1>0, <1>1, SizesAssumption
  DEF IInv, TypeOK, Calls, EntryHeaders, Slots, StampInv, CallInv
<1>3. /\ DataStart <= w
      /\ w + Cardinality(LiveBytesFrom(i)) = DataStart + LiveBytes
      /\ DataStart + LiveBytes <= next_offset
  BY <1>0, <1>1 DEF IInv, CompactInv
<1>4. /\ Cardinality(LiveBytesFrom(i + 1)) \in Nat /\ LiveBytes \in Nat
      /\ Cardinality(LiveBytesFrom(i)) \in Nat
  BY <1>2, LiveBytesFinite DEF LiveBytes
<1>5. Cardinality(LiveBytesFrom(i)) = Cardinality(LiveBytesFrom(i + 1)) +
        (IF entries[i].is_used THEN n ELSE 0)
  BY <1>0, <1>2, LiveBytesStep, SizesAssumption
  DEF IInv, LayoutInv, Used, End, TypeOK
<1>6. CASE ~entries[i].is_used
  <2>1. /\ call' = [call EXCEPT !.i = @ + 1]
        /\ UNCHANGED <<data, entries>>
    BY <1>0, <1>6 DEF CompactSlot
  <2>2. /\ call' \in Calls /\ call'.pc = "compact" /\ call'.i = i + 1
        /\ call'.write_offset = w
        /\ call'.key = call.key /\ call'.value = call.value
    BY <1>0, <1>1, <1>2, <2>1 DEF IInv, TypeOK, Calls
  <2>3. /\ Used' = Used /\ \A s : End(s)' = End(s)
        /\ LiveBytes' = LiveBytes /\ \A j : LiveBytesFrom(j)' = LiveBytesFrom(j)
    BY <2>1 DEF Used, End, LiveBytes, LiveBytesFrom
  <2>4. TypeOK' /\ CallInv' /\ StampInv'
    BY <1>1, <2>1, <2>2, <2>3 DEF IInv, TypeOK, CallInv, StampInv
  <2>5. CountInv' /\ UniqueKeys'
    BY <1>1, <2>1, <2>2, <2>3 DEF IInv, CountInv, UniqueKeys
  <2>6. LayoutInv'
    BY <1>1, <2>1, <2>2, <2>3 DEF IInv, LayoutInv
  <2>7. \A s \in Used : s < i + 1 => s < i
    BY <1>2, <1>6 DEF Used, Slots
  <2>8. \A s \in Used : s < i => s < i + 1
    BY <1>2 DEF Used, Slots
  <2>9. CompactInv'
    BY <1>0, <1>1, <1>3, <1>5, <1>6, <1>4, <2>1, <2>2, <2>3, <2>7, <2>8
    DEF IInv, CompactInv, Apart
  <2>10. ContentInv'
    BY <1>1, <2>1, <2>2, <2>3 DEF IInv, ContentInv, Filling
  <2> QED  BY <2>4, <2>5, <2>6, <2>9, <2>10 DEF IInv
<1>7. CASE entries[i].is_used
  <2>1. /\ n >= 1 /\ DataStart <= entries[i].offset /\ End(i) <= FileSize
        /\ i \in Used
    BY <1>0, <1>2, <1>7 DEF IInv, LayoutInv, Used
  <2>2. /\ call' = [call EXCEPT !.i = @ + 1, !.write_offset = w + n]
        /\ w # entries[i].offset =>
             /\ data' = Moved(entries[i].offset, w, n)
             /\ entries' = [entries EXCEPT ![i].offset = w]
        /\ w = entries[i].offset => UNCHANGED <<data, entries>>
    <3>1. entries[i].is_used /\ entries[i].length > 0
      BY <1>0, <1>2, <1>7, <2>1
    <3> QED  BY <1>0, <3>1 DEF CompactSlot
  <2>3. /\ call' \in Calls /\ call'.pc = "compact" /\ call'.i = i + 1
        /\ call'.write_offset = w + n
        /\ call'.key = call.key /\ call'.value = call.value
    <3>1. i + 1 \in 0 .. MaxEntries /\ w + n \in Nat
      BY <1>2
    <3>2. call' = [call EXCEPT !.i = i + 1, !.write_offset = w + n]
      BY <1>0, <2>2
    <3> QED  BY <1>1, <3>1, <3>2 DEF IInv, TypeOK, Calls
  <2>4. /\ entries' \in [Slots -> EntryHeaders]
        /\ entries'[i].offset = w /\ entries'[i].length = n
        /\ entries'[i].is_used = entries[i].is_used
        /\ entries'[i].key = entries[i].key
        /\ entries'[i].checksum = entries[i].checksum
        /\ \A s \in Slots : s # i => entries'[s] = entries[s]
    <3>1. CASE w # entries[i].offset
      <4> DEFINE moved == [entries[i] EXCEPT !.offset = w]
      <4>1. entries[i] \in EntryHeaders
        BY <1>2 DEF IInv, TypeOK
      <4>2. /\ moved \in EntryHeaders
            /\ moved.offset = w /\ moved.length = n
            /\ moved.key = entries[i].key /\ moved.checksum = entries[i].checksum
        BY <1>0, <1>2, <4>1 DEF EntryHeaders
      <4>3. moved.is_used = entries[i].is_used
        BY <4>1 DEF EntryHeaders
      <4>4. entries' = [entries EXCEPT ![i] = moved]
        BY <2>2, <3>1
      <4> HIDE DEF moved
      <4>5. entries'[i] = moved
        BY <1>2, <4>4 DEF IInv, TypeOK
      <4>6. /\ entries' \in [Slots -> EntryHeaders]
            /\ \A s \in Slots : s # i => entries'[s] = entries[s]
        BY <1>2, <4>2, <4>4 DEF IInv, TypeOK
      <4> QED  BY <4>2, <4>3, <4>5, <4>6
    <3>2. CASE w = entries[i].offset
      BY <1>0, <1>7, <2>2, <3>2 DEF IInv, TypeOK
    <3> QED  BY <3>1, <3>2
  <2>5. data' \in [DataArea -> Byte]
    <3>1. CASE w # entries[i].offset
      <4>1. ASSUME NEW a \in DataArea PROVE data'[a] \in Byte
        <5>1. CASE a \in w .. w + n - 1
          <6>1. entries[i].offset + (a - w) \in DataArea
            BY <1>0, <1>2, <2>1, <5>1 DEF DataArea, End
          <6> QED  BY <2>2, <3>1, <5>1, <6>1 DEF Moved, IInv, TypeOK
        <5>2. CASE a \notin w .. w + n - 1
          BY <2>2, <3>1, <5>2 DEF Moved, IInv, TypeOK
        <5> QED  BY <5>1, <5>2
      <4> QED  BY <2>2, <3>1, <4>1 DEF Moved
    <3>2. CASE w = entries[i].offset
      BY <2>2, <3>2 DEF IInv, TypeOK
    <3> QED  BY <3>1, <3>2
  <2>6. /\ LiveBytes' = LiveBytes
        /\ LiveBytesFrom(i + 1)' = LiveBytesFrom(i + 1)
    <3>1. \A s \in Slots : /\ entries'[s].is_used = entries[s].is_used
                           /\ entries'[s].length = entries[s].length
      BY <1>0, <1>7, <2>4
    <3> QED  BY <1>2, <3>1, SameLengths
  <2>7. Used' = Used /\ Used \subseteq Slots
    BY <1>2, <1>7, <2>4 DEF Used
  <2>8. /\ End(i)' = w + n
        /\ \A s \in Slots : s # i => End(s)' = End(s)
    <3>1. End(i)' = entries'[i].offset + entries'[i].length
      BY DEF End
    <3>2. ASSUME NEW s \in Slots, s # i PROVE End(s)' = End(s)
      BY <2>4, <3>2 DEF End
    <3> QED  BY <2>4, <3>1, <3>2
  <2>9. w + n <= next_offset /\ w + n <= FileSize
    BY <1>2, <1>3, <1>4, <1>5, <1>7
  <2>10. TypeOK'
    BY <1>1, <2>3, <2>4, <2>5 DEF IInv, TypeOK
  <2>11. CallInv' /\ StampInv'
    BY <1>1, <2>3 DEF IInv, CallInv, StampInv
  <2>12. CountInv'
    BY <1>1, <2>3, <2>7 DEF IInv, CountInv
  <2>13. UniqueKeys'
    BY <2>4, <2>7 DEF IInv, UniqueKeys
  <2>14. LayoutInv'
    <3>1. ASSUME NEW s \in Used
          PROVE  /\ entries'[s].length >= 1
                 /\ DataStart <= entries'[s].offset
                 /\ End(s)' <= FileSize
      <4>1. CASE s = i
        BY <1>3, <2>1, <2>4, <2>8, <2>9, <4>1
      <4>2. CASE s # i
        BY <2>4, <2>7, <2>8, <4>2 DEF IInv, LayoutInv
      <4> QED  BY <4>1, <4>2
    <3> QED  BY <2>3, <2>7, <3>1 DEF LayoutInv
  <2>15. CompactInv'
    <3>1. /\ DataStart <= w + n
          /\ (w + n) + Cardinality(LiveBytesFrom(i + 1)) = DataStart + LiveBytes
      BY <1>2, <1>3, <1>4, <1>5, <1>7
    <3>2. \A s \in Used : s < i => End(s) <= w
      BY <1>0, <1>1 DEF IInv, CompactInv
    <3>3. \A s \in Used : End(s) \in Nat
      BY DEF IInv, TypeOK, EntryHeaders, Used, End
    <3>4. \A s \in Used : s < i + 1 => s < i \/ s = i
      BY <1>2, <2>7 DEF Slots
    <3>5. \A s \in Used : s < i + 1 => End(s)' <= w + n
      <4>1. ASSUME NEW s \in Used, s < i + 1 PROVE End(s)' <= w + n
        <5>1. CASE s = i
          BY <1>2, <2>8, <5>1
        <5>2. CASE s # i
          BY <1>2, <2>7, <2>8, <3>2, <3>3, <3>4, <4>1, <5>2
        <5> QED  BY <5>1, <5>2
      <4> QED  BY <4>1
    <3>6. ASSUME NEW s \in Used, NEW t \in Used, s < i + 1, t < i + 1, s # t
          PROVE  Apart(s, t)'
      <4>1. CASE s = i
        BY <1>2, <2>4, <2>7, <2>8, <3>2, <3>4, <3>6, <4>1 DEF Apart
      <4>2. CASE t = i
        BY <1>2, <2>4, <2>7, <2>8, <3>2, <3>4, <3>6, <4>2 DEF Apart
      <4>3. CASE s # i /\ t # i
        <5>1. Apart(s, t)
          BY <1>0, <1>1, <3>4, <3>6, <4>3 DEF IInv, CompactInv
        <5> QED  BY <2>4, <2>7, <2>8, <4>3, <5>1 DEF Apart
      <4> QED  BY <4>1, <4>2, <4>3
    <3>7. i \in Used' /\ i < i + 1 /\ End(i)' = w + n
      BY <1>2, <2>1, <2>7, <2>8
    <3>8. DataStart + LiveBytes' <= next_offset'
      BY <1>1, <1>3, <2>6
    <3> QED  BY <2>3, <2>6, <2>7, <3>1, <3>5, <3>6, <3>7, <3>8 DEF CompactInv
  <2>16. ContentInv'
    <3>1. \A s \in Used : /\ entries'[s].key = entries[s].key
                          /\ entries'[s].length = entries[s].length
                          /\ entries'[s].checksum = entries[s].checksum
      BY <1>0, <2>4, <2>7
    <3>2. \A s : ~Filling(s) /\ ~Filling(s)'
      BY <1>1, <2>3 DEF Filling
    <3> QED  BY <1>1, <2>7, <3>1, <3>2 DEF IInv, ContentInv
  <2> QED  BY <2>10, <2>11, <2>12, <2>13, <2>14, <2>15, <2>16 DEF IInv
<1> QED  BY <1>6, <1>7

(* At the end of the loop all regions are packed below write_offset, which
   becomes next_offset. *)
LEMMA CompactEndInvariant ==
  ASSUME IInv, CompactEnd
  PROVE  IInv'
<1>1. /\ call.pc = "compact" /\ call.i = MaxEntries
      /\ UNCHANGED <<stamped, entry_count, entries, data, initialized, written>>
      /\ next_offset' = call.write_offset
  BY DEF CompactEnd
<1>2. /\ call.write_offset \in Nat /\ call.value \in Values /\ initialized
      /\ next_offset \in DataStart .. FileSize
      /\ DataStart \in Nat /\ FileSize \in Nat /\ MaxEntries \in Nat
      /\ Len(call.value) \in Nat
  BY <1>1, PayloadLength, SizesAssumption
  DEF IInv, TypeOK, Calls, StampInv, CallInv
<1>3. next_offset' \in DataStart .. FileSize
  <2>1. /\ DataStart <= call.write_offset
        /\ call.write_offset + Cardinality(LiveBytesFrom(MaxEntries))
             = DataStart + LiveBytes
        /\ DataStart + LiveBytes <= next_offset
    BY <1>1 DEF IInv, CompactInv
  <2>2. Cardinality(LiveBytesFrom(MaxEntries)) = 0
    BY <1>2, LiveBytesFinite
  <2>3. LiveBytes \in Nat
    BY LiveBytesFinite DEF LiveBytes
  <2> QED  BY <1>1, <1>2, <2>1, <2>2, <2>3
<1>4. \/ call' = Idle /\ call'.pc = "idle"
      \/ /\ call' \in Calls /\ call'.pc = "find"
         /\ call'.key = call.key /\ call'.value = call.value
         /\ next_offset' + Len(call.value) <= FileSize
  <2>1. CASE Len(call.value) > AvailableSpace'
    BY <2>1, IdleType DEF CompactEnd, Return
  <2>2. CASE ~(Len(call.value) > AvailableSpace')
    <3>1. call' = [call EXCEPT !.pc = "find", !.i = 0]
      BY <2>2 DEF CompactEnd
    <3>2. /\ call' \in Calls /\ call'.pc = "find"
          /\ call'.key = call.key /\ call'.value = call.value
      <4>1. 0 \in 0 .. MaxEntries
        BY <1>2
      <4> QED  BY <3>1, <4>1 DEF IInv, TypeOK, Calls
    <3>3. next_offset' + Len(call.value) <= FileSize
      BY <1>2, <1>3, <2>2 DEF AvailableSpace
    <3> QED  BY <3>2, <3>3
  <2> QED  BY <2>1, <2>2
<1>5. /\ Used' = Used /\ (\A s : End(s)' = End(s)) /\ \A s : ~Filling(s)
      /\ \A s : ~Filling(s)'
  BY <1>1, <1>4 DEF Used, End, Filling
<1>6. TypeOK'
  BY <1>1, <1>2, <1>4, IdleType DEF IInv, TypeOK
<1>7. CallInv' /\ StampInv'
  BY <1>1, <1>3, <1>4, <1>5 DEF IInv, CallInv, StampInv
<1>8. CountInv' /\ UniqueKeys' /\ CompactInv'
  BY <1>1, <1>4, <1>5 DEF IInv, CountInv, UniqueKeys, CompactInv
<1>9. LayoutInv'
  <2>1. \A s \in Used : s < call.i
    BY <1>1, <1>2 DEF Used, Slots
  <2>2. /\ \A s \in Used : End(s) <= next_offset'
        /\ \A s, t \in Used : s # t => Apart(s, t)
    BY <1>1, <2>1 DEF IInv, CompactInv
  <2> QED  BY <1>1, <1>5, <2>2 DEF IInv, LayoutInv, Apart
<1>10. ContentInv'
  BY <1>1, <1>5 DEF IInv, ContentInv
<1> QED  BY <1>6, <1>7, <1>8, <1>9, <1>10 DEF IInv

(* A step that changes none of the variables keeps the invariant. *)
LEMMA StutterInvariant ==
  ASSUME IInv, UNCHANGED vars
  PROVE  IInv'
<1> USE DEF vars, file
<1>1. /\ Used' = Used /\ LiveBytes' = LiveBytes
      /\ \A s : End(s)' = End(s) /\ Filling(s)' = Filling(s)
      /\ \A j : LiveBytesFrom(j)' = LiveBytesFrom(j) /\ Holding(j)' = Holding(j)
  BY DEF Used, LiveBytes, LiveBytesFrom, End, Filling, Holding
<1>2. TypeOK' /\ CallInv' /\ StampInv'
  BY <1>1 DEF IInv, TypeOK, CallInv, StampInv
<1>3. CountInv' /\ UniqueKeys' /\ LayoutInv'
  BY <1>1 DEF IInv, CountInv, UniqueKeys, LayoutInv, Apart
<1>4. CompactInv' /\ ContentInv'
  BY <1>1 DEF IInv, CompactInv, ContentInv, Apart
<1> QED  BY <1>2, <1>3, <1>4 DEF IInv

(* Every step of the cache preserves the invariant. *)
LEMMA NextInvariant ==
  ASSUME IInv, [Next]_vars
  PROVE  IInv'
<1>1. CASE EnsureInitialized
  BY <1>1, EnsureInitializedInvariant
<1>2. CASE \E k \in Keys, v \in Values : PutStart(k, v)
  BY <1>2, PutStartInvariant
<1>3. CASE CompactSlot
  BY <1>3, CompactSlotInvariant
<1>4. CASE CompactEnd
  BY <1>4, CompactEndInvariant
<1>5. CASE PutReuseSlot
  BY <1>5, PutReuseSlotInvariant
<1>6. CASE PutClaimSlot
  BY <1>6, PutClaimSlotInvariant
<1>7. CASE PutNoSlot
  BY <1>7, PutNoSlotInvariant
<1>8. CASE PutFillEntry
  BY <1>8, PutFillEntryInvariant
<1>9. CASE PutCopy
  BY <1>9, PutCopyInvariant
<1>10. CASE PutAdvance
  BY <1>10, PutAdvanceInvariant
<1>11. CASE \E k \in Keys : Remove(k)
  BY <1>11, RemoveInvariant
<1>12. CASE Clear
  BY <1>12, ClearInvariant
<1>13. CASE Restart
  BY <1>13, RestartInvariant
<1>14. CASE UNCHANGED vars
  BY <1>14, StutterInvariant
<1> QED
  BY <1>1, <1>2, <1>3, <1>4, <1>5, <1>6, <1>7, <1>8, <1>9, <1>10, <1>11,
     <1>12, <1>13, <1>14 DEF Next
-----------------------------------------------------------------------------
(* The theorems *)

(* IInv is an invariant of the cache. *)
THEOREM Invariance == Spec => []IInv
BY InitInvariant, NextInvariant, PTL DEF Spec

(* The variables keep their types: entry_count never goes below zero, next_offset
   stays a natural number, and whatever memcpy and memmove put into the data area
   are bytes.  Where they put them is LayoutIsSound's. *)
THEOREM TypeCorrect == Spec => []TypeOK
<1>1. IInv => TypeOK
  BY DEF IInv
<1> QED  BY <1>1, Invariance, PTL

(* entry_count is exact between calls, for any number of slots. *)
THEOREM CountIsExact == Spec => []EntryCountExact
<1>1. ASSUME IInv PROVE EntryCountExact
  BY <1>1, IdleType, UsedIsFinite, FS_CardinalityType
  DEF IInv, CountInv, EntryCountExact
<1> QED  BY <1>1, Invariance, PTL

(* No key ever has two slots. *)
THEOREM KeysAreUnique == Spec => []UniqueKeys
<1>1. IInv => UniqueKeys
  BY DEF IInv
<1> QED  BY <1>1, Invariance, PTL

(* Between calls the entries' regions are disjoint, inside the file and below
   next_offset: this is what makes the unsigned CACHE_FILE_SIZE - next_offset
   of Put safe from wrapping, and Get's pointer point into the mapping. *)
THEOREM LayoutIsSound == Spec => []LayoutSound
<1>1. ASSUME IInv PROVE LayoutSound
  <2> SUFFICES ASSUME initialized, call = Idle PROVE LayoutSound
    BY DEF LayoutSound
  <2>1. call.pc = "idle" /\ \A s : ~Filling(s)
    BY IdleType DEF Filling
  <2>2. next_offset \in DataStart .. FileSize
    BY <1>1 DEF IInv, StampInv
  <2>3. \A s \in Used : DataStart <= entries[s].offset /\ End(s) <= next_offset
    BY <1>1, <2>1 DEF IInv, LayoutInv
  <2>4. \A s, t \in Used : s # t => Apart(s, t)
    BY <1>1, <2>1 DEF IInv, LayoutInv
  <2> QED  BY <2>2, <2>3, <2>4 DEF LayoutSound, End, Apart
<1> QED  BY <1>1, Invariance, PTL

(* A Get that returns true answers with bytes of the length and the checksum of
   the last successful Put of that key, and the index forgets no key, whatever
   the payloads and however often the file was compacted. *)
THEOREM GetIsHonest == Spec => []GetMatchesLastPut
<1>1. ASSUME IInv PROVE GetMatchesLastPut
  <2> SUFFICES ASSUME call = Idle, NEW k \in Keys
               PROVE  /\ (written[k] = Nothing) <=> (FindEntry(k) = NoSlot)
                      /\ Get(k) # Nothing =>
                           /\ Len(Get(k)) = Len(written[k])
                           /\ CalculateChecksum(Get(k)) = CalculateChecksum(written[k])
    BY DEF GetMatchesLastPut
  <2> DEFINE s == FindEntry(k)
  <2>1. \A t : ~Filling(t)
    BY IdleType DEF Filling
  <2>2. CASE s = NoSlot
    <3>1. Holding(k) = {}
      BY <2>2, FindEntryFinds
    <3>2. written[k] = Nothing
      BY <1>1, <3>1 DEF IInv, ContentInv, Holding
    <3>3. Get(k) = Nothing
      BY <2>2 DEF Get
    <3> QED  BY <2>2, <3>2, <3>3
  <2>3. CASE s # NoSlot
    <3>1. s \in Used /\ entries[s].key = k
      BY <2>3, FindEntryFinds DEF Used
    <3>2. /\ written[k] # Nothing
          /\ entries[s].length = Len(written[k])
          /\ entries[s].checksum = CalculateChecksum(written[k])
      BY <1>1, <2>1, <3>1 DEF IInv, ContentInv
    <3>3. ASSUME Get(k) # Nothing
          PROVE  /\ Len(Get(k)) = Len(written[k])
                 /\ CalculateChecksum(Get(k)) = CalculateChecksum(written[k])
      <4>1. Intact(s) /\ Get(k) = BytesOf(s)
        BY <2>3, <3>3 DEF Get
      <4>2. entries[s].length \in Nat
        BY <1>1, <3>1 DEF IInv, TypeOK, EntryHeaders, Used
      <4>3. Len(BytesOf(s)) = entries[s].length
        BY <4>2 DEF BytesOf
      <4> QED  BY <3>2, <4>1, <4>3 DEF Intact
    <3> QED  BY <2>3, <3>2, <3>3
  <2> QED  BY <2>2, <2>3
<1> QED  BY <1>1, Invariance, PTL

(* A compaction ends with next_offset right behind the bytes in use. *)
THEOREM CompactionIsTight == Spec => CompactionReclaimsAll
<1>1. ASSUME IInv, [Next]_vars, call.pc = "compact", call'.pc # "compact"
      PROVE  next_offset' = DataStart + LiveBytes'
  <2>1. CompactEnd
    <3>1. ~CompactSlot
      BY <1>1 DEF CompactSlot, IInv, TypeOK, Calls
    <3>2. call # Idle /\ initialized
      BY <1>1, IdleType DEF IInv, CallInv
    <3>3. call' # call
      BY <1>1
    <3> QED
      BY <1>1, <3>1, <3>2, <3>3
      DEF Next, vars, EnsureInitialized, PutStart, PutReuseSlot, PutClaimSlot,
          PutNoSlot, PutFillEntry, PutCopy, PutAdvance, Remove, Clear, Restart, Ready
  <2>2. /\ next_offset' = call.write_offset /\ call.i = MaxEntries
        /\ UNCHANGED entries
    BY <2>1 DEF CompactEnd
  <2>3. call.write_offset + Cardinality(LiveBytesFrom(MaxEntries)) = DataStart + LiveBytes
    BY <1>1, <2>2 DEF IInv, CompactInv
  <2>4. Cardinality(LiveBytesFrom(MaxEntries)) = 0
    BY SizesAssumption, LiveBytesFinite
  <2>5. LiveBytes' = LiveBytes
    BY <2>2, SameLengths
  <2>6. call.write_offset \in Nat /\ LiveBytes \in Nat
    BY <1>1, LiveBytesFinite DEF IInv, TypeOK, Calls, LiveBytes
  <2> QED  BY <2>2, <2>3, <2>4, <2>5, <2>6
<1>2. ASSUME IInv, [Next]_vars
      PROVE  [call.pc = "compact" /\ call'.pc # "compact"
                => next_offset' = DataStart + LiveBytes']_vars
  BY <1>1, <1>2
<1> QED  BY <1>2, Invariance, PTL DEF Spec, CompactionReclaimsAll

(* When slot order is address order a used slot is moved down, or not at all,
   into space that no other used slot holds. *)
LEMMA OrderedMove ==
  ASSUME IInv, CompactSlot, Ordered, entries[call.i].is_used,
         NEW i, i = call.i, NEW w, w = call.write_offset,
         NEW n, n = entries[i].length, NEW o, o = entries[i].offset
  PROVE  /\ i \in Used /\ w \in Nat /\ n \in Nat /\ o \in Nat
         /\ DataStart <= w /\ w <= o /\ o + n <= FileSize
         /\ \A s \in Used : s < i => End(s) <= w
         /\ \A s \in Used : i < s => o + n <= entries[s].offset
         /\ entries'[i].offset = w /\ entries'[i].length = n
         /\ \A s \in Slots :
              /\ s # i => entries'[s] = entries[s]
              /\ entries'[s].is_used = entries[s].is_used
              /\ entries'[s].checksum = entries[s].checksum
         /\ \A a \in DataArea :
              data'[a] = IF a \in w .. w + n - 1 THEN data[o + (a - w)] ELSE data[a]
<1>1. /\ call.pc = "compact" /\ i < MaxEntries /\ i \in Slots /\ i \in Used
      /\ w \in Nat /\ n \in Nat /\ o \in Nat /\ n >= 1
      /\ DataStart <= o /\ o + n <= FileSize
  BY SizesAssumption
  DEF CompactSlot, IInv, TypeOK, Calls, EntryHeaders, LayoutInv, End, Slots, Used
<1>2. /\ DataStart <= w
      /\ \A s \in Used : s < i => End(s) <= w
      /\ w = DataStart \/ \E s \in Used : s < i /\ End(s) = w
  BY <1>1 DEF IInv, CompactInv
<1>3. /\ \A s \in Used : s < i => End(s) <= o
      /\ \A s \in Used : i < s => o + n <= entries[s].offset
  BY <1>1 DEF Ordered, End
<1>4. w <= o
  BY <1>1, <1>2, <1>3
<1>5. /\ w # o => /\ data' = Moved(o, w, n)
                 /\ entries' = [entries EXCEPT ![i].offset = w]
      /\ w = o => UNCHANGED <<data, entries>>
  BY <1>1 DEF CompactSlot
<1>6. /\ entries'[i].offset = w /\ entries'[i].length = n
      /\ \A s \in Slots : /\ s # i => entries'[s] = entries[s]
                          /\ entries'[s].is_used = entries[s].is_used
                          /\ entries'[s].checksum = entries[s].checksum
  <2>1. CASE w # o
    <3> DEFINE moved == [entries[i] EXCEPT !.offset = w]
    <3>1. entries[i] \in EntryHeaders
      BY <1>1 DEF IInv, TypeOK
    <3>2. /\ moved.offset = w /\ moved.length = n
          /\ moved.checksum = entries[i].checksum
      BY <3>1 DEF EntryHeaders
    <3>3. moved.is_used = entries[i].is_used
      BY <3>1 DEF EntryHeaders
    <3>4. entries' = [entries EXCEPT ![i] = moved]
      BY <1>5, <2>1
    <3> HIDE DEF moved
    <3>5. /\ entries'[i] = moved
          /\ \A s \in Slots : s # i => entries'[s] = entries[s]
      BY <1>1, <3>4 DEF IInv, TypeOK
    <3> QED  BY <3>2, <3>3, <3>5
  <2>2. CASE w = o
    BY <1>5, <2>2
  <2> QED  BY <2>1, <2>2
<1>7. ASSUME NEW a \in DataArea
      PROVE  data'[a] = IF a \in w .. w + n - 1 THEN data[o + (a - w)] ELSE data[a]
  <2>1. CASE w # o
    BY <1>5, <2>1 DEF Moved
  <2>2. CASE w = o
    <3>1. a \in w .. w + n - 1 => o + (a - w) = a
      BY <1>1, <2>2
    <3> QED  BY <1>5, <2>2, <3>1
  <2> QED  BY <2>1, <2>2
<1> QED  BY <1>1, <1>2, <1>3, <1>4, <1>6, <1>7

(* Each used slot designates the same bytes after the move as before it. *)
LEMMA OrderedMoveKeepsBytes ==
  ASSUME IInv, CompactSlot, Ordered, entries[call.i].is_used, NEW s \in Used
  PROVE  BytesOf(s)' = BytesOf(s) /\ entries'[s].checksum = entries[s].checksum
<1>1. PICK i, w, n, o : /\ i = call.i /\ w = call.write_offset
                        /\ n = entries[i].length /\ o = entries[i].offset
  OBVIOUS
<1>2. /\ i \in Used /\ w \in Nat /\ n \in Nat /\ o \in Nat
      /\ DataStart <= w /\ w <= o /\ o + n <= FileSize
      /\ s < i => End(s) <= w
      /\ i < s => o + n <= entries[s].offset
      /\ entries'[i].offset = w /\ entries'[i].length = n
      /\ s # i => entries'[s] = entries[s]
      /\ entries'[s].checksum = entries[s].checksum
      /\ \A a \in DataArea :
           data'[a] = IF a \in w .. w + n - 1 THEN data[o + (a - w)] ELSE data[a]
  BY <1>1, OrderedMove DEF Used
<1>3. /\ s \in Nat /\ i \in Nat
      /\ entries[s].offset \in Nat /\ entries[s].length \in Nat
      /\ DataStart <= entries[s].offset /\ End(s) <= FileSize
      /\ DataStart \in Nat /\ FileSize \in Nat
  BY <1>2, SizesAssumption
  DEF IInv, TypeOK, EntryHeaders, LayoutInv, Used, Slots
<1>4. CASE s = i
  <2>1. ASSUME NEW m \in 1 .. n PROVE data'[w + m - 1] = data[o + m - 1]
    <3>1. /\ w + m - 1 \in DataArea /\ w + m - 1 \in w .. w + n - 1
          /\ o + ((w + m - 1) - w) = o + m - 1
      BY <1>2, <1>3 DEF DataArea
    <3> QED  BY <1>2, <3>1
  <2> QED  BY <1>1, <1>2, <1>4, <2>1 DEF BytesOf
<1>5. CASE s # i
  <2>1. ASSUME NEW m \in 1 .. entries[s].length
        PROVE  data'[entries[s].offset + m - 1] = data[entries[s].offset + m - 1]
    <3> DEFINE a == entries[s].offset + m - 1
    <3>1. a \in DataArea /\ a \notin w .. w + n - 1
      BY <1>2, <1>3, <1>5 DEF DataArea, End
    <3> QED  BY <1>2, <3>1
  <2> QED  BY <1>2, <1>5, <2>1 DEF BytesOf
<1> QED  BY <1>2, <1>4, <1>5

(* A compaction of a table whose slot order is its address order damages no
   entry: what the reported defect needs is an overwritten or reused slot. *)
THEOREM OrderedCompactionIsSafe == Spec => OrderedCompactionKeepsData
<1>1. ASSUME IInv, CompactSlot, Ordered, AllIntact
      PROVE  Ordered' /\ AllIntact'
  <2>1. CASE entries[call.i].is_used
    <3>1. PICK i, w, n, o : /\ i = call.i /\ w = call.write_offset
                            /\ n = entries[i].length /\ o = entries[i].offset
      OBVIOUS
    <3>2. /\ i \in Used /\ w \in Nat /\ n \in Nat /\ o \in Nat /\ w <= o
          /\ \A s \in Used : s < i => End(s) <= w
          /\ \A s \in Used : i < s => o + n <= entries[s].offset
          /\ entries'[i].offset = w /\ entries'[i].length = n
          /\ \A s \in Slots : /\ s # i => entries'[s] = entries[s]
                              /\ entries'[s].is_used = entries[s].is_used
      BY <1>1, <2>1, <3>1, OrderedMove
    <3>3. Used' = Used /\ Used \subseteq Slots
      BY <3>2 DEF Used
    <3>4. ASSUME NEW s \in Used, NEW t \in Used, s < t
          PROVE  entries'[s].offset + entries'[s].length <= entries'[t].offset
      <4>1. /\ s \in Nat /\ t \in Nat /\ i \in Nat
            /\ entries[t].offset \in Nat
        BY <1>1, <3>2, <3>3, SizesAssumption DEF IInv, TypeOK, EntryHeaders, Slots
      <4>2. CASE s = i
        BY <3>2, <3>3, <3>4, <4>1, <4>2
      <4>3. CASE t = i
        BY <3>2, <3>3, <3>4, <4>1, <4>3 DEF End
      <4>4. CASE s # i /\ t # i
        BY <1>1, <3>2, <3>3, <3>4, <4>4 DEF Ordered
      <4> QED  BY <4>2, <4>3, <4>4
    <3>5. Ordered'
      BY <3>3, <3>4 DEF Ordered
    <3>6. AllIntact'
      BY <1>1, <2>1, <3>3, OrderedMoveKeepsBytes DEF AllIntact, Intact
    <3> QED  BY <3>5, <3>6
  <2>2. CASE ~entries[call.i].is_used
    <3>1. UNCHANGED <<data, entries>>
      BY <1>1, <2>2 DEF CompactSlot
    <3> QED  BY <1>1, <3>1 DEF Ordered, AllIntact, Intact, BytesOf, Used
  <2> QED  BY <2>1, <2>2
<1>2. ASSUME UNCHANGED <<data, entries>>, Ordered, AllIntact
      PROVE  Ordered' /\ AllIntact'
  BY <1>2 DEF Ordered, AllIntact, Intact, BytesOf, Used
<1>3. ASSUME IInv, [Next]_vars, call.pc = "compact"
      PROVE  CompactSlot \/ UNCHANGED <<data, entries>>
  <2>1. call # Idle /\ initialized
    BY <1>3, IdleType DEF IInv, CallInv
  <2> QED
    BY <1>3, <2>1
    DEF Next, vars, file, CompactEnd, EnsureInitialized, PutStart, PutReuseSlot,
        PutClaimSlot, PutNoSlot, PutFillEntry, PutCopy, PutAdvance, Remove,
        Clear, Restart, Ready
<1>4. ASSUME IInv, [Next]_vars
      PROVE  [call.pc = "compact" /\ Ordered /\ AllIntact
                => Ordered' /\ AllIntact']_vars
  BY <1>1, <1>2, <1>3, <1>4
<1> QED  BY <1>4, Invariance, PTL DEF Spec, OrderedCompactionKeepsData
=============================================================================
