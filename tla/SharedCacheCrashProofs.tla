------------------------ MODULE SharedCacheCrashProofs ------------------------
(***************************************************************************)
(* Proofs about SharedCacheCrash, for any keys, payloads, table and file   *)
(* size, and any number of processes killed anywhere the model kills them. *)
(*                                                                         *)
(* After a kill regions may overlap and the table may claim more than was  *)
(* written, so the layout that SharedCacheProofs relies on is gone.  What  *)
(* a kill leaves of it is a budget: as long as nobody was killed in Put or *)
(* InitializeCache, the used slots hold no more bytes than lie below       *)
(* next_offset, wherever their regions are.                                *)
(***************************************************************************)
EXTENDS SharedCacheCrash, SharedCacheRefinement

CrashCalls == [pc : {"idle", "compact", "find", "fill", "copy", "advance", "dead"},
               key : Keys \cup {NoKey}, value : Values \cup {<<>>},
               slot : Slots \cup {NoSlot}, i : 0 .. MaxEntries, write_offset : Nat]

(* entry_count may go below zero after a kill inside InitializeCache *)
CrashTypeOK ==
  /\ stamped \in BOOLEAN
  /\ entry_count \in Int
  /\ next_offset \in Nat
  /\ entries \in [Slots -> EntryHeaders]
  /\ data \in [DataArea -> Byte]
  /\ initialized \in BOOLEAN
  /\ call \in CrashCalls
  /\ written \in [Keys -> Values \cup {Nothing}]
  /\ kills \in [Functions -> Nat]

(* The part of StampInv that no kill breaks *)
StampedFirst ==
  /\ initialized => stamped
  /\ ~stamped => Used = {} /\ written = [k \in Keys |-> Nothing]

(* A slot that Put has counted and not yet marked as used *)
Claimed == IF call.pc = "fill" /\ call.slot \notin Used THEN 1 ELSE 0

Drift == entry_count - Cardinality(Used) - Claimed

DriftInv == kills["initialize"] = 0 => Drift \in 0 .. kills["put"] + kills["remove"]

(* Put has filled the slot and not yet moved next_offset *)
Unmoved == IF call.pc \in {"copy", "advance"} THEN Len(call.value) ELSE 0

(* The used slots' regions lie below next_offset and together are no longer than
   the space there *)
BudgetInv ==
  /\ stamped => DataStart + LiveBytes <= next_offset + Unmoved
  /\ \A s \in Used : /\ entries[s].length >= 1
                     /\ DataStart <= entries[s].offset
                     /\ End(s) <= next_offset + (IF Filling(s) THEN Unmoved ELSE 0)

(* The compaction has room for what is still to be moved *)
PackInv ==
  call.pc = "compact" =>
    /\ DataStart <= call.write_offset
    /\ call.write_offset + Cardinality(LiveBytesFrom(call.i)) = DataStart + LiveBytes
    /\ \A s \in Used : s < call.i => End(s) <= call.write_offset

(* What holds until a process is killed in Put or InitializeCache *)
Whole == StampInv /\ BudgetInv /\ PackInv /\ ContentInv /\ CopyInv

(* What survives every kill *)
Basics == CrashTypeOK /\ CallInv /\ StampedFirst /\ UniqueKeys

CrashInv == Basics /\ DriftInv /\ (~Broken => Whole)
-----------------------------------------------------------------------------
(* What a change of one slot does to the table *)

(* Which slots are used changes for that slot only. *)
LEMMA OneSlot ==
  ASSUME entries \in [Slots -> EntryHeaders], NEW r \in Slots, NEW e \in EntryHeaders,
         entries' = [entries EXCEPT ![r] = e]
  PROVE  /\ entries' \in [Slots -> EntryHeaders]
         /\ entries'[r] = e
         /\ \A s \in Slots : s # r => entries'[s] = entries[s] /\ End(s)' = End(s)
         /\ End(r)' = e.offset + e.length
         /\ Used' = IF e.is_used THEN Used \cup {r} ELSE Used \ {r}
<1>1. /\ entries' \in [Slots -> EntryHeaders]
      /\ entries'[r] = e
      /\ \A s \in Slots : s # r => entries'[s] = entries[s]
  OBVIOUS
<1>2. /\ \A s \in Slots : s # r => End(s)' = End(s)
      /\ End(r)' = e.offset + e.length
  BY <1>1 DEF End
<1>3. Used' = IF e.is_used THEN Used \cup {r} ELSE Used \ {r}
  <2>1. CASE e.is_used
    BY <1>1, <2>1 DEF Used
  <2>2. CASE ~e.is_used
    BY <1>1, <2>2 DEF Used
  <2> QED  BY <2>1, <2>2
<1> QED  BY <1>1, <1>2, <1>3

(* So does their number. *)
LEMMA OneSlotCount ==
  ASSUME NEW r, NEW used \in BOOLEAN, Used' = IF used THEN Used \cup {r} ELSE Used \ {r}
  PROVE  /\ Cardinality(Used) \in Nat
         /\ Cardinality(Used') = Cardinality(Used)
              + (IF used THEN IF r \in Used THEN 0 ELSE 1
                         ELSE IF r \in Used THEN -1 ELSE 0)
<1>1. Cardinality(Used) \in Nat
  BY UsedIsFinite, FS_CardinalityType
<1>2. CASE used
  BY <1>1, <1>2, UsedIsFinite, FS_AddElement
<1>3. CASE ~used
  <2>1. CASE r \in Used
    BY <1>1, <1>3, <2>1, UsedIsFinite, FS_RemoveElement
  <2>2. CASE r \notin Used
    <3>1. Used' = Used
      BY <1>3, <2>2
    <3>2. Cardinality(Used') = Cardinality(Used)
      BY <3>1, Zenon
    <3> QED  BY <1>1, <1>3, <2>2, <3>2
  <2> QED  BY <2>1, <2>2
<1> QED  BY <1>1, <1>2, <1>3

(* And the space in use changes by the difference of its lengths. *)
Held(e) == IF e.is_used THEN e.length ELSE 0

LEMMA OneSlotSpace ==
  ASSUME entries \in [Slots -> EntryHeaders], NEW r \in Slots, NEW e \in EntryHeaders,
         entries' = [entries EXCEPT ![r] = e],
         Held(entries[r]) <= FileSize, Held(e) <= FileSize
  PROVE  /\ LiveBytes \in Nat /\ Held(entries[r]) \in Nat /\ Held(e) \in Nat
         /\ LiveBytes' = LiveBytes - Held(entries[r]) + Held(e)
<1> DEFINE rest == {p \in LiveBytesFrom(0) : p[1] # r}
           old  == {r} \X (1 .. Held(entries[r]))
           new  == {r} \X (1 .. Held(e))
<1>1. Held(entries[r]) \in Nat /\ Held(e) \in Nat
  BY DEF Held, EntryHeaders
<1>2. /\ IsFiniteSet(old) /\ Cardinality(old) = Held(entries[r])
      /\ IsFiniteSet(new) /\ Cardinality(new) = Held(e)
  BY <1>1, RowCardinality
<1>3. LiveBytesFrom(0) = rest \cup old
  <2>1. ASSUME NEW p PROVE p \in LiveBytesFrom(0) <=> p \in rest \cup old
    <3>1. CASE p \in old
      BY <1>1, <3>1, SizesAssumption DEF LiveBytesFrom, EntryHeaders, Slots, Held
    <3>2. CASE p \notin old
      BY <1>1, <3>2, SizesAssumption DEF LiveBytesFrom, EntryHeaders, Slots, Held
    <3> QED  BY <3>1, <3>2
  <2> QED  BY <2>1
<1>4. LiveBytesFrom(0)' = rest \cup new
  <2>1. /\ entries'[r] = e
        /\ \A s \in Slots : s # r => entries'[s] = entries[s]
    OBVIOUS
  <2>2. ASSUME NEW p PROVE p \in LiveBytesFrom(0)' <=> p \in rest \cup new
    <3>1. CASE p \in new
      BY <1>1, <2>1, <3>1, SizesAssumption DEF LiveBytesFrom, EntryHeaders, Slots, Held
    <3>2. CASE p \notin new
      BY <1>1, <2>1, <3>2, SizesAssumption DEF LiveBytesFrom, EntryHeaders, Slots, Held
    <3> QED  BY <3>1, <3>2
  <2> QED  BY <2>2
<1>5. IsFiniteSet(rest) /\ Cardinality(rest) \in Nat
  BY LiveBytesFinite, FS_Subset, FS_CardinalityType
<1>6. /\ Cardinality(rest \cap old) = 0
      /\ Cardinality(rest \cap new) = 0
  <2>1. rest \cap old = {} /\ rest \cap new = {}
    OBVIOUS
  <2> QED  BY <2>1, FS_EmptySet
<1> HIDE DEF rest, old, new
<1>7. Cardinality(rest \cup old) = Cardinality(rest) + Held(entries[r])
  <2>1. Cardinality(rest \cup old)
          = Cardinality(rest) + Cardinality(old) - Cardinality(rest \cap old)
    BY <1>2, <1>5, FS_Union
  <2> QED  BY <1>1, <1>2, <1>5, <1>6, <2>1
<1>8. Cardinality(rest \cup new) = Cardinality(rest) + Held(e)
  <2>1. Cardinality(rest \cup new)
          = Cardinality(rest) + Cardinality(new) - Cardinality(rest \cap new)
    BY <1>2, <1>5, FS_Union
  <2> QED  BY <1>1, <1>2, <1>5, <1>6, <2>1
<1>9. LiveBytes = Cardinality(rest) + Held(entries[r])
  BY <1>3, <1>7 DEF LiveBytes
<1>10. LiveBytes' = Cardinality(rest) + Held(e)
  BY <1>4, <1>8 DEF LiveBytes
<1> QED  BY <1>1, <1>5, <1>9, <1>10

(* A table that stays the same stays the same. *)
LEMMA SameTable ==
  ASSUME UNCHANGED entries
  PROVE  /\ Used' = Used /\ LiveBytes' = LiveBytes
         /\ \A s : End(s)' = End(s)
         /\ \A j : LiveBytesFrom(j)' = LiveBytesFrom(j) /\ Holding(j)' = Holding(j)
BY DEF Used, LiveBytes, LiveBytesFrom, End, Holding
-----------------------------------------------------------------------------
(* What the kills and the compaction do, in terms of one slot *)

(* Locals of a call are also those of a call that may be dead. *)
LEMMA CallTypes ==
  /\ Idle \in CrashCalls /\ Idle.pc = "idle"
  /\ call \in CrashCalls /\ call.pc # "dead" => call \in Calls
  /\ call' \in Calls => call' \in CrashCalls /\ call'.pc # "dead"
<1>1. Idle \in CrashCalls /\ Idle.pc = "idle"
  BY IdleType DEF Calls, CrashCalls
<1>2. call \in CrashCalls /\ call.pc # "dead" => call \in Calls
  BY DEF Calls, CrashCalls
<1>3. call' \in Calls => call' \in CrashCalls /\ call'.pc # "dead"
  BY DEF Calls, CrashCalls
<1> QED  BY <1>1, <1>2, <1>3

(* A process dies with its locals. *)
LEMMA DieDoes ==
  ASSUME call \in CrashCalls, Die
  PROVE  /\ call' \in CrashCalls /\ call'.pc = "dead"
         /\ call'.key = call.key /\ call'.value = call.value
BY DEF Die, CrashCalls

(* The bytes stay bytes after a memcpy of a payload or of its first part, *)
LEMMA StoredBytes ==
  ASSUME data \in [DataArea -> Byte], NEW b \in Seq(Byte), NEW dst \in Nat
  PROVE  Stored(b, dst) \in [DataArea -> Byte]
<1>1. ASSUME NEW a \in DataArea, a \in dst .. dst + Len(b) - 1
      PROVE  b[a - dst + 1] \in Byte
  <2>1. a - dst + 1 \in 1 .. Len(b)
    BY <1>1, SizesAssumption DEF DataArea
  <2> QED  BY <2>1
<1> QED  BY <1>1 DEF Stored

(* and after a memmove that reads inside the data area. *)
LEMMA MovedBytes ==
  ASSUME data \in [DataArea -> Byte], NEW src \in Nat, NEW dst \in Nat, NEW n \in Nat,
         DataStart <= src, src + n <= FileSize
  PROVE  Moved(src, dst, n) \in [DataArea -> Byte]
<1>1. ASSUME NEW a \in DataArea, a \in dst .. dst + n - 1
      PROVE  data[src + (a - dst)] \in Byte
  <2>1. src + (a - dst) \in DataArea
    BY <1>1, SizesAssumption DEF DataArea
  <2> QED  BY <2>1
<1> QED  BY <1>1 DEF Moved

(* One iteration of CompactCache's loop goes on to the next slot and moves the
   region of this one to write_offset, if it has any. *)
LEMMA CompactSlotDoes ==
  ASSUME CrashTypeOK, CompactSlot, NEW i, i = call.i
  PROVE  /\ call.pc = "compact" /\ i \in Slots
         /\ call' \in Calls /\ call'.pc = "compact" /\ call'.i = i + 1
         /\ call'.key = call.key /\ call'.value = call.value
         /\ call'.write_offset = call.write_offset + Held(entries[i])
         /\ entries' \in [Slots -> EntryHeaders]
         /\ \A s \in Slots : s # i => entries'[s] = entries[s]
         /\ \A s \in Slots : /\ entries'[s].is_used = entries[s].is_used
                             /\ entries'[s].key = entries[s].key
                             /\ entries'[s].length = entries[s].length
                             /\ entries'[s].checksum = entries[s].checksum
         /\ Held(entries[i]) > 0 => entries'[i].offset = call.write_offset
         /\ \/ data' = data
            \/ /\ Held(entries[i]) > 0
               /\ data' = Moved(entries[i].offset, call.write_offset, entries[i].length)
<1> DEFINE e == entries[i]
           w == call.write_offset
<1>1. /\ call.pc = "compact" /\ i \in Slots /\ w \in Nat
      /\ call.i + 1 \in 0 .. MaxEntries
  BY SizesAssumption DEF CompactSlot, CrashTypeOK, CrashCalls, Slots
<1>2. e \in EntryHeaders /\ e.length \in Nat /\ e.offset \in Nat
  BY <1>1 DEF CrashTypeOK, EntryHeaders
<1>3. call \in Calls
  BY <1>1, CallTypes DEF CrashTypeOK
<1>4. CASE ~(e.is_used /\ e.length > 0)
  <2>1. /\ call' = [call EXCEPT !.i = @ + 1] /\ UNCHANGED <<data, entries>>
    BY <1>4 DEF CompactSlot
  <2>2. Held(e) = 0
    BY <1>2, <1>4 DEF Held
  <2>3. /\ call' \in Calls /\ call'.pc = "compact" /\ call'.i = i + 1
        /\ call'.key = call.key /\ call'.value = call.value /\ call'.write_offset = w
    BY <1>1, <1>3, <2>1 DEF Calls
  <2> QED  BY <1>1, <2>1, <2>2, <2>3 DEF CrashTypeOK
<1>5. CASE e.is_used /\ e.length > 0
  <2>1. /\ call' = [call EXCEPT !.i = @ + 1, !.write_offset = w + e.length]
        /\ IF w # e.offset
             THEN /\ data' = Moved(e.offset, w, e.length)
                  /\ entries' = [entries EXCEPT ![i].offset = w]
             ELSE UNCHANGED <<data, entries>>
    BY <1>5 DEF CompactSlot
  <2>2. Held(e) = e.length /\ Held(e) > 0
    BY <1>5 DEF Held
  <2>3. /\ call' \in Calls /\ call'.pc = "compact" /\ call'.i = i + 1
        /\ call'.key = call.key /\ call'.value = call.value
        /\ call'.write_offset = w + e.length
    <3>1. i + 1 \in 0 .. MaxEntries /\ w + e.length \in Nat
      BY <1>1, <1>2
    <3>2. call' = [call EXCEPT !.i = i + 1, !.write_offset = w + e.length]
      BY <2>1
    <3> HIDE DEF w, e
    <3> QED  BY <1>1, <1>3, <3>1, <3>2 DEF Calls, w
  <2>4. CASE w = e.offset
    BY <1>1, <2>1, <2>2, <2>3, <2>4 DEF CrashTypeOK
  <2>5. CASE w # e.offset
    <3> DEFINE new == [e EXCEPT !.offset = w]
    <3>1. /\ new \in EntryHeaders
          /\ new.offset = w /\ new.length = e.length
          /\ new.key = e.key /\ new.checksum = e.checksum
      BY <1>1, <1>2 DEF EntryHeaders
    <3>2. new.is_used = e.is_used
      BY <1>2 DEF EntryHeaders
    <3>3. entries' = [entries EXCEPT ![i] = new]
      BY <2>1, <2>5
    <3> HIDE DEF new
    <3>4. /\ entries' \in [Slots -> EntryHeaders] /\ entries'[i] = new
          /\ \A s \in Slots : s # i => entries'[s] = entries[s]
      BY <1>1, <3>1, <3>3 DEF CrashTypeOK
    <3>5. ASSUME NEW s \in Slots
          PROVE  /\ entries'[s].is_used = entries[s].is_used
                 /\ entries'[s].key = entries[s].key
                 /\ entries'[s].length = entries[s].length
                 /\ entries'[s].checksum = entries[s].checksum
      <4>1. CASE s = i
        BY <3>1, <3>2, <3>4, <4>1
      <4>2. CASE s # i
        BY <3>4, <4>2
      <4> QED  BY <4>1, <4>2
    <3>6. data' = Moved(e.offset, w, e.length)
      BY <2>1, <2>5
    <3> QED  BY <1>1, <2>2, <2>3, <3>1, <3>4, <3>5, <3>6
  <2> QED  BY <2>4, <2>5
<1> QED  BY <1>4, <1>5

(* Put's fields, all of them or the first ones *)
LEMMA FillDoes ==
  ASSUME CrashTypeOK, CallInv, PutFillEntry \/ KilledInFill
  PROVE  /\ call.pc = "fill" /\ call.slot \in Slots
         /\ \E e \in EntryHeaders :
              /\ entries' = [entries EXCEPT ![call.slot] = e]
              /\ e.is_used => e.key = call.key
              /\ entries[call.slot].is_used => e.is_used
<1>1. /\ call.pc = "fill" /\ call.slot \in Slots
      /\ call.key \in Keys /\ call.value \in Values
      /\ entries[call.slot].is_used => entries[call.slot].key = call.key
  BY DEF PutFillEntry, KilledInFill, CallInv
<1>2. Len(call.value) \in Nat /\ next_offset \in Nat
  BY <1>1, PayloadLength DEF CrashTypeOK
<1>3. CASE PutFillEntry
  <2> DEFINE e == [key |-> call.key, length |-> Len(call.value),
                   offset |-> next_offset, is_used |-> TRUE,
                   checksum |-> CalculateChecksum(call.value)]
  <2>1. e \in EntryHeaders
    BY <1>1, <1>2 DEF EntryHeaders, Checksums
  <2>2. entries' = [entries EXCEPT ![call.slot] = e]
    BY <1>3 DEF PutFillEntry
  <2> QED  BY <1>1, <2>1, <2>2
<1>4. CASE KilledInFill
  <2> DEFINE old == entries[call.slot]
             e(n) == [key      |-> Pick(n >= 1, call.key, old.key),
                      length   |-> Pick(n >= 2, Len(call.value), old.length),
                      offset   |-> Pick(n >= 3, next_offset, old.offset),
                      is_used  |-> Pick(n = 4, TRUE, old.is_used),
                      checksum |-> old.checksum]
  <2>1. PICK n \in 0 .. 4 : entries' = [entries EXCEPT ![call.slot] = e(n)]
    BY <1>1, <1>4 DEF KilledInFill, CrashTypeOK
  <2>2. old \in EntryHeaders
    BY <1>1 DEF CrashTypeOK
  <2>3. e(n).is_used \in BOOLEAN
    BY <2>2 DEF EntryHeaders, Pick
  <2>4. /\ e(n).key \in Keys \cup {NoKey} /\ e(n).checksum \in Checksums
        /\ e(n).length \in Nat /\ e(n).offset \in Nat
    BY <1>1, <1>2, <2>2 DEF EntryHeaders, Pick
  <2>5. e(n) \in EntryHeaders
    BY <2>3, <2>4 DEF EntryHeaders
  <2>6. old.is_used => e(n).is_used
    BY DEF Pick
  <2>7. e(n).is_used => e(n).key = call.key
    BY <1>1, <2>1 DEF Pick
  <2> QED  BY <1>1, <2>1, <2>5, <2>6, <2>7
<1> QED  BY <1>3, <1>4

(* Remove's, all of them or the first ones *)
LEMMA ReleaseDoes ==
  ASSUME CrashTypeOK, NEW k \in Keys, Remove(k) \/ KilledInRemove(k)
  PROVE  /\ call = Idle /\ call' = Idle /\ initialized
         /\ FindEntry(k) # NoSlot /\ FindEntry(k) \in Used
         /\ written' = [written EXCEPT ![k] = Nothing]
         /\ UNCHANGED <<stamped, next_offset, data>>
         /\ \E e \in EntryHeaders :
              entries' = [entries EXCEPT ![FindEntry(k)] = e] /\ ~e.is_used
<1>1. /\ call = Idle /\ call' = Idle /\ initialized /\ FindEntry(k) # NoSlot
      /\ written' = [written EXCEPT ![k] = Nothing]
      /\ UNCHANGED <<stamped, next_offset, data>>
  BY DEF Remove, KilledInRemove, Ready
<1>2. PICK r \in Used : r = FindEntry(k)
  BY <1>1, FindEntryFinds DEF Used
<1>3. CASE Remove(k)
  <2>1. EmptyEntry \in EntryHeaders /\ ~EmptyEntry.is_used
    BY DEF EmptyEntry, EntryHeaders, Checksums
  <2> QED  BY <1>1, <1>2, <1>3, <2>1 DEF Remove
<1>4. CASE KilledInRemove(k)
  <2> DEFINE old == entries[r]
             e(n) == [key      |-> Pick(n >= 1, NoKey, old.key),
                      length   |-> Pick(n >= 2, 0, old.length),
                      offset   |-> Pick(n >= 3, 0, old.offset),
                      is_used  |-> FALSE,
                      checksum |-> Pick(n = 4, 0, old.checksum)]
  <2>1. PICK n \in 0 .. 4 : entries' = [entries EXCEPT ![r] = e(n)]
    BY <1>2, <1>4 DEF KilledInRemove, CrashTypeOK, Used
  <2>2. old \in EntryHeaders
    BY <1>2 DEF CrashTypeOK, Used
  <2>3. e(n) \in EntryHeaders
    BY <2>2 DEF EntryHeaders, Pick, Checksums
  <2> QED  BY <1>1, <1>2, <2>1, <2>3
<1> QED  BY <1>3, <1>4

(* InitializeCache, cut short: some slots are emptied, the rest is as it was. *)
LEMMA InitializeDoes ==
  ASSUME CrashTypeOK, CallInv, KilledInInitialize
  PROVE  /\ call = Idle /\ call' = Idle
         /\ stamped' = TRUE /\ initialized' = FALSE /\ data' = data
         /\ entry_count' \in Int /\ next_offset' \in Nat
         /\ entries' \in [Slots -> EntryHeaders]
         /\ Used' \subseteq Used
         /\ \A s \in Used' : entries'[s] = entries[s]
         /\ written' \in [Keys -> Values \cup {Nothing}]
<1>1. /\ call' = call /\ stamped' = TRUE /\ initialized' = FALSE /\ data' = data
      /\ call = Idle
  BY DEF KilledInInitialize, Ready, CallInv
<1>2. EmptyEntry \in EntryHeaders /\ ~EmptyEntry.is_used
  BY DEF EmptyEntry, EntryHeaders, Checksums
<1>3. PICK stores \in 1 .. 3, cleared \in 0 .. MaxEntries :
        /\ entry_count' = Pick(stores >= 2, 0, entry_count)
        /\ next_offset' = Pick(stores = 3, DataStart, next_offset)
        /\ entries' = [s \in Slots |-> Pick(s < cleared, EmptyEntry, entries[s])]
  BY DEF KilledInInitialize
<1>4. entry_count' \in Int /\ next_offset' \in Nat
  BY <1>3, SizesAssumption DEF CrashTypeOK, Pick
<1>5. \A s \in Slots : entries'[s] = EmptyEntry \/ entries'[s] = entries[s]
  BY <1>3 DEF Pick
<1>6. entries' \in [Slots -> EntryHeaders]
  BY <1>2, <1>3 DEF CrashTypeOK, Pick
<1>7. Used' \subseteq Used /\ \A s \in Used' : entries'[s] = entries[s]
  BY <1>2, <1>5 DEF Used
<1>8. written' \in [Keys -> Values \cup {Nothing}]
  BY DEF KilledInInitialize, Pick, CrashTypeOK
<1> QED  BY <1>1, <1>4, <1>6, <1>7, <1>8
-----------------------------------------------------------------------------
(* Basics is preserved by every action and every kill. *)

(* Between calls there is little to know. *)
LEMMA IdleCall ==
  ASSUME call' = Idle
  PROVE  /\ call' \in CrashCalls /\ call'.pc = "idle" /\ CallInv'
         /\ Claimed' = 0 /\ Unmoved' = 0 /\ PackInv' /\ CopyInv'
         /\ \A s : ~Filling(s)'
<1>1. call' \in CrashCalls /\ call'.pc = "idle"
  BY CallTypes
<1> QED  BY <1>1 DEF CallInv, Claimed, Unmoved, PackInv, CopyInv, Filling

(* A step that leaves the table alone keeps the keys unique. *)
LEMMA SameTableBasics ==
  ASSUME Basics, UNCHANGED <<entries, stamped>>,
         written' = written \/ stamped, initialized' => initialized
  PROVE  StampedFirst' /\ UniqueKeys' /\ entries' \in [Slots -> EntryHeaders]
<1>1. Used' = Used
  BY SameTable
<1> QED  BY <1>1 DEF Basics, StampedFirst, UniqueKeys, CrashTypeOK

(* The first call of a process, and Clear, leave an orderly file. *)
LEMMA EnsureInitializedBasics ==
  ASSUME Basics, EnsureInitialized, UNCHANGED kills
  PROVE  Basics'
<1>1. /\ ~initialized /\ initialized' = TRUE /\ call' = call /\ call = Idle
  BY DEF EnsureInitialized, Basics, CallInv
<1>2. CASE stamped
  <2>1. UNCHANGED <<file, written>>
    BY <1>2 DEF EnsureInitialized
  <2>2. Used' = Used
    BY <2>1, SameTable DEF file
  <2>3. CrashTypeOK'
    BY <1>1, <2>1 DEF file, Basics, CrashTypeOK
  <2> QED  BY <1>1, <1>2, <2>1, <2>2, <2>3, IdleCall DEF file, Basics, StampedFirst, UniqueKeys
<1>3. CASE ~stamped
  <2>1. InitializeCache
    BY <1>3 DEF EnsureInitialized
  <2>2. Used' = {} /\ entries' \in [Slots -> EntryHeaders]
    BY <2>1, EmptyTable DEF InitializeCache, Used
  <2>3. CrashTypeOK'
    BY <1>1, <2>1, <2>2, SizesAssumption DEF InitializeCache, Basics, CrashTypeOK
  <2> QED  BY <1>1, <2>1, <2>2, <2>3, IdleCall
           DEF InitializeCache, Basics, StampedFirst, UniqueKeys
<1> QED  BY <1>2, <1>3

LEMMA ClearBasics ==
  ASSUME Basics, Clear, UNCHANGED kills
  PROVE  Basics'
<1>1. /\ InitializeCache /\ initialized' = initialized /\ call' = Idle
  BY DEF Clear, Ready
<1>2. Used' = {} /\ entries' \in [Slots -> EntryHeaders]
  BY <1>1, EmptyTable DEF InitializeCache, Used
<1>3. CrashTypeOK'
  BY <1>1, <1>2, IdleCall, SizesAssumption DEF InitializeCache, Basics, CrashTypeOK
<1> QED  BY <1>1, <1>2, <1>3, IdleCall DEF InitializeCache, Basics, StampedFirst, UniqueKeys

(* The next process starts: after a Restart or a death inside a Put. *)
LEMMA RestartBasics ==
  ASSUME Basics, Restart \/ Recover, UNCHANGED kills
  PROVE  Basics'
<1>1. /\ UNCHANGED <<file, written>> /\ initialized' = FALSE /\ call' = Idle
  BY DEF Restart, Recover, Ready, Return
<1>2. StampedFirst' /\ UniqueKeys'
  BY <1>1, SameTableBasics DEF file
<1>3. CrashTypeOK'
  BY <1>1, IdleCall DEF file, Basics, CrashTypeOK
<1> QED  BY <1>1, <1>2, <1>3, IdleCall DEF Basics

LEMMA PutStartBasics ==
  ASSUME Basics, NEW k \in Keys, NEW v \in Values, PutStart(k, v), UNCHANGED kills
  PROVE  Basics'
<1>1. /\ UNCHANGED <<file, initialized, written>> /\ initialized
      /\ call' = [pc |-> IF Len(v) > AvailableSpace THEN "compact" ELSE "find",
                  key |-> k, value |-> v, slot |-> NoSlot, i |-> 0,
                  write_offset |-> DataStart]
  BY DEF PutStart, Ready, Idle
<1>2. call' \in CrashCalls
  BY <1>1, SizesAssumption DEF CrashCalls
<1>3. next_offset \in Nat /\ Len(v) \in Nat
  BY PayloadLength DEF Basics, CrashTypeOK
<1>4. CallInv'
  BY <1>1, <1>3, SizesAssumption DEF CallInv, AvailableSpace, file
<1>5. StampedFirst' /\ UniqueKeys'
  BY <1>1, SameTableBasics DEF file
<1>6. CrashTypeOK'
  BY <1>1, <1>2 DEF file, Basics, CrashTypeOK
<1> QED  BY <1>4, <1>5, <1>6 DEF Basics

(* What a kill may have left of the table stays inside the data area while it is
   compacted, since the behaviour would otherwise have ended. *)
LEMMA CompactSlotBasics ==
  ASSUME Basics, AccessesInside, CompactSlot, UNCHANGED kills
  PROVE  Basics'
<1>0. PICK i : i = call.i
  OBVIOUS
<1>1. /\ call.pc = "compact" /\ i \in Slots
      /\ call' \in Calls /\ call'.pc = "compact"
      /\ call'.key = call.key /\ call'.value = call.value
      /\ entries' \in [Slots -> EntryHeaders]
      /\ \A s \in Slots : /\ entries'[s].is_used = entries[s].is_used
                          /\ entries'[s].key = entries[s].key
      /\ \/ data' = data
         \/ /\ Held(entries[i]) > 0
            /\ data' = Moved(entries[i].offset, call.write_offset, entries[i].length)
  BY <1>0, CompactSlotDoes DEF Basics
<1>2. UNCHANGED <<stamped, entry_count, next_offset, initialized, written>>
  BY DEF CompactSlot
<1>3. data' \in [DataArea -> Byte]
  <2>1. CASE data' = data
    BY <2>1 DEF Basics, CrashTypeOK
  <2>2. CASE data' # data
    <3>1. /\ entries[i].is_used /\ call.i < MaxEntries
          /\ data' = Moved(entries[i].offset, call.write_offset, entries[i].length)
      BY <1>1, <2>2 DEF Held, CompactSlot
    <3>2. /\ DataStart <= entries[i].offset
          /\ entries[i].offset + entries[i].length <= FileSize
      BY <1>0, <1>1, <3>1, SizesAssumption
      DEF AccessesInside, InDataArea, Basics, CrashTypeOK, EntryHeaders
    <3>3. /\ entries[i].offset \in Nat /\ entries[i].length \in Nat
          /\ call.write_offset \in Nat
      BY <1>1 DEF Basics, CrashTypeOK, EntryHeaders, CrashCalls
    <3> QED  BY <3>1, <3>2, <3>3, MovedBytes DEF Basics, CrashTypeOK
  <2> QED  BY <2>1, <2>2
<1>4. Used' = Used
  BY <1>1 DEF Used
<1>5. CrashTypeOK'
  BY <1>1, <1>2, <1>3, CallTypes DEF Basics, CrashTypeOK
<1>6. CallInv'
  BY <1>1, <1>2 DEF Basics, CallInv
<1>7. StampedFirst' /\ UniqueKeys'
  BY <1>1, <1>2, <1>4 DEF Basics, StampedFirst, UniqueKeys, Used
<1> QED  BY <1>5, <1>6, <1>7 DEF Basics

LEMMA CompactEndBasics ==
  ASSUME Basics, CompactEnd, UNCHANGED kills
  PROVE  Basics'
<1>1. /\ call.pc = "compact" /\ next_offset' = call.write_offset
      /\ UNCHANGED <<stamped, entry_count, entries, data, initialized, written>>
  BY DEF CompactEnd
<1>2. call \in Calls /\ call.write_offset \in Nat
  BY <1>1, CallTypes DEF Basics, CrashTypeOK, CrashCalls
<1>3. StampedFirst' /\ UniqueKeys'
  BY <1>1, SameTableBasics
<1>4. CASE call' = Idle
  <2>1. CrashTypeOK'
    BY <1>1, <1>2, <1>4, IdleCall DEF Basics, CrashTypeOK
  <2> QED  BY <1>3, <1>4, <2>1, IdleCall DEF Basics
<1>5. CASE call' # Idle
  <2>1. call' = [call EXCEPT !.pc = "find", !.i = 0] /\ ~(Len(call.value) > AvailableSpace')
    BY <1>5 DEF CompactEnd, Return
  <2>2. /\ call' \in Calls /\ call'.pc = "find"
        /\ call'.key = call.key /\ call'.value = call.value
    <3>1. 0 \in 0 .. MaxEntries
      BY SizesAssumption
    <3> QED  BY <1>2, <2>1, <3>1 DEF Calls
  <2>3. call.value \in Values /\ Len(call.value) \in Nat
    BY <1>1, PayloadLength DEF Basics, CallInv
  <2>4. CallInv'
    BY <1>1, <1>2, <2>1, <2>2, <2>3, SizesAssumption DEF Basics, CallInv, AvailableSpace
  <2>5. CrashTypeOK'
    BY <1>1, <1>2, <2>2, CallTypes DEF Basics, CrashTypeOK
  <2> QED  BY <1>3, <2>4, <2>5 DEF Basics
<1> QED  BY <1>4, <1>5

(* The slot search *)
LEMMA PutSlotBasics ==
  ASSUME Basics, PutReuseSlot \/ PutClaimSlot, UNCHANGED kills
  PROVE  Basics'
<1>1. PICK r \in Slots :
        /\ IF entries[r].is_used THEN entries[r].key = call.key
                                 ELSE Holding(call.key) = {}
        /\ call' = [call EXCEPT !.pc = "fill", !.slot = r]
  <2>1. CASE PutReuseSlot
    BY <2>1, FindEntryFinds DEF PutReuseSlot
  <2>2. CASE PutClaimSlot
    <3>1. FindFreeEntry \in Slots /\ ~entries[FindFreeEntry].is_used
      BY <2>2, FindFreeEntryFinds DEF PutClaimSlot, Used
    <3>2. Holding(call.key) = {}
      BY <2>2, FindEntryFinds DEF PutClaimSlot
    <3> QED  BY <2>2, <3>1, <3>2 DEF PutClaimSlot
  <2> QED  BY <2>1, <2>2
<1>2. /\ call.pc = "find"
      /\ UNCHANGED <<stamped, next_offset, entries, data, initialized, written>>
  BY DEF PutReuseSlot, PutClaimSlot, file
<1>3. call \in Calls /\ entry_count' \in Int
  BY <1>2, CallTypes DEF PutReuseSlot, PutClaimSlot, file, Basics, CrashTypeOK
<1>4. /\ call' \in Calls /\ call'.pc = "fill" /\ call'.slot = r
      /\ call'.key = call.key /\ call'.value = call.value
  BY <1>1, <1>3 DEF Calls
<1>5. StampedFirst' /\ UniqueKeys'
  BY <1>2, SameTableBasics
<1>6. CallInv'
  BY <1>1, <1>2, <1>4, SameTable DEF Basics, CallInv
<1>7. CrashTypeOK'
  BY <1>1, <1>2, <1>3, <1>4, CallTypes DEF Basics, CrashTypeOK
<1> QED  BY <1>5, <1>6, <1>7 DEF Basics

LEMMA PutNoSlotBasics ==
  ASSUME Basics, PutNoSlot, UNCHANGED kills
  PROVE  Basics'
<1>1. UNCHANGED <<file, initialized, written>> /\ call' = Idle
  BY DEF PutNoSlot, Return
<1>2. StampedFirst' /\ UniqueKeys'
  BY <1>1, SameTableBasics DEF file
<1>3. CrashTypeOK'
  BY <1>1, IdleCall DEF file, Basics, CrashTypeOK
<1> QED  BY <1>1, <1>2, <1>3, IdleCall DEF Basics

(* However far the slot's fields were written, it is the only slot of the key. *)
LEMMA FillBasics ==
  ASSUME Basics,
         (PutFillEntry /\ UNCHANGED kills) \/ (KilledInFill /\ kills' \in [Functions -> Nat])
  PROVE  Basics'
<1>1. /\ call.pc = "fill" /\ call.slot \in Slots
      /\ \E e \in EntryHeaders :
           /\ entries' = [entries EXCEPT ![call.slot] = e]
           /\ e.is_used => e.key = call.key
           /\ entries[call.slot].is_used => e.is_used
  BY FillDoes DEF Basics
<1>2. PICK e \in EntryHeaders :
        /\ entries' = [entries EXCEPT ![call.slot] = e]
        /\ e.is_used => e.key = call.key
        /\ entries[call.slot].is_used => e.is_used
  BY <1>1
<1>3. /\ entries' \in [Slots -> EntryHeaders] /\ entries'[call.slot] = e
      /\ \A s \in Slots : s # call.slot => entries'[s] = entries[s]
      /\ Used' = IF e.is_used THEN Used \cup {call.slot} ELSE Used \ {call.slot}
  BY <1>1, <1>2, OneSlot DEF Basics, CrashTypeOK
<1>4. /\ UNCHANGED <<stamped, entry_count, next_offset, data, initialized, written>>
      /\ call.key \in Keys /\ call.value \in Values /\ initialized /\ stamped
      /\ next_offset + Len(call.value) <= FileSize
  BY <1>1 DEF PutFillEntry, KilledInFill, Basics, CallInv, StampedFirst
<1>5. UniqueKeys'
  <2>1. \A s \in Used : s \in Slots /\ (s # call.slot => entries[s].key # call.key)
    BY <1>1 DEF Basics, CallInv, UniqueKeys, Holding, Used
  <2>2. \A s \in Used' : s \in Slots /\ (s # call.slot => s \in Used)
    BY <1>1, <1>3, <2>1
  <2>3. call.slot \in Used' => entries'[call.slot].key = call.key
    BY <1>2, <1>3 DEF Used
  <2> QED  BY <1>3, <2>1, <2>2, <2>3 DEF Basics, UniqueKeys
<1>6. StampedFirst'
  BY <1>4 DEF StampedFirst
<1>7. CASE PutFillEntry /\ UNCHANGED kills
  <2>1. call \in Calls /\ call' = [call EXCEPT !.pc = "copy"]
    BY <1>1, <1>7, CallTypes DEF PutFillEntry, Basics, CrashTypeOK
  <2>2. /\ call' \in Calls /\ call'.pc = "copy" /\ call'.slot = call.slot
        /\ call'.key = call.key /\ call'.value = call.value
    BY <2>1 DEF Calls
  <2>3. entries'[call.slot] = [key |-> call.key, length |-> Len(call.value),
                               offset |-> next_offset, is_used |-> TRUE,
                               checksum |-> CalculateChecksum(call.value)]
    BY <1>1, <1>7 DEF PutFillEntry, Basics, CrashTypeOK
  <2>4. CallInv'
    BY <1>1, <1>4, <2>2, <2>3 DEF CallInv
  <2>5. CrashTypeOK'
    BY <1>3, <1>4, <1>7, <2>2, CallTypes DEF Basics, CrashTypeOK
  <2> QED  BY <1>5, <1>6, <2>4, <2>5 DEF Basics
<1>8. CASE KilledInFill /\ kills' \in [Functions -> Nat]
  <2>1. /\ call' \in CrashCalls /\ call'.pc = "dead"
        /\ call'.key = call.key /\ call'.value = call.value
    BY <1>8, DieDoes DEF KilledInFill, Basics, CrashTypeOK
  <2>2. CallInv'
    BY <1>4, <2>1 DEF CallInv
  <2>3. CrashTypeOK'
    BY <1>3, <1>4, <1>8, <2>1 DEF Basics, CrashTypeOK
  <2> QED  BY <1>5, <1>6, <2>2, <2>3 DEF Basics
<1> QED  BY <1>7, <1>8

(* The memcpy, all of it or its first bytes *)
LEMMA CopyBasics ==
  ASSUME Basics,
         (PutCopy /\ UNCHANGED kills) \/ (KilledInCopy /\ kills' \in [Functions -> Nat])
  PROVE  Basics'
<1>1. /\ call.pc = "copy"
      /\ UNCHANGED <<stamped, entry_count, next_offset, entries, initialized, written>>
      /\ call.key \in Keys /\ call.value \in Values /\ initialized
      /\ call.slot \in Slots /\ entries[call.slot].offset \in Nat
  BY DEF PutCopy, KilledInCopy, Basics, CallInv, CrashTypeOK, EntryHeaders
<1>2. call.value \in Seq(Byte)
  BY <1>1, ValuesAssumption
<1>3. data' \in [DataArea -> Byte]
  <2>1. CASE PutCopy
    BY <1>1, <1>2, <2>1, StoredBytes DEF PutCopy, Basics, CrashTypeOK
  <2>2. CASE KilledInCopy
    <3>1. PICK n \in 0 .. Len(call.value) :
            data' = Stored(SubSeq(call.value, 1, n), entries[call.slot].offset)
      BY <2>2 DEF KilledInCopy
    <3>2. SubSeq(call.value, 1, n) \in Seq(Byte)
      BY <1>2
    <3> QED  BY <1>1, <3>1, <3>2, StoredBytes DEF Basics, CrashTypeOK
  <2> QED  BY <2>1, <2>2
<1>4. StampedFirst' /\ UniqueKeys'
  BY <1>1, SameTableBasics
<1>5. CASE PutCopy /\ UNCHANGED kills
  <2>1. call \in Calls /\ call' = [call EXCEPT !.pc = "advance"]
    BY <1>1, <1>5, CallTypes DEF PutCopy, Basics, CrashTypeOK
  <2>2. /\ call' \in Calls /\ call'.pc = "advance" /\ call'.slot = call.slot
        /\ call'.key = call.key /\ call'.value = call.value
    BY <2>1 DEF Calls
  <2>3. CallInv'
    BY <1>1, <2>2 DEF Basics, CallInv
  <2>4. CrashTypeOK'
    BY <1>1, <1>3, <1>5, <2>2, CallTypes DEF Basics, CrashTypeOK
  <2> QED  BY <1>4, <2>3, <2>4 DEF Basics
<1>6. CASE KilledInCopy /\ kills' \in [Functions -> Nat]
  <2>1. /\ call' \in CrashCalls /\ call'.pc = "dead"
        /\ call'.key = call.key /\ call'.value = call.value
    BY <1>6, DieDoes DEF KilledInCopy, Basics, CrashTypeOK
  <2>2. CallInv'
    BY <1>1, <2>1 DEF CallInv
  <2>3. CrashTypeOK'
    BY <1>1, <1>3, <1>6, <2>1 DEF Basics, CrashTypeOK
  <2> QED  BY <1>4, <2>2, <2>3 DEF Basics
<1> QED  BY <1>5, <1>6

LEMMA PutAdvanceBasics ==
  ASSUME Basics, PutAdvance, UNCHANGED kills
  PROVE  Basics'
<1>1. /\ call.pc = "advance" /\ call' = Idle
      /\ UNCHANGED <<stamped, entry_count, entries, data, initialized>>
      /\ next_offset' = next_offset + Len(call.value)
      /\ written' = [written EXCEPT ![call.key] = call.value]
  BY DEF PutAdvance, Return
<1>2. /\ call.key \in Keys /\ call.value \in Values /\ stamped
      /\ next_offset' \in Nat
  BY <1>1, PayloadLength DEF Basics, CallInv, StampedFirst, CrashTypeOK
<1>3. StampedFirst' /\ UniqueKeys'
  BY <1>1, <1>2, SameTableBasics
<1>4. CrashTypeOK'
  BY <1>1, <1>2, IdleCall DEF Basics, CrashTypeOK
<1> QED  BY <1>1, <1>3, <1>4, IdleCall DEF Basics

(* A Remove, or as much of it as was done *)
LEMMA ReleaseBasics ==
  ASSUME Basics, NEW k \in Keys,
         \/ Remove(k) /\ UNCHANGED kills
         \/ KilledInRemove(k) /\ kills' \in [Functions -> Nat]
  PROVE  Basics'
<1>1. /\ call' = Idle /\ initialized
      /\ FindEntry(k) \in Used
      /\ written' = [written EXCEPT ![k] = Nothing]
      /\ UNCHANGED <<stamped, next_offset, data>>
      /\ \E e \in EntryHeaders :
           entries' = [entries EXCEPT ![FindEntry(k)] = e] /\ ~e.is_used
  BY ReleaseDoes DEF Basics
<1>2. /\ entries' \in [Slots -> EntryHeaders]
      /\ \A s \in Slots : s # FindEntry(k) => entries'[s] = entries[s]
      /\ Used' = Used \ {FindEntry(k)}
  BY <1>1, OneSlot DEF Basics, CrashTypeOK, Used
<1>3. UniqueKeys' /\ StampedFirst'
  BY <1>1, <1>2 DEF Basics, UniqueKeys, StampedFirst, Used
<1>4. entry_count' \in Int /\ initialized' \in BOOLEAN /\ kills' \in [Functions -> Nat]
  <2>1. CASE Remove(k) /\ UNCHANGED kills
    BY <2>1 DEF Remove, Basics, CrashTypeOK
  <2>2. CASE KilledInRemove(k) /\ kills' \in [Functions -> Nat]
    BY <2>2 DEF KilledInRemove, Basics, CrashTypeOK
  <2> QED  BY <2>1, <2>2
<1>5. CrashTypeOK'
  BY <1>1, <1>2, <1>4, IdleCall DEF Basics, CrashTypeOK, Nothing
<1> QED  BY <1>1, <1>3, <1>5, IdleCall DEF Basics

LEMMA KilledInInitializeBasics ==
  ASSUME Basics, KilledInInitialize, kills' \in [Functions -> Nat]
  PROVE  Basics'
<1>1. /\ call' = Idle
      /\ stamped' = TRUE /\ initialized' = FALSE /\ data' = data
      /\ entry_count' \in Int /\ next_offset' \in Nat
      /\ entries' \in [Slots -> EntryHeaders]
      /\ Used' \subseteq Used
      /\ \A s \in Used' : entries'[s] = entries[s]
      /\ written' \in [Keys -> Values \cup {Nothing}]
  BY InitializeDoes DEF Basics
<1>2. CrashTypeOK'
  BY <1>1, IdleCall DEF Basics, CrashTypeOK
<1>3. UniqueKeys' /\ StampedFirst'
  BY <1>1 DEF Basics, UniqueKeys, StampedFirst
<1> QED  BY <1>1, <1>2, <1>3, IdleCall DEF Basics

(* A memmove cut short moves bytes of the data area too. *)
LEMMA KilledInCompactBasics ==
  ASSUME Basics, AccessesInside, KilledInCompact, kills' \in [Functions -> Nat]
  PROVE  Basics'
<1>1. /\ call.pc \in {"compact", "find"} /\ Die
      /\ UNCHANGED <<stamped, entry_count, next_offset, entries, initialized, written>>
  BY DEF KilledInCompact
<1>2. /\ call' \in CrashCalls /\ call'.pc = "dead"
      /\ call'.key = call.key /\ call'.value = call.value
  BY <1>1, DieDoes DEF Basics, CrashTypeOK
<1>3. data' \in [DataArea -> Byte]
  <2>1. CASE data' = data
    BY <2>1 DEF Basics, CrashTypeOK
  <2>2. CASE data' # data
    <3>1. call.pc = "compact" /\ call.i < MaxEntries /\ entries[call.i].is_used
      BY <2>2 DEF KilledInCompact
    <3>2. PICK e \in EntryHeaders : e = entries[call.i]
      BY <3>1, SizesAssumption DEF Basics, CrashTypeOK, CrashCalls, Slots
    <3>3. PICK from \in 0 .. e.length, n \in 0 .. e.length :
            /\ from + n <= e.length
            /\ data' = Moved(e.offset + from, call.write_offset + from, n)
      BY <3>1, <3>2 DEF KilledInCompact
    <3>4. /\ DataStart <= e.offset /\ e.offset + e.length <= FileSize
          /\ e.offset \in Nat /\ e.length \in Nat /\ call.write_offset \in Nat
      BY <3>1, <3>2, SizesAssumption
      DEF AccessesInside, InDataArea, EntryHeaders, Basics, CrashTypeOK, CrashCalls
    <3> QED  BY <3>3, <3>4, SizesAssumption, MovedBytes DEF Basics, CrashTypeOK
  <2> QED  BY <2>1, <2>2
<1>4. StampedFirst' /\ UniqueKeys'
  BY <1>1, SameTableBasics
<1>5. CallInv'
  BY <1>1, <1>2 DEF Basics, CallInv
<1>6. CrashTypeOK'
  BY <1>1, <1>2, <1>3 DEF Basics, CrashTypeOK
<1> QED  BY <1>4, <1>5, <1>6 DEF Basics
-----------------------------------------------------------------------------
(* The kills are counted. *)
LEMMA KillCounts ==
  ASSUME kills \in [Functions -> Nat], NEW f, KillIn(f)
  PROVE  /\ f \in Functions /\ kills' \in [Functions -> Nat]
         /\ kills'[f] = kills[f] + 1
         /\ \A g \in Functions : g # f => kills'[g] = kills[g]
<1>1. f \in Windows /\ kills' = [kills EXCEPT ![f] = @ + 1]
  BY DEF KillIn
<1>2. f \in Functions
  BY <1>1, CrashAssumption
<1> QED  BY <1>1, <1>2

(* A step of the cache, or of a process that ends or starts *)
LEMMA NextBasics ==
  ASSUME Basics, [CrashNext]_crashVars
  PROVE  Basics'
<1>1. CASE Next /\ AccessesInside /\ UNCHANGED kills
  <2>1. CASE EnsureInitialized
    BY <1>1, <2>1, EnsureInitializedBasics
  <2>2. CASE \E k \in Keys, v \in Values : PutStart(k, v)
    BY <1>1, <2>2, PutStartBasics
  <2>3. CASE CompactSlot \/ CompactEnd
    BY <1>1, <2>3, CompactSlotBasics, CompactEndBasics
  <2>4. CASE PutReuseSlot \/ PutClaimSlot \/ PutNoSlot
    BY <1>1, <2>4, PutSlotBasics, PutNoSlotBasics
  <2>5. CASE PutFillEntry
    BY <1>1, <2>5, FillBasics
  <2>6. CASE PutCopy
    BY <1>1, <2>6, CopyBasics
  <2>7. CASE PutAdvance
    BY <1>1, <2>7, PutAdvanceBasics
  <2>8. CASE \E k \in Keys : Remove(k)
    <3>1. PICK k \in Keys : Remove(k)
      BY <2>8
    <3> QED  BY <1>1, <3>1, ReleaseBasics
  <2>9. CASE Clear \/ Restart
    BY <1>1, <2>9, ClearBasics, RestartBasics
  <2> QED  BY <1>1, <2>1, <2>2, <2>3, <2>4, <2>5, <2>6, <2>7, <2>8, <2>9 DEF Next
<1>2. ASSUME NEW f, KillIn(f) PROVE kills' \in [Functions -> Nat]
  BY <1>2, KillCounts DEF Basics, CrashTypeOK
<1>3. CASE KilledInInitialize
  BY <1>2, <1>3, KilledInInitializeBasics DEF KilledInInitialize
<1>4. CASE KilledInFill
  BY <1>2, <1>4, FillBasics DEF KilledInFill
<1>5. CASE KilledInCopy
  BY <1>2, <1>5, CopyBasics DEF KilledInCopy
<1>6. CASE KilledInCompact /\ AccessesInside
  BY <1>2, <1>6, KilledInCompactBasics DEF KilledInCompact
<1>7. CASE \E k \in Keys : KilledInRemove(k)
  BY <1>2, <1>7, ReleaseBasics DEF KilledInRemove
<1>8. CASE Recover
  BY <1>8, RestartBasics DEF Recover
<1>9. CASE UNCHANGED crashVars
  <2>1. UNCHANGED <<vars, file, stamped, entry_count, next_offset, entries, data,
                    initialized, call, written, kills>>
    BY <1>9 DEF crashVars, vars, file
  <2>2. CrashTypeOK'
    BY <2>1 DEF Basics, CrashTypeOK
  <2>3. StampedFirst' /\ UniqueKeys'
    BY <2>1, SameTable DEF Basics, StampedFirst, UniqueKeys
  <2>4. CallInv'
    BY <2>1, SameTable DEF Basics, CallInv
  <2> QED  BY <2>2, <2>3, <2>4 DEF Basics
<1> QED  BY <1>1, <1>3, <1>4, <1>5, <1>6, <1>7, <1>8, <1>9 DEF CrashNext
-----------------------------------------------------------------------------
(* How far entry_count runs ahead of the table *)

LEMMA DriftType ==
  ASSUME Basics
  PROVE  Cardinality(Used) \in Nat /\ Claimed \in {0, 1} /\ Drift \in Int
<1>1. Cardinality(Used) \in Nat
  BY UsedIsFinite, FS_CardinalityType
<1> QED  BY <1>1 DEF Basics, CrashTypeOK, Claimed, Drift

(* Nothing changes as long as the same slots are used. *)
LEMMA SameUsedDrift ==
  ASSUME Used' = Used, entry_count' = entry_count, Claimed' = Claimed
  PROVE  Drift' = Drift
<1>1. Cardinality(Used)' = Cardinality(Used)
  BY Zenon
<1> QED  BY <1>1 DEF Drift

(* An entry is counted before its slot is marked, and a Put that is killed in
   between leaves it counted. *)
LEMMA FillDrift ==
  ASSUME Basics, Basics', PutFillEntry \/ KilledInFill
  PROVE  Drift' = Drift \/ (KilledInFill /\ Drift' = Drift + 1)
<1>1. PICK e \in EntryHeaders :
        /\ entries' = [entries EXCEPT ![call.slot] = e]
        /\ entries[call.slot].is_used => e.is_used
  BY FillDoes DEF Basics
<1>2. /\ call.pc = "fill" /\ call.slot \in Slots /\ entry_count' = entry_count
  BY FillDoes DEF PutFillEntry, KilledInFill, Basics
<1>3. call'.pc # "fill"
  BY DieDoes DEF PutFillEntry, KilledInFill, Basics, CrashTypeOK, CrashCalls
<1>4. Used' = IF e.is_used THEN Used \cup {call.slot} ELSE Used \ {call.slot}
  BY <1>1, <1>2, OneSlot DEF Basics, CrashTypeOK
<1>5. e.is_used \in BOOLEAN /\ (call.slot \in Used => e.is_used)
  BY <1>1 DEF EntryHeaders, Used
<1>6. Cardinality(Used') = Cardinality(Used)
        + (IF e.is_used /\ call.slot \notin Used THEN 1 ELSE 0)
  BY <1>4, <1>5, OneSlotCount
<1>7. PutFillEntry => e.is_used
  <2> SUFFICES ASSUME PutFillEntry PROVE e.is_used
    OBVIOUS
  <2>1. entries'[call.slot].is_used = TRUE
    BY <1>2 DEF PutFillEntry, Basics, CrashTypeOK
  <2>2. entries'[call.slot] = e
    BY <1>1, <1>2 DEF Basics, CrashTypeOK
  <2> QED  BY <2>1, <2>2
<1>8. Claimed' = 0 /\ Claimed = IF call.slot \notin Used THEN 1 ELSE 0
  BY <1>2, <1>3 DEF Claimed
<1>9. Drift' = entry_count - Cardinality(Used') - 0
  BY <1>2, <1>8 DEF Drift
<1>10. Cardinality(Used) \in Nat /\ entry_count \in Int
  BY DriftType DEF Basics, CrashTypeOK
<1>11. Drift = entry_count - Cardinality(Used) - Claimed
  BY DEF Drift
<1>12. PutFillEntry \/ KilledInFill
  OBVIOUS
<1>13. CASE call.slot \in Used
  BY <1>5, <1>6, <1>8, <1>9, <1>10, <1>11, <1>12, <1>13
<1>14. CASE call.slot \notin Used
  BY <1>5, <1>6, <1>7, <1>8, <1>9, <1>10, <1>11, <1>12, <1>14
<1> QED  BY <1>13, <1>14

(* A slot is released before it is uncounted, and a Remove that is killed in
   between leaves it counted. *)
LEMMA ReleaseDrift ==
  ASSUME Basics, Basics', NEW k \in Keys, Remove(k) \/ KilledInRemove(k)
  PROVE  Drift' = Drift \/ (KilledInRemove(k) /\ Drift' = Drift + 1)
<1>1. /\ call = Idle /\ call' = Idle /\ FindEntry(k) \in Used
      /\ \E e \in EntryHeaders :
           entries' = [entries EXCEPT ![FindEntry(k)] = e] /\ ~e.is_used
  BY ReleaseDoes DEF Basics
<1>2. PICK r \in Used : r = FindEntry(k)
  BY <1>1
<1>3. Used' = Used \ {r}
  BY <1>1, <1>2, OneSlot DEF Basics, CrashTypeOK, Used
<1>4. Cardinality(Used') = Cardinality(Used) - 1 /\ Cardinality(Used) \in Nat
  BY <1>3, UsedIsFinite, FS_RemoveElement, FS_CardinalityType
<1>5. Claimed = 0 /\ Claimed' = 0
  BY <1>1, CallTypes DEF Claimed
<1>6. \/ entry_count' = entry_count - 1
      \/ KilledInRemove(k) /\ entry_count' = entry_count
  BY DEF Remove, KilledInRemove
<1>7. /\ Drift = entry_count - Cardinality(Used) - 0
      /\ Drift' = entry_count' - Cardinality(Used') - 0
  BY <1>5 DEF Drift
<1>8. entry_count \in Int
  BY DEF Basics, CrashTypeOK
<1> QED  BY <1>4, <1>6, <1>7, <1>8

(* The count of an emptied table is right. *)
LEMMA InitializeDrift ==
  ASSUME InitializeCache, call' = Idle
  PROVE  Drift' = 0
<1>1. Used' = {} /\ entry_count' = 0
  BY EmptyTable DEF InitializeCache, Used
<1>2. Cardinality(Used') = 0
  BY <1>1, FS_EmptySet, Zenon
<1> QED  BY <1>1, <1>2, IdleCall DEF Drift

(* No step of a living process lets the count drift, *)
LEMMA NextDrift ==
  ASSUME Basics, Basics', Next
  PROVE  Drift' \in {Drift, 0}
<1>1. CASE EnsureInitialized
  <2>1. /\ call = Idle /\ call' = Idle
    BY <1>1 DEF EnsureInitialized, Basics, CallInv
  <2>2. CASE stamped
    <3>1. UNCHANGED <<entries, entry_count, call>>
      BY <1>1, <2>2 DEF EnsureInitialized, file
    <3> QED  BY <3>1, SameTable, SameUsedDrift DEF Claimed
  <2>3. CASE ~stamped
    BY <1>1, <2>1, <2>3, InitializeDrift DEF EnsureInitialized
  <2> QED  BY <2>2, <2>3
<1>2. CASE Clear
  BY <1>2, InitializeDrift DEF Clear, Ready
<1>3. CASE PutFillEntry
  <2>1. call'.pc = "copy"
    BY <1>3 DEF PutFillEntry, Basics, CrashTypeOK, CrashCalls
  <2>2. ~KilledInFill
    BY <2>1, DieDoes DEF KilledInFill, Basics, CrashTypeOK
  <2> QED  BY <1>3, <2>2, FillDrift
<1>4. CASE \E k \in Keys : Remove(k)
  <2>1. PICK k \in Keys : Remove(k)
    BY <1>4
  <2>2. entry_count' # entry_count
    BY <2>1 DEF Remove, Basics, CrashTypeOK
  <2>3. ~KilledInRemove(k)
    BY <2>2 DEF KilledInRemove
  <2> QED  BY <2>1, <2>3, ReleaseDrift
<1>5. CASE CompactSlot
  <2>1. /\ call.pc = "compact" /\ call'.pc = "compact" /\ entry_count' = entry_count
        /\ \A s \in Slots : entries'[s].is_used = entries[s].is_used
    BY <1>5, CompactSlotDoes DEF CompactSlot, Basics
  <2>2. Used' = Used
    BY <2>1 DEF Used
  <2> QED  BY <2>1, <2>2, SameUsedDrift DEF Claimed
<1>6. CASE PutClaimSlot
  <2>1. /\ entry_count' = entry_count + 1 /\ UNCHANGED entries
        /\ call.pc = "find" /\ call' = [call EXCEPT !.pc = "fill", !.slot = FindFreeEntry]
    BY <1>6 DEF PutClaimSlot
  <2>2. call'.pc = "fill" /\ call'.slot = FindFreeEntry
    BY <2>1 DEF Basics, CrashTypeOK, CrashCalls
  <2>3. FindFreeEntry \notin Used /\ Used' = Used
    BY <1>6, <2>1, FindFreeEntryFinds, SameTable DEF PutClaimSlot
  <2>4. Claimed = 0 /\ Claimed' = 1
    BY <2>1, <2>2, <2>3 DEF Claimed
  <2>5. Cardinality(Used)' = Cardinality(Used)
    BY <2>3, Zenon
  <2>6. Cardinality(Used) \in Nat /\ entry_count \in Int
    BY DriftType DEF Basics, CrashTypeOK
  <2> QED  BY <2>1, <2>4, <2>5, <2>6 DEF Drift
<1>7. CASE PutReuseSlot
  <2>1. /\ UNCHANGED <<entry_count, entries>> /\ call.pc = "find"
        /\ call' = [call EXCEPT !.pc = "fill", !.slot = FindEntry(call.key)]
        /\ FindEntry(call.key) \in Used
    BY <1>7, FindEntryFinds DEF PutReuseSlot, file, Used
  <2>2. call'.slot = FindEntry(call.key)
    BY <2>1 DEF Basics, CrashTypeOK, CrashCalls
  <2>3. Claimed = 0 /\ Claimed' = 0
    BY <2>1, <2>2, SameTable DEF Claimed
  <2> QED  BY <2>1, <2>3, SameTable, SameUsedDrift
<1>8. CASE (\E k \in Keys, v \in Values : PutStart(k, v)) \/ CompactEnd \/ PutNoSlot
           \/ PutCopy \/ PutAdvance \/ Restart
  <2>1. /\ UNCHANGED <<entry_count, entries>> /\ call.pc # "fill"
        /\ call' = Idle \/ call'.pc # "fill"
    BY <1>8, CallTypes
    DEF PutStart, CompactEnd, PutNoSlot, PutCopy, PutAdvance, Restart, Ready, Return,
        file, Basics, CrashTypeOK, CrashCalls, Idle
  <2>2. Claimed = 0 /\ Claimed' = 0
    BY <2>1, IdleCall DEF Claimed
  <2> QED  BY <2>1, <2>2, SameTable, SameUsedDrift
<1> QED  BY <1>1, <1>2, <1>3, <1>4, <1>5, <1>6, <1>7, <1>8 DEF Next

(* and each kill by one at most. *)
LEMMA DriftNext ==
  ASSUME Basics, Basics', DriftInv, [CrashNext]_crashVars
  PROVE  DriftInv'
<1> USE DriftType DEF DriftInv
<1>1. /\ kills \in [Functions -> Nat] /\ kills["put"] \in Nat /\ kills["remove"] \in Nat
      /\ kills["initialize"] \in Nat
  BY DEF Basics, CrashTypeOK, Functions
<1>2. CASE Next /\ UNCHANGED kills
  <2>1. Drift' \in {Drift, 0}
    BY <1>2, NextDrift
  <2> QED  BY <1>1, <1>2, <2>1
<1>3. CASE KilledInInitialize
  <2>1. kills'["initialize"] = kills["initialize"] + 1
    BY <1>1, <1>3, KillCounts DEF KilledInInitialize
  <2> QED  BY <1>1, <2>1
<1>4. CASE KilledInFill
  <2>1. /\ kills'["put"] = kills["put"] + 1 /\ kills'["remove"] = kills["remove"]
        /\ kills'["initialize"] = kills["initialize"]
    BY <1>1, <1>4, KillCounts DEF KilledInFill, Functions
  <2>2. Drift' = Drift \/ Drift' = Drift + 1
    BY <1>4, FillDrift
  <2> QED  BY <1>1, <2>1, <2>2
<1>5. CASE KilledInCopy \/ KilledInCompact
  <2>1. /\ kills'["put"] \in {kills["put"], kills["put"] + 1}
        /\ kills'["remove"] = kills["remove"]
        /\ kills'["initialize"] = kills["initialize"]
    <3>1. CASE KilledInCopy
      BY <1>1, <3>1, KillCounts DEF KilledInCopy, Functions
    <3>2. CASE KilledInCompact
      BY <1>1, <3>2, KillCounts DEF KilledInCompact, Functions
    <3> QED  BY <1>5, <3>1, <3>2
  <2>2. /\ UNCHANGED <<entry_count, entries>> /\ call.pc # "fill" /\ call'.pc # "fill"
    BY <1>5, DieDoes DEF KilledInCopy, KilledInCompact, Basics, CrashTypeOK
  <2>3. Drift' = Drift
    BY <2>2, SameTable, SameUsedDrift DEF Claimed
  <2> QED  BY <1>1, <2>1, <2>3
<1>6. CASE \E k \in Keys : KilledInRemove(k)
  <2>1. PICK k \in Keys : KilledInRemove(k)
    BY <1>6
  <2>2. /\ kills'["remove"] = kills["remove"] + 1 /\ kills'["put"] = kills["put"]
        /\ kills'["initialize"] = kills["initialize"]
    BY <1>1, <2>1, KillCounts DEF KilledInRemove, Functions
  <2>3. Drift' = Drift \/ Drift' = Drift + 1
    BY <2>1, ReleaseDrift
  <2> QED  BY <1>1, <2>2, <2>3
<1>7. CASE Recover \/ UNCHANGED crashVars
  <2>1. /\ UNCHANGED <<entry_count, entries, kills>>
        /\ Claimed' = Claimed
    <3>1. CASE Recover
      BY <3>1, IdleCall DEF Recover, Return, file, Claimed
    <3>2. CASE UNCHANGED crashVars
      BY <3>2, SameTable DEF crashVars, vars, file, Claimed
    <3> QED  BY <1>7, <3>1, <3>2
  <2>2. Drift' = Drift
    BY <2>1, SameTable, SameUsedDrift
  <2> QED  BY <1>1, <2>1, <2>2
<1> QED  BY <1>2, <1>3, <1>4, <1>5, <1>6, <1>7 DEF CrashNext
-----------------------------------------------------------------------------
(* What holds as long as nobody is killed in Put or InitializeCache *)

LEMMA WholeTable ==
  ASSUME Basics, Whole
  PROVE  TableInv
BY DEF Basics, Whole, CrashTypeOK, TableInv

(* Used slots are regions of the file. *)
LEMMA UsedRegions ==
  ASSUME Basics, Whole, NEW s \in Used
  PROVE  /\ s \in Slots /\ stamped /\ next_offset \in DataStart .. FileSize
         /\ entries[s].length \in Nat /\ entries[s].offset \in Nat /\ End(s) \in Nat
         /\ entries[s].length >= 1 /\ DataStart <= entries[s].offset
         /\ End(s) <= FileSize /\ entries[s].length <= FileSize
         /\ ~Filling(s) => End(s) <= next_offset
<1>1. s \in Slots /\ stamped
  BY DEF Used, Basics, StampedFirst
<1>2. next_offset \in DataStart .. FileSize
  BY <1>1 DEF Whole, StampInv
<1>3. entries[s].length \in Nat /\ entries[s].offset \in Nat
  BY <1>1 DEF Basics, CrashTypeOK, EntryHeaders
<1>4. /\ entries[s].length >= 1 /\ DataStart <= entries[s].offset
      /\ End(s) <= next_offset + (IF Filling(s) THEN Unmoved ELSE 0)
  BY DEF Whole, BudgetInv
<1>5. Filling(s) => Unmoved = Len(call.value) /\ next_offset + Len(call.value) <= FileSize
  BY DEF Filling, Unmoved, Basics, CallInv
<1>6. End(s) \in Nat /\ End(s) <= FileSize
  BY <1>2, <1>3, <1>4, <1>5, SizesAssumption DEF End
<1>7. entries[s].length <= FileSize
  BY <1>3, <1>6, SizesAssumption DEF End
<1>8. ~Filling(s) => End(s) <= next_offset
  BY <1>2, <1>4, SizesAssumption
<1> QED  BY <1>1, <1>2, <1>3, <1>4, <1>6, <1>7, <1>8

(* The slot a compaction is about to move has room at write_offset. *)
LEMMA RoomToMove ==
  ASSUME Basics, Whole, call.pc = "compact", NEW i \in Slots, i = call.i
  PROVE  /\ call.write_offset \in Nat /\ DataStart <= call.write_offset
         /\ Held(entries[i]) \in Nat /\ LiveBytes \in Nat
         /\ Cardinality(LiveBytesFrom(i + 1)) \in Nat
         /\ call.write_offset + Held(entries[i]) + Cardinality(LiveBytesFrom(i + 1))
              = DataStart + LiveBytes
         /\ call.write_offset + Held(entries[i]) <= next_offset
         /\ next_offset \in DataStart .. FileSize
<1>1. entries[i].is_used => entries[i].length <= FileSize
  BY UsedRegions DEF Used
<1>2. Cardinality(LiveBytesFrom(i)) = Cardinality(LiveBytesFrom(i + 1)) + Held(entries[i])
  BY <1>1, LiveBytesStep DEF Basics, CrashTypeOK, Held
<1>3. /\ i \in Nat /\ i + 1 \in Nat
      /\ Cardinality(LiveBytesFrom(i + 1)) \in Nat /\ LiveBytes \in Nat
  BY SizesAssumption, LiveBytesFinite DEF Slots, LiveBytes
<1>4. Held(entries[i]) \in Nat
  BY DEF Basics, CrashTypeOK, EntryHeaders, Held
<1>5. call.write_offset \in Nat /\ initialized
  BY DEF Basics, CrashTypeOK, CrashCalls, CallInv
<1>6. /\ DataStart <= call.write_offset
      /\ call.write_offset + Cardinality(LiveBytesFrom(i)) = DataStart + LiveBytes
  BY DEF Whole, PackInv
<1>7. next_offset \in DataStart .. FileSize /\ DataStart + LiveBytes <= next_offset + 0
  BY <1>5 DEF Whole, StampInv, BudgetInv, Unmoved
<1> QED  BY <1>2, <1>3, <1>4, <1>5, <1>6, <1>7, SizesAssumption

(* So no access leaves the data area. *)
LEMMA WholeIsInside ==
  ASSUME Basics, Whole
  PROVE  AccessesInside
<1>1. ASSUME call.pc = "fill" PROVE InDataArea(next_offset, Len(call.value))
  BY <1>1 DEF InDataArea, Basics, CallInv, Whole, StampInv
<1>2. ASSUME call.pc = "compact", call.i < MaxEntries, entries[call.i].is_used
      PROVE  /\ InDataArea(entries[call.i].offset, entries[call.i].length)
             /\ InDataArea(call.write_offset, entries[call.i].length)
  <2>1. PICK i \in Used : i = call.i
    BY <1>2, SizesAssumption DEF Basics, CrashTypeOK, CrashCalls, Slots, Used
  <2>2. InDataArea(entries[i].offset, entries[i].length)
    BY UsedRegions DEF InDataArea, End
  <2>3. /\ call.write_offset \in Nat /\ DataStart <= call.write_offset
        /\ call.write_offset + Held(entries[i]) <= next_offset
        /\ next_offset \in DataStart .. FileSize
    BY <1>2, <2>1, RoomToMove DEF Used
  <2>4. Held(entries[i]) = entries[i].length /\ entries[i].length \in Nat
    BY UsedRegions DEF Used, Held
  <2> QED  BY <2>1, <2>2, <2>3, <2>4, SizesAssumption DEF InDataArea
<1>3. \A s \in Used : InDataArea(entries[s].offset, entries[s].length)
  BY UsedRegions DEF InDataArea, End
<1> QED  BY <1>1, <1>2, <1>3 DEF AccessesInside

(* A step outside memcpy and compaction that leaves the table alone *)
LEMMA SameTableWhole ==
  ASSUME Basics, Whole, UNCHANGED <<entries, next_offset, stamped, written>>,
         initialized' => initialized \/ stamped,
         call.pc \notin {"copy", "advance"},
         call'.pc \notin {"copy", "advance", "compact"}
  PROVE  Whole'
<1>1. /\ Used' = Used /\ LiveBytes' = LiveBytes /\ \A s : End(s)' = End(s)
      /\ \A s : ~Filling(s) /\ ~Filling(s)'
      /\ Unmoved = 0 /\ Unmoved' = 0
  BY SameTable DEF Filling, Unmoved
<1>2. StampInv'
  BY <1>1 DEF Whole, StampInv
<1>3. BudgetInv'
  BY <1>1 DEF Whole, BudgetInv
<1>4. ContentInv'
  BY <1>1 DEF Whole, ContentInv
<1>5. PackInv' /\ CopyInv'
  BY DEF PackInv, CopyInv
<1> QED  BY <1>2, <1>3, <1>4, <1>5 DEF Whole

(* An empty table *)
LEMMA EmptyWhole ==
  ASSUME InitializeCache, call' = Idle, initialized' \in BOOLEAN
  PROVE  Whole'
<1>1. /\ Used' = {} /\ stamped' = TRUE /\ next_offset' = DataStart
      /\ written' = [k \in Keys |-> Nothing]
      /\ \A s \in Slots : ~entries'[s].is_used
  BY EmptyTable DEF InitializeCache, Used
<1>2. LiveBytesFrom(0)' = {}
  BY <1>1, SizesAssumption DEF LiveBytesFrom, Slots
<1>3. LiveBytes' = 0
  BY <1>2, FS_EmptySet DEF LiveBytes
<1>4. StampInv'
  BY <1>1, SizesAssumption DEF StampInv
<1>5. BudgetInv'
  BY <1>1, <1>3, IdleCall, SizesAssumption DEF BudgetInv
<1>6. ContentInv'
  BY <1>1 DEF ContentInv
<1> QED  BY <1>4, <1>5, <1>6, IdleCall DEF Whole

LEMMA EnsureInitializedWhole ==
  ASSUME Basics, Whole, EnsureInitialized
  PROVE  Whole'
<1>1. call' = call /\ call = Idle /\ initialized' = TRUE
  BY DEF EnsureInitialized, Basics, CallInv
<1>2. CASE stamped
  BY <1>1, <1>2, IdleCall, SameTableWhole DEF EnsureInitialized, file
<1>3. CASE ~stamped
  BY <1>1, <1>3, EmptyWhole DEF EnsureInitialized
<1> QED  BY <1>2, <1>3

(* A Put finds the space it needs or starts to compact; then everything is still
   to be packed. *)
LEMMA PutStartWhole ==
  ASSUME Basics, Whole, NEW k \in Keys, NEW v \in Values, PutStart(k, v)
  PROVE  Whole'
<1>1. /\ UNCHANGED <<file, initialized, written>> /\ initialized
      /\ call = Idle /\ call.pc = "idle"
      /\ call' = [pc |-> IF Len(v) > AvailableSpace THEN "compact" ELSE "find",
                  key |-> k, value |-> v, slot |-> NoSlot, i |-> 0,
                  write_offset |-> DataStart]
  BY CallTypes DEF PutStart, Ready, Idle
<1>2. CASE call'.pc = "find"
  BY <1>1, <1>2, SameTableWhole DEF file
<1>3. CASE call'.pc = "compact"
  <2>1. /\ Used' = Used /\ LiveBytes' = LiveBytes /\ LiveBytesFrom(0)' = LiveBytesFrom(0)
        /\ \A s : End(s)' = End(s)
    BY <1>1, SameTable DEF file
  <2>2. /\ \A s : ~Filling(s) /\ ~Filling(s)'
        /\ Unmoved = 0 /\ Unmoved' = 0
    BY <1>1, <1>3 DEF Filling, Unmoved
  <2>3. StampInv'
    BY <1>1, <2>1 DEF file, Whole, StampInv
  <2>4. BudgetInv'
    BY <1>1, <2>1, <2>2 DEF file, Whole, BudgetInv
  <2>5. ContentInv'
    BY <1>1, <2>1, <2>2 DEF file, Whole, ContentInv
  <2>6. \A s \in Used : ~(s < 0)
    BY SizesAssumption DEF Used, Slots
  <2>7. PackInv'
    BY <1>1, <2>1, <2>6, SizesAssumption DEF PackInv, LiveBytes
  <2>8. CopyInv'
    BY <1>3 DEF CopyInv
  <2> QED  BY <2>3, <2>4, <2>5, <2>7, <2>8 DEF Whole
<1> QED  BY <1>1, <1>2, <1>3

(* The region moved to write_offset ends where the next one will begin. *)
LEMMA CompactSlotWhole ==
  ASSUME Basics, Whole, CompactSlot
  PROVE  Whole'
<1>0. PICK i, w : i = call.i /\ w = call.write_offset
  OBVIOUS
<1>1. /\ call.pc = "compact" /\ i \in Slots
      /\ call'.pc = "compact" /\ call'.i = i + 1
      /\ call'.write_offset = w + Held(entries[i])
      /\ \A s \in Slots : s # i => entries'[s] = entries[s]
      /\ \A s \in Slots : /\ entries'[s].is_used = entries[s].is_used
                          /\ entries'[s].key = entries[s].key
                          /\ entries'[s].length = entries[s].length
                          /\ entries'[s].checksum = entries[s].checksum
      /\ Held(entries[i]) > 0 => entries'[i].offset = w
  BY <1>0, CompactSlotDoes DEF Basics
<1>2. UNCHANGED <<stamped, entry_count, next_offset, initialized, written>>
  BY DEF CompactSlot
<1>3. /\ w \in Nat /\ DataStart <= w
      /\ Held(entries[i]) \in Nat /\ LiveBytes \in Nat
      /\ Cardinality(LiveBytesFrom(i + 1)) \in Nat
      /\ w + Held(entries[i]) + Cardinality(LiveBytesFrom(i + 1)) = DataStart + LiveBytes
      /\ w + Held(entries[i]) <= next_offset
      /\ next_offset \in DataStart .. FileSize
  BY <1>0, <1>1, RoomToMove
<1>4. /\ LiveBytes' = LiveBytes /\ LiveBytesFrom(i + 1)' = LiveBytesFrom(i + 1)
      /\ Used' = Used
  <2>1. i + 1 \in Nat
    BY <1>1, SizesAssumption DEF Slots
  <2> QED  BY <1>1, <2>1, SameLengths DEF Used
<1>5. /\ \A s : ~Filling(s) /\ ~Filling(s)'
      /\ Unmoved = 0 /\ Unmoved' = 0
  BY <1>1 DEF Filling, Unmoved
<1>6. ASSUME NEW s \in Used
      PROVE  /\ s # i => entries'[s].offset = entries[s].offset /\ End(s)' = End(s)
             /\ s = i => /\ entries'[s].offset = w
                         /\ End(s)' = w + Held(entries[i])
  <2>1. s \in Slots
    BY DEF Used
  <2>2. s # i => entries'[s].offset = entries[s].offset /\ End(s)' = End(s)
    BY <1>1, <2>1 DEF End
  <2>3. ASSUME s = i
        PROVE  entries'[s].offset = w /\ End(s)' = w + Held(entries[i])
    <3>1. Held(entries[i]) = entries[i].length /\ Held(entries[i]) > 0
      BY <2>3, UsedRegions DEF Used, Held
    <3> QED  BY <1>1, <2>1, <2>3, <3>1 DEF End
  <2> QED  BY <2>2, <2>3
<1>7. StampInv'
  BY <1>2, <1>4 DEF Whole, StampInv
<1>8. BudgetInv'
  <2>1. ASSUME NEW s \in Used
        PROVE  /\ entries'[s].length >= 1 /\ DataStart <= entries'[s].offset
               /\ End(s)' <= next_offset
    <3>1. /\ entries'[s].length >= 1
          /\ DataStart <= entries[s].offset /\ End(s) <= next_offset
      BY <1>1, <1>5, UsedRegions DEF Used
    <3> QED  BY <1>3, <1>6, <3>1
  <2>2. stamped' => DataStart + LiveBytes' <= next_offset' + 0
    BY <1>2, <1>4, <1>5 DEF Whole, BudgetInv
  <2>3. next_offset \in Nat
    BY DEF Basics, CrashTypeOK
  <2> QED  BY <1>2, <1>4, <1>5, <2>1, <2>2, <2>3 DEF BudgetInv
<1>9. PackInv'
  <2>1. ASSUME NEW s \in Used, s < i + 1 PROVE End(s)' <= w + Held(entries[i])
    <3>1. CASE s = i
      BY <1>3, <1>6, <3>1
    <3>2. CASE s # i
      <4>1. s < i
        BY <1>1, <2>1, <3>2, SizesAssumption DEF Used, Slots
      <4>2. End(s) <= w
        BY <1>0, <1>1, <4>1 DEF Whole, PackInv
      <4> QED  BY <1>3, <1>6, <3>2, <4>2, UsedRegions
    <3> QED  BY <3>1, <3>2
  <2>2. DataStart <= w + Held(entries[i])
    BY <1>3, SizesAssumption
  <2> QED  BY <1>1, <1>3, <1>4, <2>1, <2>2 DEF PackInv
<1>10. ContentInv'
  BY <1>1, <1>2, <1>4, <1>5 DEF Whole, ContentInv, Used
<1>11. CopyInv'
  BY <1>1 DEF CopyInv
<1> QED  BY <1>7, <1>8, <1>9, <1>10, <1>11 DEF Whole

(* At its end all of the space in use lies below write_offset. *)
LEMMA CompactEndWhole ==
  ASSUME Basics, Whole, CompactEnd
  PROVE  Whole'
<1>1. /\ call.pc = "compact" /\ call.i = MaxEntries /\ next_offset' = call.write_offset
      /\ UNCHANGED <<stamped, entry_count, entries, data, initialized, written>>
      /\ call' = Idle \/ call' = [call EXCEPT !.pc = "find", !.i = 0]
  BY DEF CompactEnd, Return
<1>2. call'.pc \in {"idle", "find"}
  BY <1>1, CallTypes DEF Basics, CrashTypeOK, CrashCalls
<1>3. /\ Used' = Used /\ LiveBytes' = LiveBytes /\ \A s : End(s)' = End(s)
      /\ \A s : ~Filling(s) /\ ~Filling(s)'
      /\ Unmoved = 0 /\ Unmoved' = 0
  BY <1>1, <1>2, SameTable DEF Filling, Unmoved
<1>4. /\ call.write_offset \in Nat /\ LiveBytes \in Nat
      /\ Cardinality(LiveBytesFrom(MaxEntries)) = 0
  BY LiveBytesFinite, SizesAssumption DEF LiveBytes, Basics, CrashTypeOK, CrashCalls
<1>5. call.write_offset = DataStart + LiveBytes
  BY <1>1, <1>4 DEF Whole, PackInv
<1>6. stamped /\ next_offset \in DataStart .. FileSize /\ DataStart + LiveBytes <= next_offset
  BY <1>1, <1>3 DEF Basics, CallInv, StampedFirst, Whole, StampInv, BudgetInv
<1>7. \A s \in Used : End(s) <= call.write_offset
  BY <1>1, SizesAssumption DEF Whole, PackInv, Used, Slots
<1>8. StampInv'
  BY <1>1, <1>4, <1>5, <1>6, SizesAssumption DEF Whole, StampInv
<1>9. BudgetInv'
  BY <1>1, <1>3, <1>4, <1>5, <1>7, SizesAssumption DEF Whole, BudgetInv
<1>10. ContentInv'
  BY <1>1, <1>3 DEF Whole, ContentInv
<1>11. PackInv' /\ CopyInv'
  BY <1>2 DEF PackInv, CopyInv
<1> QED  BY <1>8, <1>9, <1>10, <1>11 DEF Whole

(* The slot search, the ends of a process, and a memmove cut short leave the
   table alone. *)
LEMMA QuietWhole ==
  ASSUME Basics, Whole,
         PutReuseSlot \/ PutClaimSlot \/ PutNoSlot \/ Restart \/ Recover \/ KilledInCompact
  PROVE  Whole'
<1>1. CASE PutReuseSlot \/ PutClaimSlot
  <2>1. /\ UNCHANGED <<entries, next_offset, stamped, written, initialized>>
        /\ call.pc = "find" /\ call'.pc = "fill"
    BY <1>1 DEF PutReuseSlot, PutClaimSlot, file, Basics, CrashTypeOK, CrashCalls
  <2> QED  BY <2>1, SameTableWhole
<1>2. CASE PutNoSlot \/ Restart \/ Recover
  <2>1. /\ UNCHANGED <<entries, next_offset, stamped, written>>
        /\ initialized' => initialized
        /\ call.pc \in {"find", "idle", "dead"} /\ call' = Idle
    BY <1>2, CallTypes DEF PutNoSlot, Restart, Recover, Ready, Return, file
  <2> QED  BY <2>1, CallTypes, SameTableWhole
<1>3. CASE KilledInCompact
  <2>1. /\ UNCHANGED <<entries, next_offset, stamped, written, initialized>>
        /\ call.pc \in {"compact", "find"} /\ call'.pc = "dead"
    BY <1>3, DieDoes DEF KilledInCompact, Basics, CrashTypeOK
  <2> QED  BY <2>1, SameTableWhole
<1> QED  BY <1>1, <1>2, <1>3

(* The new region is given the space behind next_offset. *)
LEMMA PutFillWhole ==
  ASSUME Basics, Basics', Whole, PutFillEntry
  PROVE  Whole'
<1> DEFINE new == [key |-> call.key, length |-> Len(call.value),
                   offset |-> next_offset, is_used |-> TRUE,
                   checksum |-> CalculateChecksum(call.value)]
           L == Len(call.value)
<1>1. /\ call.pc = "fill"
      /\ UNCHANGED <<stamped, next_offset, data, initialized, written>>
      /\ entries' = [entries EXCEPT ![call.slot] = new]
      /\ call' = [call EXCEPT !.pc = "copy"]
  BY DEF PutFillEntry
<1>2. /\ initialized /\ stamped /\ call.key \in Keys /\ call.value \in Values
      /\ call.slot \in Slots
      /\ next_offset + L <= FileSize
      /\ next_offset \in DataStart .. FileSize
      /\ L \in Nat /\ L >= 1
  BY <1>1, PayloadLength DEF Basics, CallInv, StampedFirst, Whole, StampInv
<1>3. /\ call'.pc = "copy" /\ call'.slot = call.slot
      /\ call'.key = call.key /\ call'.value = call.value
  BY <1>1 DEF Basics, CrashTypeOK, CrashCalls
<1>4. /\ new \in EntryHeaders /\ new.is_used
      /\ new.offset = next_offset /\ new.length = L /\ new.key = call.key
  BY <1>2, SizesAssumption DEF EntryHeaders, Checksums
<1>5. Held(new) = L
  BY <1>4 DEF Held
<1> HIDE DEF new, L
<1>6. /\ entries'[call.slot] = new
      /\ \A s \in Slots : s # call.slot => entries'[s] = entries[s] /\ End(s)' = End(s)
      /\ \A s : s = call.slot => End(s)' = next_offset + L
      /\ Used' = Used \cup {call.slot}
  <2>1. entries \in [Slots -> EntryHeaders] /\ call.slot \in Slots
    BY <1>2 DEF Basics, CrashTypeOK
  <2>2. PICK r \in Slots, e \in EntryHeaders : r = call.slot /\ e = new
    BY <1>4, <2>1
  <2>3. entries' = [entries EXCEPT ![r] = e]
    BY <1>1, <2>2
  <2>4. /\ entries'[r] = e
        /\ \A s \in Slots : s # r => entries'[s] = entries[s] /\ End(s)' = End(s)
        /\ End(r)' = e.offset + e.length
        /\ Used' = IF e.is_used THEN Used \cup {r} ELSE Used \ {r}
    BY <2>1, <2>3, OneSlot
  <2>5. e.is_used /\ e.offset = next_offset /\ e.length = L
    BY <1>4, <2>2
  <2> QED  BY <2>2, <2>4, <2>5
<1>7. Held(entries[call.slot]) <= FileSize
  BY <1>2, UsedRegions, SizesAssumption DEF Held, Used
<1>8. /\ LiveBytes \in Nat /\ Held(entries[call.slot]) \in Nat
      /\ LiveBytes' = LiveBytes - Held(entries[call.slot]) + L
  <2>1. entries \in [Slots -> EntryHeaders] /\ call.slot \in Slots
    BY <1>2 DEF Basics, CrashTypeOK
  <2>2. Held(new) <= FileSize
    BY <1>2, <1>5, SizesAssumption
  <2>3. /\ LiveBytes \in Nat /\ Held(entries[call.slot]) \in Nat
        /\ LiveBytes' = LiveBytes - Held(entries[call.slot]) + Held(new)
    BY <1>1, <1>4, <1>7, <2>1, <2>2, OneSlotSpace
  <2> QED  BY <1>5, <2>3
<1>9. /\ Unmoved = 0 /\ Unmoved' = L
      /\ \A s : ~Filling(s) /\ (Filling(s)' <=> s = call.slot)
  BY <1>1, <1>3 DEF Unmoved, Filling, L
<1>10. StampInv'
  BY <1>1, <1>2 DEF StampInv
<1>11. BudgetInv'
  <2>1. DataStart + LiveBytes <= next_offset + 0
    BY <1>2, <1>9 DEF Whole, BudgetInv
  <2>2. DataStart + LiveBytes' <= next_offset' + Unmoved'
    BY <1>1, <1>2, <1>8, <1>9, <2>1, SizesAssumption
  <2>3. ASSUME NEW s \in Used'
        PROVE  /\ entries'[s].length >= 1 /\ DataStart <= entries'[s].offset
               /\ End(s)' <= next_offset' + (IF Filling(s)' THEN Unmoved' ELSE 0)
    <3>1. CASE s = call.slot
      BY <1>1, <1>2, <1>4, <1>6, <1>9, <3>1
    <3>2. CASE s # call.slot
      <4>1. s \in Used /\ s \in Slots
        BY <1>6, <3>2 DEF Used
      <4>2. /\ entries[s].length >= 1 /\ DataStart <= entries[s].offset
            /\ End(s) <= next_offset /\ End(s) \in Nat
        BY <1>9, <4>1, UsedRegions
      <4> QED  BY <1>1, <1>2, <1>6, <1>9, <3>2, <4>1, <4>2
    <3> QED  BY <3>1, <3>2
  <2> QED  BY <2>2, <2>3 DEF BudgetInv
<1>12. ContentInv'
  <2>1. \A s \in Used' : s # call.slot => s \in Used /\ entries'[s] = entries[s]
    BY <1>6 DEF Used
  <2>2. call.slot \in Used' /\ entries'[call.slot].key = call.key
    BY <1>4, <1>6
  <2>3. ASSUME NEW k \in Keys, written[k] # Nothing
        PROVE  \E s \in Used' : entries'[s].key = k
    <3>1. PICK s \in Used : entries[s].key = k
      BY <2>3 DEF Whole, ContentInv
    <3>2. CASE s = call.slot
      BY <1>1, <2>2, <3>1, <3>2 DEF Basics, CallInv, Used
    <3>3. CASE s # call.slot
      BY <1>6, <2>1, <3>1, <3>3
    <3> QED  BY <3>2, <3>3
  <2> QED  BY <1>1, <1>2, <1>9, <2>1, <2>2, <2>3 DEF Whole, ContentInv
<1>13. PackInv' /\ CopyInv'
  BY <1>3 DEF PackInv, CopyInv
<1> QED  BY <1>10, <1>11, <1>12, <1>13 DEF Whole

(* The memcpy changes bytes only. *)
LEMMA PutCopyWhole ==
  ASSUME Basics, Whole, PutCopy
  PROVE  Whole'
<1>1. /\ call.pc = "copy"
      /\ UNCHANGED <<stamped, next_offset, entries, initialized, written>>
      /\ call' = [call EXCEPT !.pc = "advance"]
  BY DEF PutCopy
<1>2. call'.pc = "advance" /\ call'.slot = call.slot /\ call'.value = call.value
  BY <1>1 DEF Basics, CrashTypeOK, CrashCalls
<1>3. /\ Used' = Used /\ LiveBytes' = LiveBytes /\ \A s : End(s)' = End(s)
      /\ \A s : Filling(s)' = Filling(s)
      /\ Unmoved' = Unmoved
  BY <1>1, <1>2, SameTable DEF Filling, Unmoved
<1>4. CopyInv'
  BY <1>1, CallTypes, WholeTable, CopyStores DEF Basics, CrashTypeOK
<1>5. StampInv' /\ PackInv'
  BY <1>1, <1>2, <1>3 DEF Whole, StampInv, PackInv
<1>6. BudgetInv'
  BY <1>1, <1>3 DEF Whole, BudgetInv
<1>7. ContentInv'
  BY <1>1, <1>3 DEF Whole, ContentInv
<1> QED  BY <1>4, <1>5, <1>6, <1>7 DEF Whole

(* next_offset moves past the new region. *)
LEMMA PutAdvanceWhole ==
  ASSUME Basics, Whole, PutAdvance
  PROVE  Whole'
<1>1. /\ call.pc = "advance" /\ call' = Idle
      /\ UNCHANGED <<stamped, entries, data, initialized>>
      /\ next_offset' = next_offset + Len(call.value)
      /\ written' = [written EXCEPT ![call.key] = call.value]
  BY DEF PutAdvance, Return
<1>2. /\ initialized /\ stamped /\ call.key \in Keys /\ call.value \in Values
      /\ call.slot \in Slots
      /\ next_offset + Len(call.value) <= FileSize
      /\ next_offset \in DataStart .. FileSize
      /\ Len(call.value) \in Nat /\ Len(call.value) >= 1
      /\ entries[call.slot] = [key |-> call.key, length |-> Len(call.value),
                               offset |-> next_offset, is_used |-> TRUE,
                               checksum |-> CalculateChecksum(call.value)]
  BY <1>1, PayloadLength DEF Basics, CallInv, StampedFirst, Whole, StampInv
<1>3. /\ Used' = Used /\ call.slot \in Used /\ LiveBytes' = LiveBytes
      /\ \A s : End(s)' = End(s) /\ ~Filling(s)'
      /\ Unmoved' = 0 /\ Unmoved = Len(call.value)
      /\ \A s : Filling(s) <=> s = call.slot
  BY <1>1, <1>2, SameTable, IdleCall DEF Used, Filling, Unmoved
<1>4. StampInv'
  BY <1>1, <1>2, SizesAssumption DEF StampInv
<1>5. BudgetInv'
  <2>1. DataStart + LiveBytes' <= next_offset' + 0
    <3>1. LiveBytes \in Nat
      BY LiveBytesFinite DEF LiveBytes
    <3>2. DataStart + LiveBytes <= next_offset + Len(call.value)
      BY <1>2, <1>3 DEF Whole, BudgetInv
    <3> QED  BY <1>1, <1>2, <1>3, <3>1, <3>2, SizesAssumption
  <2>2. ASSUME NEW s \in Used
        PROVE  /\ entries'[s].length >= 1 /\ DataStart <= entries'[s].offset
               /\ End(s)' <= next_offset' + 0
    <3>1. /\ entries[s].length >= 1 /\ DataStart <= entries[s].offset
          /\ End(s) <= next_offset + (IF Filling(s) THEN Unmoved ELSE 0)
      BY DEF Whole, BudgetInv
    <3>2. End(s) \in Nat
      BY UsedRegions
    <3> QED  BY <1>1, <1>2, <1>3, <3>1, <3>2
  <2> QED  BY <1>3, <2>1, <2>2 DEF BudgetInv
<1>6. ContentInv'
  <2>1. \A s \in Used : s # call.slot => entries[s].key # call.key
    BY <1>2, <1>3 DEF Basics, UniqueKeys
  <2>2. written'[call.key] = call.value /\ call.value # Nothing
    BY <1>1, <1>2, ValuesAssumption DEF Basics, CrashTypeOK, Nothing
  <2>3. \A k \in Keys : k # call.key => written'[k] = written[k]
    BY <1>1 DEF Basics, CrashTypeOK
  <2>4. \A s \in Used : entries[s].key \in Keys
    BY DEF Whole, ContentInv
  <2> QED  BY <1>1, <1>2, <1>3, <2>1, <2>2, <2>3, <2>4 DEF Whole, ContentInv
<1> QED  BY <1>1, <1>4, <1>5, <1>6, IdleCall DEF Whole

(* A Remove, done or cut short, frees the space of the key's only slot. *)
LEMMA ReleaseWhole ==
  ASSUME Basics, Whole, NEW k \in Keys, Remove(k) \/ KilledInRemove(k)
  PROVE  Whole'
<1>1. /\ call = Idle /\ call' = Idle /\ initialized
      /\ FindEntry(k) # NoSlot /\ FindEntry(k) \in Used
      /\ written' = [written EXCEPT ![k] = Nothing]
      /\ UNCHANGED <<stamped, next_offset, data>>
      /\ \E e \in EntryHeaders :
           entries' = [entries EXCEPT ![FindEntry(k)] = e] /\ ~e.is_used
  BY ReleaseDoes DEF Basics
<1>2. PICK r \in Used : r = FindEntry(k)
  BY <1>1
<1>3. PICK e \in EntryHeaders : entries' = [entries EXCEPT ![r] = e] /\ ~e.is_used
  BY <1>1, <1>2
<1>4. r \in Slots /\ entries[r].key = k
  BY <1>1, <1>2, FindEntryFinds DEF Used
<1>5. /\ \A s \in Slots : s # r => entries'[s] = entries[s] /\ End(s)' = End(s)
      /\ Used' = Used \ {r}
  BY <1>3, <1>4, OneSlot DEF Basics, CrashTypeOK
<1>6. /\ LiveBytes \in Nat /\ Held(entries[r]) \in Nat
      /\ LiveBytes' = LiveBytes - Held(entries[r]) + 0
  <2>1. Held(entries[r]) <= FileSize /\ Held(e) = 0 /\ Held(e) <= FileSize
    BY <1>3, UsedRegions, SizesAssumption DEF Held
  <2> QED  BY <1>3, <1>4, <2>1, OneSlotSpace DEF Basics, CrashTypeOK
<1>7. /\ Unmoved = 0 /\ Unmoved' = 0 /\ stamped
      /\ \A s : ~Filling(s) /\ ~Filling(s)'
  BY <1>1, CallTypes, IdleCall DEF Unmoved, Filling, Basics, StampedFirst
<1>8. StampInv'
  BY <1>1, <1>7 DEF Whole, StampInv
<1>9. BudgetInv'
  <2>1. DataStart + LiveBytes <= next_offset + 0
    BY <1>7 DEF Whole, BudgetInv
  <2>2. DataStart + LiveBytes' <= next_offset + 0
    BY <1>6, <2>1, SizesAssumption DEF Basics, CrashTypeOK
  <2>3. \A s \in Used' : s \in Used /\ s \in Slots /\ s # r
    BY <1>5 DEF Used
  <2> QED  BY <1>1, <1>5, <1>7, <2>2, <2>3 DEF Whole, BudgetInv
<1>10. ContentInv'
  <2>1. \A s \in Used' : /\ s \in Used /\ s # r /\ s \in Slots
                         /\ entries'[s] = entries[s] /\ entries[s].key # k
    BY <1>4, <1>5 DEF Basics, UniqueKeys, Used
  <2>2. /\ written'[k] = Nothing
        /\ \A j \in Keys : j # k => written'[j] = written[j]
    BY <1>1 DEF Basics, CrashTypeOK
  <2>3. \A s \in Used : s # r => s \in Used'
    BY <1>5
  <2> QED  BY <1>4, <1>7, <2>1, <2>2, <2>3 DEF Whole, ContentInv
<1> QED  BY <1>1, <1>8, <1>9, <1>10, IdleCall DEF Whole

(* Until somebody is killed in Put or InitializeCache the file stays whole. *)
LEMMA BrokenStays ==
  ASSUME kills \in [Functions -> Nat], NEW f, KillIn(f), ~Broken'
  PROVE  f \notin {"put", "initialize"} /\ ~Broken
<1>1. /\ f \in Functions /\ kills'[f] = kills[f] + 1
      /\ \A g \in Functions : g # f => kills'[g] = kills[g]
  BY KillCounts
<1>2. kills["put"] \in Nat /\ kills["initialize"] \in Nat
  BY DEF Functions
<1> QED  BY <1>1, <1>2 DEF Broken, Functions

LEMMA NextWhole ==
  ASSUME Basics, Basics', ~Broken => Whole, [CrashNext]_crashVars, ~Broken'
  PROVE  ~Broken /\ Whole'
<1> USE BrokenStays DEF Basics, CrashTypeOK
<1>1. CASE Next /\ UNCHANGED kills
  <2>1. ~Broken /\ Whole
    BY <1>1 DEF Broken
  <2>2. CASE EnsureInitialized
    BY <2>1, <2>2, EnsureInitializedWhole
  <2>3. CASE \E k \in Keys, v \in Values : PutStart(k, v)
    BY <2>1, <2>3, PutStartWhole
  <2>4. CASE CompactSlot
    BY <2>1, <2>4, CompactSlotWhole
  <2>5. CASE CompactEnd
    BY <2>1, <2>5, CompactEndWhole
  <2>6. CASE PutReuseSlot \/ PutClaimSlot \/ PutNoSlot \/ Restart
    BY <2>1, <2>6, QuietWhole
  <2>7. CASE PutFillEntry
    BY <2>1, <2>7, PutFillWhole
  <2>8. CASE PutCopy
    BY <2>1, <2>8, PutCopyWhole
  <2>9. CASE PutAdvance
    BY <2>1, <2>9, PutAdvanceWhole
  <2>10. CASE \E k \in Keys : Remove(k)
    BY <2>1, <2>10, ReleaseWhole
  <2>11. CASE Clear
    BY <2>1, <2>11, EmptyWhole DEF Clear, Ready
  <2> QED  BY <1>1, <2>1, <2>2, <2>3, <2>4, <2>5, <2>6, <2>7, <2>8, <2>9, <2>10, <2>11
           DEF Next
<1>2. CASE KilledInInitialize \/ KilledInFill \/ KilledInCopy
  BY <1>2 DEF KilledInInitialize, KilledInFill, KilledInCopy
<1>3. CASE KilledInCompact
  <2>1. ~Broken /\ Whole
    BY <1>3 DEF KilledInCompact
  <2> QED  BY <1>3, <2>1, QuietWhole
<1>4. CASE \E k \in Keys : KilledInRemove(k)
  <2>1. PICK k \in Keys : KilledInRemove(k)
    BY <1>4
  <2>2. ~Broken /\ Whole
    BY <2>1 DEF KilledInRemove
  <2> QED  BY <2>1, <2>2, ReleaseWhole
<1>5. CASE Recover
  <2>1. ~Broken /\ Whole
    BY <1>5 DEF Recover, Broken
  <2> QED  BY <1>5, <2>1, QuietWhole
<1>6. CASE UNCHANGED crashVars
  <2>1. UNCHANGED <<stamped, next_offset, entries, data, initialized, call, written, kills>>
    BY <1>6 DEF crashVars, vars, file
  <2>2. ~Broken /\ Whole
    BY <2>1 DEF Broken
  <2>3. /\ Used' = Used /\ LiveBytes' = LiveBytes /\ \A s : End(s)' = End(s)
        /\ \A j : LiveBytesFrom(j)' = LiveBytesFrom(j)
        /\ \A s : Filling(s)' = Filling(s)
        /\ Unmoved' = Unmoved
    BY <2>1, SameTable DEF Filling, Unmoved
  <2>4. StampInv' /\ BudgetInv' /\ PackInv'
    BY <2>1, <2>2, <2>3 DEF Whole, StampInv, BudgetInv, PackInv
  <2>5. ContentInv' /\ CopyInv'
    BY <2>1, <2>2, <2>3 DEF Whole, ContentInv, CopyInv, BytesOf
  <2> QED  BY <2>2, <2>4, <2>5 DEF Whole
<1> QED  BY <1>1, <1>2, <1>3, <1>4, <1>5, <1>6 DEF CrashNext
-----------------------------------------------------------------------------
(* The theorems *)

LEMMA CrashInitInvariant ==
  ASSUME CrashInit
  PROVE  CrashInv
<1>1. IInv /\ Init
  BY InitInvariant DEF CrashInit
<1>2. \A f \in Functions : kills[f] = 0
  BY DEF CrashInit
<1>3. call = Idle /\ call.pc = "idle" /\ Used = {} /\ ~stamped /\ ~initialized
  BY <1>1, CallTypes DEF Init, IInv, StampInv
<1>4. CrashTypeOK
  <2>1. entry_count \in Int /\ call \in CrashCalls /\ kills \in [Functions -> Nat]
    BY <1>1, <1>3, CallTypes DEF Init, CrashInit
  <2> QED  BY <1>1, <2>1 DEF IInv, TypeOK, CrashTypeOK
<1>5. Basics
  BY <1>1, <1>3, <1>4 DEF Basics, IInv, StampedFirst, StampInv
<1>6. DriftInv
  <2>1. Drift = 0
    BY <1>1, <1>3, FS_EmptySet DEF Init, Drift, Claimed
  <2> QED  BY <1>2, <2>1 DEF DriftInv, Functions
<1>7. Whole
  BY <1>1, <1>3 DEF Whole, IInv, BudgetInv, PackInv, CopyInv
<1> QED  BY <1>5, <1>6, <1>7 DEF CrashInv

(* CrashInv is an invariant of the cache under kills. *)
THEOREM CrashInvariance == CrashSpec => []CrashInv
<1>1. CrashInit => CrashInv
  BY CrashInitInvariant
<1>2. CrashInv /\ [CrashNext]_crashVars => CrashInv'
  <2> SUFFICES ASSUME CrashInv, [CrashNext]_crashVars PROVE CrashInv'
    OBVIOUS
  <2>1. Basics'
    BY NextBasics DEF CrashInv
  <2> QED  BY <2>1, DriftNext, NextWhole DEF CrashInv
<1> QED  BY <1>1, <1>2, PTL DEF CrashSpec

(* Whoever is killed and wherever, no two used slots come to hold the same key. *)
THEOREM KeysStayUnique == CrashSpec => []UniqueKeys
<1>1. CrashInv => UniqueKeys
  BY DEF CrashInv, Basics
<1> QED  BY <1>1, CrashInvariance, PTL

(* entry_count is never below the number of used slots, and above it by at most
   one per process killed in Put or Remove. *)
THEOREM CountDriftsByKills == CrashSpec => []CountDrift
<1>1. CrashInv => CountDrift
  <2> SUFFICES ASSUME CrashInv, call = Idle, kills["initialize"] = 0
               PROVE  entry_count - Cardinality(Used) \in 0 .. kills["put"] + kills["remove"]
    BY DEF CountDrift
  <2>1. Claimed = 0
    BY CallTypes DEF Claimed
  <2>2. Drift = entry_count - Cardinality(Used)
    BY <2>1, DriftType DEF Drift, CrashInv, Basics, CrashTypeOK
  <2> QED  BY <2>2 DEF CrashInv, DriftInv
<1> QED  BY <1>1, CrashInvariance, PTL

(* A process killed inside CompactCache or Remove never makes a later one copy or
   read outside the data area. *)
THEOREM InsideUntilBroken == CrashSpec => []InsideUnlessBroken
<1>1. CrashInv => InsideUnlessBroken
  BY WholeIsInside DEF CrashInv, InsideUnlessBroken
<1> QED  BY <1>1, CrashInvariance, PTL
-----------------------------------------------------------------------------
(* The map under kills *)

(* A whole file answers as the map's steps require. *)
LEMMA WholeMap == Basics /\ Whole => TableInv
BY WholeTable DEF Basics, CrashTypeOK

(* While the file is whole every step is one of the map's, the deaths and the
   recoveries included. *)
LEMMA CrashStepMaps ==
  ASSUME CrashInv, CrashInv', [CrashNext]_crashVars, ~Broken'
  PROVE  /\ ~Broken /\ MapStep
         /\ TableInv /\ TableInv'
<1>1. ~Broken /\ Whole /\ Whole' /\ Basics /\ Basics'
  BY NextWhole DEF CrashInv
<1>2. Basics /\ Whole => TableInv
  BY WholeMap
<1>3. (Basics /\ Whole)' => TableInv'
  BY WholeMap, PTL
<1>4. TableInv /\ TableInv'
  BY <1>1, <1>2, <1>3
<1>5. CASE Next
  <2>1. call.pc # "dead"
    BY <1>1, <1>5, CallTypes
    DEF Next, EnsureInitialized, PutStart, CompactSlot, CompactEnd, PutReuseSlot,
        PutClaimSlot, PutNoSlot, PutFillEntry, PutCopy, PutAdvance, Remove, Clear,
        Restart, Ready, Basics, CallInv
  <2>2. call \in Calls
    BY <1>1, <2>1, CallTypes DEF Basics, CrashTypeOK
  <2> QED  BY <1>1, <1>4, <1>5, <2>2, NextMaps
<1>6. CASE KilledInInitialize \/ KilledInFill \/ KilledInCopy
  BY <1>1, <1>6, BrokenStays
  DEF KilledInInitialize, KilledInFill, KilledInCopy, Basics, CrashTypeOK
<1>7. CASE KilledInCompact
  <2>1. /\ call.pc \in {"compact", "find"} /\ call'.pc = "dead"
        /\ call'.key = call.key /\ call'.value = call.value /\ UNCHANGED written
    BY <1>1, <1>7, DieDoes DEF KilledInCompact, Basics, CrashTypeOK
  <2> QED  BY <1>1, <1>4, <2>1, InsideDisturbs
<1>8. CASE \E k \in Keys : KilledInRemove(k)
  <2>1. PICK k \in Keys : KilledInRemove(k)
    BY <1>8
  <2>2. /\ call = Idle /\ call' = Idle /\ FindEntry(k) # NoSlot
        /\ written' = [written EXCEPT ![k] = Nothing] /\ data' = data
        /\ \E e \in EntryHeaders :
             entries' = [entries EXCEPT ![FindEntry(k)] = e] /\ ~e.is_used
    BY <1>1, <2>1, ReleaseDoes DEF Basics
  <2> QED  BY <1>1, <1>4, <2>2, ReleaseMaps
<1>9. CASE Recover
  BY <1>1, <1>4, <1>9, ReturnAborts DEF Recover, Return, file
<1>10. CASE UNCHANGED crashVars
  BY <1>1, <1>4, <1>10, NothingHappens DEF crashVars, vars, file
<1> QED  BY <1>5, <1>6, <1>7, <1>8, <1>9, <1>10 DEF CrashNext

FingerprintCrashMap == INSTANCE CrashMap WITH
  Values  <- {Fingerprint(v) : v \in Values},
  content <- [k \in Keys |-> Fingerprint(written[k])],
  view    <- [k \in Keys |-> Fingerprint(Get(k))],
  pending <- PendingPrint,
  broken  <- Broken

(* Processes killed in CompactCache or Remove, in any number, take nothing from
   what CacheIsAFingerprintMap says of the cache, up to the first kill in Put or
   InitializeCache. *)
THEOREM CrashedCacheIsAFingerprintMap == CrashSpec => FingerprintCrashMap!CrashSpec
<1>1. CrashInit => FingerprintCrashMap!CrashInit
  <2> SUFFICES ASSUME CrashInit PROVE FingerprintCrashMap!CrashInit
    OBVIOUS
  <2>1. FingerprintMap!Init
    BY InitPrints DEF CrashInit
  <2>2. ~Broken
    BY DEF CrashInit, Broken, Functions
  <2> QED  BY <2>1, <2>2 DEF FingerprintCrashMap!CrashInit, FingerprintCrashMap!Init,
                             FingerprintMap!Init
<1>2. CrashInv /\ CrashInv' /\ [CrashNext]_crashVars
      => [FingerprintCrashMap!CrashNext]_<<FingerprintCrashMap!vars, Broken>>
  <2> SUFFICES ASSUME CrashInv, CrashInv', [CrashNext]_crashVars
               PROVE  [FingerprintCrashMap!CrashNext]_<<FingerprintCrashMap!vars, Broken>>
    OBVIOUS
  <2>1. CASE Broken'
    BY <2>1 DEF FingerprintCrashMap!CrashNext, FingerprintCrashMap!Break, Broken
  <2>2. CASE ~Broken'
    <3>1. ~Broken /\ [FingerprintMap!Next]_FingerprintMap!vars
      BY <2>2, CrashStepMaps, MapStepPrints
    <3>2. FingerprintMap!Next => FingerprintCrashMap!Next
      BY DEF FingerprintMap!Next, FingerprintMap!Begin, FingerprintMap!Remove,
             FingerprintMap!Disturb, FingerprintMap!Commit, FingerprintMap!Abort,
             FingerprintMap!Clear,
             FingerprintCrashMap!Next, FingerprintCrashMap!Begin,
             FingerprintCrashMap!Remove, FingerprintCrashMap!Disturb,
             FingerprintCrashMap!Commit, FingerprintCrashMap!Abort,
             FingerprintCrashMap!Clear
    <3>3. UNCHANGED FingerprintMap!vars => UNCHANGED FingerprintCrashMap!vars
      BY DEF FingerprintMap!vars, FingerprintCrashMap!vars
    <3>4. Broken' = Broken
      BY <2>2, <3>1 DEF Broken
    <3> QED  BY <2>2, <3>1, <3>2, <3>3, <3>4 DEF FingerprintCrashMap!CrashNext
  <2> QED  BY <2>1, <2>2
<1> QED  BY <1>1, <1>2, CrashInvariance, PTL DEF CrashSpec, FingerprintCrashMap!CrashSpec

(* And nothing from the map itself, in behaviours without a false match before
   that kill. *)
THEOREM CrashedCacheIsALossyMap ==
  CrashSpec /\ [](~Broken => Genuine) => ImplementsCrashMap
<1>1. CrashInit => Fragile!CrashInit
  <2> SUFFICES ASSUME CrashInit PROVE Fragile!CrashInit
    OBVIOUS
  <2>1. Map!Init
    BY InitMaps DEF CrashInit
  <2>2. ~Broken
    BY DEF CrashInit, Broken, Functions
  <2> QED  BY <2>1, <2>2 DEF Fragile!CrashInit, Fragile!Init, Map!Init
<1>2. /\ CrashInv /\ CrashInv' /\ [CrashNext]_crashVars
      /\ ~Broken => Genuine
      /\ (~Broken => Genuine)'
      => [Fragile!CrashNext]_<<Fragile!vars, Broken>>
  <2> SUFFICES ASSUME CrashInv, CrashInv', [CrashNext]_crashVars,
                      ~Broken => Genuine, (~Broken => Genuine)'
               PROVE  [Fragile!CrashNext]_<<Fragile!vars, Broken>>
    OBVIOUS
  <2>1. CASE Broken'
    BY <2>1 DEF Fragile!CrashNext, Fragile!Break, Broken
  <2>2. CASE ~Broken'
    <3>1. ~Broken /\ [Map!Next]_Map!vars
      BY <2>2, CrashStepMaps, MapStepMaps
    <3>2. Map!Next => Fragile!Next
      BY DEF Map!Next, Map!Begin, Map!Remove, Map!Disturb, Map!Commit, Map!Abort,
             Map!Clear, Fragile!Next, Fragile!Begin, Fragile!Remove, Fragile!Disturb,
             Fragile!Commit, Fragile!Abort, Fragile!Clear
    <3>3. UNCHANGED Map!vars => UNCHANGED Fragile!vars
      BY DEF Map!vars, Fragile!vars
    <3>4. Broken' = Broken
      BY <2>2, <3>1 DEF Broken
    <3> QED  BY <2>2, <3>1, <3>2, <3>3, <3>4 DEF Fragile!CrashNext
  <2> QED  BY <2>1, <2>2
<1> QED  BY <1>1, <1>2, CrashInvariance, PTL DEF CrashSpec, ImplementsCrashMap, Fragile!CrashSpec
===============================================================================
