---------------------------- MODULE SharedCache ----------------------------
(***************************************************************************)
(* The memory-mapped cache file of m_cache::SharedCache                    *)
(* (src/src/m_cache/m_v8_shared_cache.{h,cc}).                             *)
(*                                                                         *)
(* The file is a header, a table of MaxEntries slots and a data area in    *)
(* which next_offset only grows until CompactCache slides the live entries *)
(* down.  Every public method runs under one std::mutex, so one call is in *)
(* progress at a time; a Put is split into the steps between which its     *)
(* work can be told apart: the space check, one step per iteration of the  *)
(* compaction loop, the slot search, the slot's fields, the memcpy, and    *)
(* the move of next_offset.  Get, GetEntryCount, GetUsedSpace and IsValid  *)
(* change nothing and appear as operators.                                 *)
(*                                                                         *)
(* Keys are equal when the 255 characters that FindEntry compares are.     *)
(***************************************************************************)
EXTENDS Integers, Sequences, FiniteSets, FiniteSetsExt

CONSTANTS
  Keys,            \* the keys callers use
  Byte,            \* the byte values of the data area, 0 among them
  Values,          \* the payloads callers Put: non-empty byte strings
  MaxEntries,      \* CACHE_MAX_ENTRIES
  DataStart,       \* sizeof(CacheHeader) + MaxEntries * sizeof(CacheEntryHeader)
  FileSize,        \* CACHE_FILE_SIZE
  ChecksumModulus, \* 2^32, the width of a checksum
  NoKey            \* the zeroed key field of a slot

ASSUME KeysAssumption == NoKey \notin Keys

ASSUME BytesAssumption ==
  /\ Byte \subseteq Nat
  /\ 0 \in Byte

ASSUME ValuesAssumption == Values \subseteq Seq(Byte) \ {<<>>}

ASSUME SizesAssumption ==
  /\ MaxEntries \in Nat
  /\ DataStart \in Nat
  /\ FileSize \in Nat
  /\ DataStart <= FileSize
  /\ ChecksumModulus \in Nat \ {0}

VARIABLES
  stamped,      \* the header holds CACHE_MAGIC and CACHE_VERSION
  entry_count,  \* CacheHeader::entry_count
  next_offset,  \* CacheHeader::next_offset
  entries,      \* the table of CacheEntryHeader
  data,         \* the bytes of the data area
  initialized,  \* SharedCache::initialized_ of the running process
  call,         \* the Put in progress: its arguments and its locals
  written       \* history: what the last successful Put of each key stored

file == <<stamped, entry_count, next_offset, entries, data>>
vars == <<file, initialized, call, written>>

Slots    == 0 .. MaxEntries - 1
DataArea == DataStart .. FileSize - 1
NoSlot   == -1

(* calculate checksum: ((c << 5) + c) + byte in 32-bit arithmetic *)
CalculateChecksum(bytes) ==
  LET hash[n \in 0 .. Len(bytes)] ==
        IF n = 0 THEN 0 ELSE (33 * hash[n - 1] + bytes[n]) % ChecksumModulus
  IN  hash[Len(bytes)]

EmptyEntry ==
  [key |-> NoKey, length |-> 0, offset |-> 0, is_used |-> FALSE, checksum |-> 0]

Idle == [pc |-> "idle", key |-> NoKey, value |-> <<>>, slot |-> NoSlot,
         i |-> 0, write_offset |-> 0]

Nothing == <<>>    \* written[k] when k has no entry

-----------------------------------------------------------------------------
Used       == {s \in Slots : entries[s].is_used}
Holding(k) == {s \in Used : entries[s].key = k}
Free       == Slots \ Used

FindEntry(k)  == IF Holding(k) = {} THEN NoSlot ELSE Min(Holding(k))
FindFreeEntry == IF Free = {} THEN NoSlot ELSE Min(Free)

AvailableSpace == FileSize - next_offset

(* The bytes a slot designates, and whether they pass Get's integrity test *)
BytesOf(s) ==
  [n \in 1 .. entries[s].length |-> data[entries[s].offset + n - 1]]
IntactUnchecked(s) == TRUE   \* mutant: Get without the checksum test
Intact(s) == CalculateChecksum(BytesOf(s)) = entries[s].checksum

(* What Get(k) hands out; Nothing when it returns false *)
Get(k) ==
  LET s == FindEntry(k)
  IN  IF s # NoSlot /\ Intact(s) THEN BytesOf(s) ELSE Nothing

(* memcpy of a payload, and memmove of n bytes from src, to address dst *)
Stored(bytes, dst) ==
  [a \in DataArea |-> IF a \in dst .. dst + Len(bytes) - 1
                        THEN bytes[a - dst + 1] ELSE data[a]]
MovedShort(src, dst, n) ==     \* mutant: the last byte is not moved
  [a \in DataArea |-> IF a \in dst .. dst + n - 2
                        THEN data[src + (a - dst)] ELSE data[a]]
Moved(src, dst, n) ==
  [a \in DataArea |-> IF a \in dst .. dst + n - 1
                        THEN data[src + (a - dst)] ELSE data[a]]

-----------------------------------------------------------------------------
(* A new file: shorter than the mapping, extended with zeros by ftruncate  *)
Init ==
  /\ stamped = FALSE
  /\ entry_count = 0
  /\ next_offset = 0
  /\ entries = [s \in Slots |-> EmptyEntry]
  /\ data = [a \in DataArea |-> 0]
  /\ initialized = FALSE
  /\ call = Idle
  /\ written = [k \in Keys |-> Nothing]

(* mutant: without the memset of the table *)
InitializeHeaderOnly ==
  /\ stamped' = TRUE
  /\ entry_count' = 0
  /\ next_offset' = DataStart
  /\ written' = [k \in Keys |-> Nothing]
  /\ UNCHANGED <<entries, data>>

InitializeCache ==
  /\ stamped' = TRUE
  /\ entry_count' = 0
  /\ next_offset' = DataStart
  /\ entries' = [s \in Slots |-> EmptyEntry]
  /\ written' = [k \in Keys |-> Nothing]
  /\ UNCHANGED data

(* EnsureInitialized of whichever method is called first, InitMmap included.
   When open, ftruncate or mmap fails every method returns at once and the
   next call tries again: no state changes.                                 *)
EnsureInitialized ==
  /\ ~initialized
  /\ initialized' = TRUE
  /\ IF stamped THEN UNCHANGED <<file, written>> ELSE InitializeCache
  /\ UNCHANGED call

Ready == initialized /\ call = Idle

Return == call' = Idle

(* Put, up to the test that decides whether to compact *)
PutStart(k, v) ==
  /\ Ready
  /\ call' = [Idle EXCEPT !.pc = IF Len(v) > AvailableSpace THEN "compact"
                                                            ELSE "find",
                          !.key = k, !.value = v, !.write_offset = DataStart]
  /\ UNCHANGED <<file, initialized, written>>

(* mutant: the header follows the loop instead of being set at its end *)
CompactSlotAdvancing ==
  LET e == entries[call.i]
      w == call.write_offset
      n == IF e.is_used THEN e.length ELSE 0
  IN
  /\ call.pc = "compact"
  /\ call.i < MaxEntries
  /\ next_offset' = w + n
  /\ call' = [call EXCEPT !.i = @ + 1, !.write_offset = w + n]
  /\ IF n > 0 /\ w # e.offset
       THEN /\ data' = Moved(e.offset, w, n)
            /\ entries' = [entries EXCEPT ![call.i].offset = w]
       ELSE UNCHANGED <<data, entries>>
  /\ UNCHANGED <<stamped, entry_count, initialized, written>>

(* One iteration of the loop of CompactCache *)
CompactSlot ==
  LET e == entries[call.i]
      w == call.write_offset
  IN
  /\ call.pc = "compact"
  /\ call.i < MaxEntries
  /\ IF e.is_used /\ e.length > 0
       THEN /\ call' = [call EXCEPT !.i = @ + 1, !.write_offset = w + e.length]
            /\ IF w # e.offset
                 THEN /\ data' = Moved(e.offset, w, e.length)
                      /\ entries' = [entries EXCEPT ![call.i].offset = w]
                 ELSE UNCHANGED <<data, entries>>
       ELSE /\ call' = [call EXCEPT !.i = @ + 1]
            /\ UNCHANGED <<data, entries>>
  /\ UNCHANGED <<stamped, entry_count, next_offset, initialized, written>>

(* mutant: next_offset stays where it was *)
CompactEndWithoutReset ==
  /\ call.pc = "compact"
  /\ call.i = MaxEntries
  /\ Return
  /\ UNCHANGED <<file, initialized, written>>

(* The end of CompactCache, and Put's second look at the space *)
CompactEnd ==
  /\ call.pc = "compact"
  /\ call.i = MaxEntries
  /\ next_offset' = call.write_offset
  /\ IF Len(call.value) > AvailableSpace'
       THEN Return
       ELSE call' = [call EXCEPT !.pc = "find", !.i = 0]
  /\ UNCHANGED <<stamped, entry_count, entries, data, initialized, written>>

(* mutant: the entry is counted whether or not it is new *)
PutReuseSlotCounted ==
  /\ call.pc = "find"
  /\ FindEntry(call.key) # NoSlot
  /\ entry_count' = entry_count + 1
  /\ call' = [call EXCEPT !.pc = "fill", !.slot = FindEntry(call.key)]
  /\ UNCHANGED <<stamped, next_offset, entries, data, initialized, written>>

(* The slot search of Put: the key's own slot, a free one, or none *)
PutReuseSlot ==
  /\ call.pc = "find"
  /\ FindEntry(call.key) # NoSlot
  /\ call' = [call EXCEPT !.pc = "fill", !.slot = FindEntry(call.key)]
  /\ UNCHANGED <<file, initialized, written>>

(* mutant: a free slot is preferred to the key's own *)
PutClaimAnySlot ==
  /\ call.pc = "find"
  /\ FindFreeEntry # NoSlot
  /\ entry_count' = entry_count + 1
  /\ call' = [call EXCEPT !.pc = "fill", !.slot = FindFreeEntry]
  /\ UNCHANGED <<stamped, next_offset, entries, data, initialized, written>>

PutClaimSlot ==
  /\ call.pc = "find"
  /\ FindEntry(call.key) = NoSlot
  /\ FindFreeEntry # NoSlot
  /\ entry_count' = entry_count + 1
  /\ call' = [call EXCEPT !.pc = "fill", !.slot = FindFreeEntry]
  /\ UNCHANGED <<stamped, next_offset, entries, data, initialized, written>>

PutNoSlot ==
  /\ call.pc = "find"
  /\ FindEntry(call.key) = NoSlot
  /\ FindFreeEntry = NoSlot
  /\ Return
  /\ UNCHANGED <<file, initialized, written>>

PutFillEntry ==
  /\ call.pc = "fill"
  /\ entries' = [entries EXCEPT ![call.slot] =
                   [key |-> call.key, length |-> Len(call.value),
                    offset |-> next_offset, is_used |-> TRUE,
                    checksum |-> CalculateChecksum(call.value)]]
  /\ call' = [call EXCEPT !.pc = "copy"]
  /\ UNCHANGED <<stamped, entry_count, next_offset, data, initialized, written>>

PutCopy ==
  /\ call.pc = "copy"
  /\ data' = Stored(call.value, entries[call.slot].offset)
  /\ call' = [call EXCEPT !.pc = "advance"]
  /\ UNCHANGED <<stamped, entry_count, next_offset, entries, initialized, written>>

(* mutant: next_offset is not moved *)
PutAdvanceNot ==
  /\ call.pc = "advance"
  /\ written' = [written EXCEPT ![call.key] = call.value]
  /\ Return
  /\ UNCHANGED <<file, initialized>>

PutAdvance ==
  /\ call.pc = "advance"
  /\ next_offset' = next_offset + Len(call.value)
  /\ written' = [written EXCEPT ![call.key] = call.value]
  /\ Return
  /\ UNCHANGED <<stamped, entry_count, entries, data, initialized>>

(* mutant: the count goes down also when the key is absent *)
RemoveUnchecked(k) ==
  /\ Ready
  /\ entries' = [s \in Slots |-> IF s = FindEntry(k) THEN EmptyEntry ELSE entries[s]]
  /\ entry_count' = entry_count - 1
  /\ written' = [written EXCEPT ![k] = Nothing]
  /\ UNCHANGED <<stamped, next_offset, data, initialized, call>>

(* Remove of a key that has an entry; without one it returns false *)
Remove(k) ==
  /\ Ready
  /\ FindEntry(k) # NoSlot
  /\ entries' = [entries EXCEPT ![FindEntry(k)] = EmptyEntry]
  /\ entry_count' = entry_count - 1
  /\ written' = [written EXCEPT ![k] = Nothing]
  /\ UNCHANGED <<stamped, next_offset, data, initialized, call>>

Clear ==
  /\ Ready
  /\ InitializeCache
  /\ UNCHANGED <<initialized, call>>

(* The process ends between two calls and another one maps the same file *)
Restart ==
  /\ Ready
  /\ initialized' = FALSE
  /\ UNCHANGED <<file, call, written>>

Next ==
  \/ EnsureInitialized
  \/ \E k \in Keys, v \in Values : PutStart(k, v)
  \/ CompactSlot \/ CompactEnd
  \/ PutReuseSlot \/ PutClaimSlot \/ PutNoSlot
  \/ PutFillEntry \/ PutCopy \/ PutAdvance
  \/ \E k \in Keys : Remove(k)
  \/ Clear
  \/ Restart

Spec == Init /\ [][Next]_vars

-----------------------------------------------------------------------------
(* The values of the variables. A slot's checksum is that of some payload.   *)
Checksums == {0} \cup {CalculateChecksum(v) : v \in Values}

EntryHeaders == [key : Keys \cup {NoKey}, length : Nat, offset : Nat,
                 is_used : BOOLEAN, checksum : Checksums]

Calls == [pc : {"idle", "compact", "find", "fill", "copy", "advance"},
          key : Keys \cup {NoKey}, value : Values \cup {<<>>},
          slot : Slots \cup {NoSlot}, i : 0 .. MaxEntries, write_offset : Nat]

TypeOK ==
  /\ stamped \in BOOLEAN
  /\ entry_count \in Nat
  /\ next_offset \in Nat
  /\ entries \in [Slots -> EntryHeaders]
  /\ data \in [DataArea -> Byte]
  /\ initialized \in BOOLEAN
  /\ call \in Calls
  /\ written \in [Keys -> Values \cup {Nothing}]

(* Between two calls the header's entry_count is the number of used slots,
   whatever mix of insertions, overwrites, removals, failed Puts and restarts
   led there (entry_count++ and entry_count-- in Put and Remove).            *)
EntryCountExact == call = Idle => entry_count = Cardinality(Used)

(* No two used slots hold the same key: a second slot for a key would make
   Remove resurrect an older value, as FindEntry stops at the first match.   *)
UniqueKeys == \A s, t \in Used : entries[s].key = entries[t].key => s = t

(* Between two calls every used slot designates bytes of the data area below
   next_offset, and no two used slots share a byte: compaction and appends
   give each entry a region of its own inside the file.                      *)
LayoutSound ==
  initialized /\ call = Idle =>
    /\ next_offset \in DataStart .. FileSize
    /\ \A s \in Used : /\ DataStart <= entries[s].offset
                       /\ entries[s].offset + entries[s].length <= next_offset
    /\ \A s, t \in Used : s # t =>
         \/ entries[s].offset + entries[s].length <= entries[t].offset
         \/ entries[t].offset + entries[t].length <= entries[s].offset

(* Between two calls the index holds exactly the keys whose last Put
   succeeded and that no Remove or Clear took out, and when Get(k) returns
   true its bytes have the length and the checksum of that last Put's payload,
   also after compactions that moved other entries over the bytes.           *)
GetMatchesLastPut ==
  call = Idle =>
    \A k \in Keys :
      /\ (written[k] = Nothing) <=> (FindEntry(k) = NoSlot)
      /\ Get(k) # Nothing =>
           /\ Len(Get(k)) = Len(written[k])
           /\ CalculateChecksum(Get(k)) = CalculateChecksum(written[k])

(* The space held by used slots, from slot i on *)
LiveBytesFrom(i) ==
  {p \in (i .. MaxEntries - 1) \X (1 .. FileSize) :
     entries[p[1]].is_used /\ p[2] <= entries[p[1]].length}
LiveBytes == Cardinality(LiveBytesFrom(0))

(* CompactCache leaves no hole: when it ends, the data below next_offset is
   exactly what the used slots hold, so a Put that still does not fit is
   refused only because the live entries fill the file.                      *)
CompactionReclaimsAll ==
  [][call.pc = "compact" /\ call'.pc # "compact"
       => next_offset' = DataStart + LiveBytes']_vars

(* Slot order is address order *)
Ordered ==
  \A s, t \in Used : s < t =>
    entries[s].offset + entries[s].length <= entries[t].offset
AllIntact == \A s \in Used : Intact(s)

(* Compaction of a table whose slot order is its address order (no slot has
   been overwritten or reused since the regions were laid out) keeps every
   entry's bytes: each memmove lands below all the bytes not yet moved.      *)
OrderedCompactionKeepsData ==
  [][call.pc = "compact" /\ Ordered /\ AllIntact
       => Ordered' /\ AllIntact']_vars

(* Every step of the cache is a step of the map that forgets only during a
   Put, so no Remove, Clear, restart or failed Put makes a Get answer wrongly
   or lose another key's value.                                              *)
Map == INSTANCE LossyMap WITH
  content <- written,
  view    <- [k \in Keys |-> Get(k)],
  pending <- IF call = Idle THEN <<>> ELSE <<call.key, call.value>>
ImplementsLossyMap == Map!Spec

(* No entry is corrupted by the cache itself: the "Data corruption detected"
   branch of Get is for damage from outside. *)
NoSelfCorruption == call = Idle => AllIntact
=============================================================================
