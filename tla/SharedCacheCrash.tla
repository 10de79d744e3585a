-------------------------- MODULE SharedCacheCrash --------------------------
(***************************************************************************)
(* The cache file of SharedCache under processes that are killed inside a  *)
(* call.  The file is mapped MAP_SHARED, so the stores a process made      *)
(* before it was killed are there for the next one; what msync adds        *)
(* against a loss of power is not modelled.  Stores reach the file in      *)
(* program order; a memcpy or memmove may be cut anywhere, the memset of   *)
(* the table between two slots.                                            *)
(*                                                                         *)
(* A kill inside Remove, Clear or the first call leaves the next process   *)
(* an uninitialized cache object on the file as it is.  A kill inside Put  *)
(* is two steps: the death ("dead" in call) and Recover, so that the call  *)
(* stays visible as the one that was under way.                            *)
(***************************************************************************)
EXTENDS SharedCache, Functions

CONSTANTS
  Windows,   \* the functions in which a process may be killed
  MaxKills   \* bound: how many processes are

Functions == {"initialize", "put", "compact", "remove"}

ASSUME CrashAssumption ==
  /\ Windows \subseteq Functions
  /\ MaxKills \in Nat

VARIABLE kills   \* how many processes were killed in each function

crashVars == <<vars, kills>>

KillIn(f) ==
  /\ f \in Windows
  /\ FoldFunction(+, 0, kills) < MaxKills
  /\ kills' = [kills EXCEPT ![f] = @ + 1]

Die == call' = [call EXCEPT !.pc = "dead"]

Pick(cond, new, old) == IF cond THEN new ELSE old

-----------------------------------------------------------------------------
(* InitializeCache, of a first call or of Clear: after the magic number and
   the version come the count, next_offset and the table, slot by slot       *)
KilledInInitialize ==
  /\ KillIn("initialize")
  /\ Ready \/ (~initialized /\ ~stamped)
  /\ \E stores \in 1 .. 3, cleared \in 0 .. MaxEntries :
       /\ cleared > 0 => stores = 3
       /\ stamped' = TRUE
       /\ entry_count' = Pick(stores >= 2, 0, entry_count)
       /\ next_offset' = Pick(stores = 3, DataStart, next_offset)
       /\ entries' = [s \in Slots |-> Pick(s < cleared, EmptyEntry, entries[s])]
  /\ written' = [k \in Keys |-> Pick(Holding(k)' = {}, Nothing, written[k])]
  /\ initialized' = FALSE
  /\ UNCHANGED <<data, call>>

(* Put while it fills the entry: key, length, offset and is_used come before
   the checksum                                                              *)
KilledInFill ==
  /\ KillIn("put")
  /\ call.pc = "fill"
  /\ \E stores \in 0 .. 4 :
       entries' = [entries EXCEPT ![call.slot] =
         [key      |-> Pick(stores >= 1, call.key, @.key),
          length   |-> Pick(stores >= 2, Len(call.value), @.length),
          offset   |-> Pick(stores >= 3, next_offset, @.offset),
          is_used  |-> Pick(stores = 4, TRUE, @.is_used),
          checksum |-> @.checksum]]
  /\ Die
  /\ UNCHANGED <<stamped, entry_count, next_offset, data, initialized, written>>

(* Put while it copies the payload, up to the move of next_offset *)
KilledInCopy ==
  /\ KillIn("put")
  /\ call.pc = "copy"
  /\ \E n \in 0 .. Len(call.value) :
       data' = Stored(SubSeq(call.value, 1, n), entries[call.slot].offset)
  /\ Die
  /\ UNCHANGED <<stamped, entry_count, next_offset, entries, initialized, written>>

(* Put in the loop of CompactCache or right behind it: a part of the slot's
   bytes have been moved, from the front or from the back, or all of them
   while the slot still says where they were                                 *)
KilledInCompact ==
  /\ KillIn("compact")
  /\ call.pc \in {"compact", "find"}
  /\ IF call.pc = "compact" /\ call.i < MaxEntries /\ entries[call.i].is_used
       THEN LET e == entries[call.i]
            IN  \E from \in 0 .. e.length, n \in 0 .. e.length :
                  /\ from + n <= e.length
                  /\ data' = Moved(e.offset + from, call.write_offset + from, n)
       ELSE UNCHANGED data
  /\ Die
  /\ UNCHANGED <<stamped, entry_count, next_offset, entries, initialized, written>>

(* mutant: the count is taken down before the slot is released *)
KilledInRemoveCounted(k) ==
  /\ KillIn("remove")
  /\ Ready
  /\ FindEntry(k) # NoSlot
  /\ entry_count' = entry_count - 1
  /\ initialized' = FALSE
  /\ UNCHANGED <<stamped, next_offset, entries, data, call, written>>

(* Remove: is_used goes first, the count last *)
KilledInRemove(k) ==
  /\ KillIn("remove")
  /\ Ready
  /\ FindEntry(k) # NoSlot
  /\ \E stores \in 0 .. 4 :
       entries' = [entries EXCEPT ![FindEntry(k)] =
         [key      |-> Pick(stores >= 1, NoKey, @.key),
          length   |-> Pick(stores >= 2, 0, @.length),
          offset   |-> Pick(stores >= 3, 0, @.offset),
          is_used  |-> FALSE,
          checksum |-> Pick(stores = 4, 0, @.checksum)]]
  /\ written' = [written EXCEPT ![k] = Nothing]
  /\ initialized' = FALSE
  /\ UNCHANGED <<stamped, entry_count, next_offset, data, call>>

Recover ==
  /\ call.pc = "dead"
  /\ initialized' = FALSE
  /\ Return
  /\ UNCHANGED <<file, written, kills>>

-----------------------------------------------------------------------------
InDataArea(offset, length) == offset >= DataStart /\ offset + length <= FileSize

(* No copy and no checksum leaves the data area, whichever processes were
   killed before: Put's memcpy, the two ends of every memmove of CompactCache,
   and between two calls the bytes of every entry a Get could ask for.  The
   code trusts next_offset and the table for it and tests neither.           *)
AccessesInside ==
  /\ call.pc = "fill" => InDataArea(next_offset, Len(call.value))
  /\ call.pc = "compact" /\ call.i < MaxEntries /\ entries[call.i].is_used =>
       LET e == entries[call.i]
       IN  InDataArea(e.offset, e.length) /\ InDataArea(call.write_offset, e.length)
  /\ call = Idle =>
       \A s \in Used : InDataArea(entries[s].offset, entries[s].length)

CrashInit == Init /\ kills = [f \in Functions |-> 0]

(* What an access outside the data area does is undefined: behaviours end there *)
CrashNext ==
  /\ AccessesInside
  /\ \/ Next /\ UNCHANGED kills
     \/ KilledInInitialize
     \/ KilledInFill \/ KilledInCopy
     \/ KilledInCompact
     \/ \E k \in Keys : KilledInRemove(k)
     \/ Recover

CrashSpec == CrashInit /\ [][CrashNext]_crashVars

(* A kill inside CompactCache or Remove breaks nothing that a later process relies
   on.  One inside Put or InitializeCache may.                               *)
Broken == kills["put"] + kills["initialize"] > 0

(* As long as nobody is killed inside Put or InitializeCache, no copy and no
   checksum leaves the data area: a half-done compaction is taken up by the next
   process from whatever the table says.                                     *)
InsideUnlessBroken == ~Broken => AccessesInside

(* Until then every step is one of LossyMap, also with processes that are killed
   in the middle of a memmove or of a Remove: no value is lost between two Puts,
   and none comes back wrong.                                                *)
Fragile == INSTANCE CrashMap WITH
  content <- written,
  view    <- [k \in Keys |-> Get(k)],
  pending <- IF call = Idle THEN <<>> ELSE <<call.key, call.value>>,
  broken  <- Broken
ImplementsCrashMap == Fragile!CrashSpec

(* entry_count is never below the number of used slots and exceeds it by at most
   one for each process killed in Put (entry_count++ comes before is_used) or
   in Remove (entry_count-- comes after it).  A kill inside InitializeCache may
   leave it below.                                                           *)
CountDrift ==
  call = Idle /\ kills["initialize"] = 0 =>
    entry_count - Cardinality(Used) \in 0 .. kills["put"] + kills["remove"]

(* Get answers only payloads some Put was given: the checksum tells bytes that
   were never stored from those that were.                                   *)
NothingInvented ==
  call = Idle => \A k \in Keys : Get(k) \in Values \cup {Nothing}
=============================================================================
