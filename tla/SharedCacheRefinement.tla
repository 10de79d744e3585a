------------------------- MODULE SharedCacheRefinement -------------------------
(***************************************************************************)
(* SharedCache implements LossyMap, for any keys, payloads, table and file *)
(* size.  What a step of the cache does to the map is first said over the  *)
(* cache's own state (MapStep): an answer of Get has the length and the    *)
(* checksum of the payload it stands for.  From there the map is reached   *)
(* in two ways: over fingerprints of payloads, in every behaviour, and     *)
(* over the payloads themselves, in those where no Get takes other bytes   *)
(* for a payload because they have its fingerprint.                        *)
(***************************************************************************)
EXTENDS SharedCacheProofs

(* The memcpy has been made: the claimed slot designates the payload *)
CopyInv == call.pc = "advance" => BytesOf(call.slot) = call.value

(* All that the map's steps rely on: nothing about the layout of the file *)
TableInv ==
  /\ entries \in [Slots -> EntryHeaders]
  /\ written \in [Keys -> Values \cup {Nothing}]
  /\ CallInv /\ StampInv /\ UniqueKeys /\ ContentInv /\ CopyInv

Pending == IF call = Idle THEN <<>> ELSE <<call.key, call.value>>

(* Get cannot tell b from c *)
Same(b, c) == Len(b) = Len(c) /\ CalculateChecksum(b) = CalculateChecksum(c)

(* Get(k) misses or stands for what was last put, or for what is being put *)
Honest(k) == Get(k) # Nothing => written[k] # Nothing /\ Same(Get(k), written[k])
Early(k)  == Get(k) # Nothing /\ call # Idle /\ k = call.key /\ Same(Get(k), call.value)

Kept == \A k \in Keys : Get(k)' = Get(k)

Stays == Kept /\ UNCHANGED written /\ Pending' = Pending

Begins(k, v) == Pending = <<>> /\ Pending' = <<k, v>> /\ Kept /\ UNCHANGED written

Disturbs ==
  /\ call # Idle /\ Pending' = Pending /\ UNCHANGED written
  /\ call' # Idle /\ call'.key = call.key /\ call'.value = call.value
  /\ \A k \in Keys : Honest(k)' \/ Early(k)'

Commits ==
  /\ call # Idle /\ Get(call.key) = call.value
  /\ written' = [written EXCEPT ![call.key] = call.value]
  /\ Pending' = <<>> /\ Kept

Aborts ==
  /\ call # Idle /\ \A k \in Keys : Honest(k)
  /\ Pending' = <<>> /\ Kept /\ UNCHANGED written

Removes(k) ==
  /\ Pending = <<>> /\ Pending' = <<>> /\ written[k] # Nothing
  /\ written' = [written EXCEPT ![k] = Nothing]
  /\ \A j \in Keys : Get(j)' = IF j = k THEN Nothing ELSE Get(j)

Clears ==
  /\ Pending = <<>> /\ Pending' = <<>>
  /\ written' = [k \in Keys |-> Nothing]
  /\ \A k \in Keys : Get(k)' = Nothing

MapStep ==
  \/ Stays \/ Disturbs \/ Commits \/ Aborts \/ Clears
  \/ \E k \in Keys : (\E v \in Values : Begins(k, v)) \/ Removes(k)
-----------------------------------------------------------------------------
(* Lemmas about Get *)

(* Get depends on the table and the bytes alone. *)
LEMMA SameFileSameAnswers ==
  ASSUME UNCHANGED <<entries, data>>
  PROVE  Kept
<1>1. ASSUME NEW k PROVE FindEntry(k)' = FindEntry(k)
  BY DEF FindEntry, Holding, Used
<1>2. ASSUME NEW s PROVE BytesOf(s)' = BytesOf(s) /\ Intact(s)' = Intact(s)
  BY DEF BytesOf, Intact
<1> QED  BY <1>1, <1>2 DEF Kept, Get

(* A Get that answers has found a used slot with intact bytes. *)
LEMMA GetFinds ==
  ASSUME NEW k, Get(k) # Nothing
  PROVE  LET s == FindEntry(k)
         IN  s \in Used /\ entries[s].key = k /\ Intact(s) /\ Get(k) = BytesOf(s)
<1>1. FindEntry(k) # NoSlot /\ Intact(FindEntry(k)) /\ Get(k) = BytesOf(FindEntry(k))
  BY DEF Get
<1> QED  BY <1>1, FindEntryFinds DEF Used

(* A key without a slot is a miss. *)
LEMMA NoSlotNoAnswer ==
  ASSUME NEW k, Holding(k) = {}
  PROVE  Get(k) = Nothing
BY FindEntryFinds DEF Get, Holding, Used

(* An empty table answers nothing. *)
LEMMA EmptyAnswersNothing ==
  (Used = {})' => (\A k \in Keys : Get(k) = Nothing)'
<1>1. Used = {} => \A k \in Keys : Get(k) = Nothing
  BY NoSlotNoAnswer DEF Holding
<1> QED  BY <1>1, PTL

(* The one slot of a key is the one that is found. *)
LEMMA FindsTheSlot ==
  ASSUME UniqueKeys, NEW s \in Used
  PROVE  FindEntry(entries[s].key) = s
<1>1. Holding(entries[s].key) # {}
  BY DEF Holding
<1>2. FindEntry(entries[s].key) \in Used /\ entries[FindEntry(entries[s].key)].key = entries[s].key
  BY <1>1, FindEntryFinds DEF Used
<1> QED  BY <1>2 DEF UniqueKeys

(* While the table describes what was written, every answer is honest, or early
   for the key of a Put that has filled its slot. *)
LEMMA Answers ==
  ASSUME TableInv, NEW k \in Keys
  PROVE  /\ Honest(k) \/ Early(k)
         /\ call.pc \notin {"copy", "advance"} => Honest(k)
<1> SUFFICES ASSUME Get(k) # Nothing
             PROVE  \/ written[k] # Nothing /\ Same(Get(k), written[k])
                    \/ call.pc \in {"copy", "advance"} /\ Early(k)
  BY DEF Honest
<1> DEFINE s == FindEntry(k)
<1>1. s \in Used /\ entries[s].key = k /\ Intact(s) /\ Get(k) = BytesOf(s)
  BY GetFinds
<1>2. entries[s].length \in Nat
  BY <1>1 DEF TableInv, EntryHeaders, Used
<1>3. /\ Len(Get(k)) = entries[s].length
      /\ CalculateChecksum(Get(k)) = entries[s].checksum
  BY <1>1, <1>2 DEF BytesOf, Intact
<1> HIDE DEF s
<1>4. CASE Filling(s)
  <2>1. /\ call.pc \in {"copy", "advance"} /\ call # Idle
        /\ entries[s] = [key |-> call.key, length |-> Len(call.value),
                         offset |-> next_offset, is_used |-> TRUE,
                         checksum |-> CalculateChecksum(call.value)]
    BY <1>4, IdleType DEF Filling, TableInv, CallInv
  <2> QED  BY <1>1, <1>3, <2>1 DEF Early, Same
<1>5. CASE ~Filling(s)
  BY <1>1, <1>3, <1>5 DEF TableInv, ContentInv, Same
<1> QED  BY <1>4, <1>5

(* The same of the state a step leads to. *)
LEMMA AnswersAfter ==
  TableInv' => (\A k \in Keys : Honest(k) \/ Early(k))'
<1>1. TableInv => \A k \in Keys : Honest(k) \/ Early(k)
  BY Answers
<1> QED  BY <1>1, PTL
-----------------------------------------------------------------------------
(* What each action of the cache is to the map *)

LEMMA IdleMeansNothingPending ==
  ASSUME TableInv
  PROVE  /\ call.pc = "idle" => call = Idle
         /\ call.pc # "idle" => /\ call # Idle /\ Pending = <<call.key, call.value>>
                                /\ call.key \in Keys /\ call.value \in Values
BY IdleType DEF TableInv, CallInv, Pending

(* A step inside a Put that neither returns nor touches written disturbs. *)
LEMMA InsideDisturbs ==
  ASSUME TableInv, TableInv', call.pc # "idle", call'.pc # "idle",
         call'.key = call.key, call'.value = call.value, UNCHANGED written
  PROVE  MapStep
<1>1. /\ call # Idle /\ Pending = <<call.key, call.value>>
  BY IdleMeansNothingPending
<1>2. call' # Idle
  BY IdleType
<1>3. Pending' = Pending
  BY <1>1, <1>2 DEF Pending
<1>4. \A k \in Keys : Honest(k)' \/ Early(k)'
  BY AnswersAfter
<1> QED  BY <1>1, <1>2, <1>3, <1>4 DEF MapStep, Disturbs

(* A step that returns without having stored anything aborts. *)
LEMMA ReturnAborts ==
  ASSUME TableInv, call.pc \in {"compact", "find", "fill", "dead"}, call' = Idle,
         UNCHANGED <<entries, data, written>>
  PROVE  MapStep
<1>1. call # Idle /\ \A k \in Keys : Honest(k)
  BY IdleMeansNothingPending, Answers
<1>2. Pending' = <<>>
  BY DEF Pending
<1>3. Kept
  BY SameFileSameAnswers
<1> QED  BY <1>1, <1>2, <1>3 DEF MapStep, Aborts

(* Between calls, a step that leaves the table, the bytes and written alone is none. *)
LEMMA NothingHappens ==
  ASSUME UNCHANGED <<entries, data, written, call>>
  PROVE  MapStep
<1>1. Kept /\ Pending' = Pending
  BY SameFileSameAnswers DEF Pending
<1> QED  BY <1>1 DEF MapStep, Stays

(* A new file is as empty before as after its initialization. *)
LEMMA EnsureInitializedMaps ==
  ASSUME TableInv, EnsureInitialized
  PROVE  MapStep
<1>1. CASE stamped
  BY <1>1, NothingHappens DEF EnsureInitialized, file
<1>2. CASE ~stamped
  <2>1. /\ Used = {} /\ written = [k \in Keys |-> Nothing]
        /\ UNCHANGED call
        /\ entries' = [s \in Slots |-> EmptyEntry] /\ written' = [k \in Keys |-> Nothing]
    BY <1>2 DEF TableInv, StampInv, EnsureInitialized, InitializeCache
  <2>2. Used' = {}
    BY <2>1, EmptyTable DEF Used
  <2>3. \A k \in Keys : Get(k) = Nothing
    BY <2>1, NoSlotNoAnswer DEF Holding
  <2>4. Kept
    BY <2>2, <2>3, EmptyAnswersNothing DEF Kept
  <2> QED  BY <2>1, <2>4 DEF MapStep, Stays, Pending
<1> QED  BY <1>1, <1>2

LEMMA ClearMaps ==
  ASSUME Clear
  PROVE  MapStep
<1>1. /\ call = Idle /\ call' = Idle
      /\ entries' = [s \in Slots |-> EmptyEntry] /\ written' = [k \in Keys |-> Nothing]
  BY DEF Clear, Ready, InitializeCache
<1>2. (Used = {})'
  BY <1>1, EmptyTable DEF Used
<1>3. \A k \in Keys : Get(k)' = Nothing
  BY <1>2, EmptyAnswersNothing
<1> QED  BY <1>1, <1>3 DEF MapStep, Clears, Pending

LEMMA PutStartMaps ==
  ASSUME NEW k \in Keys, NEW v \in Values, PutStart(k, v)
  PROVE  MapStep
<1>1. /\ call = Idle
      /\ call'.pc \in {"compact", "find"} /\ call'.key = k /\ call'.value = v
      /\ UNCHANGED <<entries, data, written>>
  BY DEF PutStart, Ready, Idle, file
<1>2. call' # Idle
  BY <1>1, IdleType
<1>3. Kept
  BY <1>1, SameFileSameAnswers
<1> QED  BY <1>1, <1>2, <1>3 DEF MapStep, Begins, Pending

(* The memmoves of a compaction may lose answers and bring them back, *)
LEMMA CompactSlotMaps ==
  ASSUME TableInv, TableInv', call \in Calls, CompactSlot
  PROVE  MapStep
<1>1. /\ call.pc = "compact" /\ call'.pc = "compact"
      /\ call'.key = call.key /\ call'.value = call.value /\ UNCHANGED written
  BY DEF CompactSlot, Calls
<1> QED  BY <1>1, InsideDisturbs

(* its end lets the Put go on or gives it up. *)
LEMMA CompactEndMaps ==
  ASSUME TableInv, TableInv', call \in Calls, CompactEnd
  PROVE  MapStep
<1>1. call.pc = "compact" /\ UNCHANGED <<entries, data, written>>
  BY DEF CompactEnd
<1>2. CASE call' = Idle
  BY <1>1, <1>2, ReturnAborts
<1>3. CASE call' # Idle
  <2>1. call' = [call EXCEPT !.pc = "find", !.i = 0]
    BY <1>3 DEF CompactEnd, Return
  <2>2. call'.pc = "find" /\ call'.key = call.key /\ call'.value = call.value
    BY <2>1 DEF Calls
  <2> QED  BY <1>1, <2>2, InsideDisturbs
<1> QED  BY <1>2, <1>3

(* The slot search returns, *)
LEMMA PutNoSlotMaps ==
  ASSUME TableInv, PutNoSlot
  PROVE  MapStep
BY ReturnAborts DEF PutNoSlot, Return, file

(* or the Put goes on to the slot's fields and the memcpy, *)
LEMMA PutStepsMap ==
  ASSUME TableInv, TableInv', call \in Calls,
         PutReuseSlot \/ PutClaimSlot \/ PutFillEntry \/ PutCopy
  PROVE  MapStep
<1>1. /\ call.pc # "idle" /\ call'.pc # "idle"
      /\ call'.key = call.key /\ call'.value = call.value /\ UNCHANGED written
  BY DEF PutReuseSlot, PutClaimSlot, PutFillEntry, PutCopy, Calls
<1> QED  BY <1>1, InsideDisturbs

(* and commits with the payload in place: a Get would return it. *)
LEMMA PutAdvanceMaps ==
  ASSUME TableInv, PutAdvance
  PROVE  MapStep
<1>1. /\ call.pc = "advance" /\ call # Idle /\ call' = Idle
      /\ UNCHANGED <<entries, data>>
      /\ written' = [written EXCEPT ![call.key] = call.value]
  BY IdleType DEF PutAdvance, Return
<1>2. /\ call.slot \in Used /\ entries[call.slot].key = call.key
      /\ entries[call.slot].checksum = CalculateChecksum(call.value)
      /\ BytesOf(call.slot) = call.value
  BY <1>1 DEF TableInv, CallInv, CopyInv, Used
<1>3. FindEntry(call.key) = call.slot /\ call.slot # NoSlot
  BY <1>2, FindsTheSlot, SizesAssumption DEF TableInv, NoSlot, Used, Slots
<1>4. Get(call.key) = call.value
  BY <1>2, <1>3 DEF Get, Intact
<1> QED  BY <1>1, <1>4, SameFileSameAnswers DEF MapStep, Commits, Pending

(* A key's only slot is released and no other's is touched. *)
LEMMA ReleaseMaps ==
  ASSUME TableInv, NEW k \in Keys, FindEntry(k) # NoSlot, call = Idle, call' = Idle,
         NEW e, entries' = [entries EXCEPT ![FindEntry(k)] = e], ~e.is_used,
         written' = [written EXCEPT ![k] = Nothing], data' = data
  PROVE  MapStep
<1> DEFINE r == FindEntry(k)
<1>1. /\ entries' = [entries EXCEPT ![r] = e] /\ ~e.is_used
      /\ written' = [written EXCEPT ![k] = Nothing] /\ data' = data
  OBVIOUS
<1>2. r \in Used /\ entries[r].key = k
  BY FindEntryFinds DEF Used
<1> HIDE DEF r
<1>3. /\ ~entries'[r].is_used
      /\ \A s \in Slots : s # r => entries'[s] = entries[s]
  BY <1>1, <1>2 DEF TableInv, Used
<1>4. written[k] # Nothing
  BY <1>2, IdleType DEF TableInv, ContentInv, Filling
<1>5. ASSUME NEW j \in Keys PROVE Get(j)' = IF j = k THEN Nothing ELSE Get(j)
  <2>1. CASE j = k
    <3>1. Holding(k)' = {}
      BY <1>2, <1>3 DEF TableInv, UniqueKeys, Holding, Used
    <3>2. FindEntry(k)' = NoSlot
      BY <3>1 DEF FindEntry
    <3> QED  BY <2>1, <3>2 DEF Get
  <2>2. CASE j # k
    <3>1. Holding(j)' = Holding(j)
      BY <1>2, <1>3, <2>2 DEF Holding, Used
    <3>2. FindEntry(j)' = FindEntry(j)
      BY <3>1 DEF FindEntry
    <3>3. CASE FindEntry(j) = NoSlot
      BY <2>2, <3>2, <3>3 DEF Get
    <3>4. CASE FindEntry(j) # NoSlot
      <4>1. FindEntry(j) \in Slots /\ FindEntry(j) # r
        BY <1>2, <2>2, <3>4, FindEntryFinds
      <4>2. PICK s \in Slots : s = FindEntry(j) /\ s # r
        BY <4>1
      <4>3. BytesOf(s)' = BytesOf(s) /\ Intact(s)' = Intact(s)
        BY <1>1, <1>3, <4>2 DEF BytesOf, Intact
      <4>4. FindEntry(j)' = s /\ s # NoSlot
        BY <3>2, <3>4, <4>2
      <4> QED  BY <2>2, <4>2, <4>3, <4>4 DEF Get
    <3> QED  BY <3>3, <3>4
  <2> QED  BY <2>1, <2>2
<1> QED  BY <1>1, <1>4, <1>5 DEF MapStep, Removes, Pending

(* Remove is that, with the slot zeroed. *)
LEMMA RemoveMaps ==
  ASSUME TableInv, NEW k \in Keys, Remove(k)
  PROVE  MapStep
<1>1. ~EmptyEntry.is_used
  BY DEF EmptyEntry
<1>2. /\ call = Idle /\ call' = Idle /\ FindEntry(k) # NoSlot
      /\ entries' = [entries EXCEPT ![FindEntry(k)] = EmptyEntry]
      /\ written' = [written EXCEPT ![k] = Nothing] /\ data' = data
  BY DEF Remove, Ready
<1> QED  BY <1>1, <1>2, ReleaseMaps

(* Every step of the cache is one of the map's. *)
LEMMA NextMaps ==
  ASSUME TableInv, TableInv', call \in Calls, [Next]_vars
  PROVE  MapStep
<1>1. CASE EnsureInitialized
  BY <1>1, EnsureInitializedMaps
<1>2. CASE \E k \in Keys, v \in Values : PutStart(k, v)
  BY <1>2, PutStartMaps
<1>3. CASE CompactSlot \/ CompactEnd
  BY <1>3, CompactSlotMaps, CompactEndMaps
<1>4. CASE PutReuseSlot \/ PutClaimSlot \/ PutFillEntry \/ PutCopy
  BY <1>4, PutStepsMap
<1>5. CASE PutNoSlot \/ PutAdvance
  BY <1>5, PutNoSlotMaps, PutAdvanceMaps
<1>6. CASE \E k \in Keys : Remove(k)
  BY <1>6, RemoveMaps
<1>7. CASE Clear
  BY <1>7, ClearMaps
<1>8. CASE Restart \/ UNCHANGED vars
  BY <1>8, NothingHappens DEF Restart, vars, file
<1> QED  BY <1>1, <1>2, <1>3, <1>4, <1>5, <1>6, <1>7, <1>8 DEF Next
-----------------------------------------------------------------------------
(* The memcpy stores the payload where the slot says it is. *)
LEMMA CopyStores ==
  ASSUME TableInv, call \in Calls, PutCopy
  PROVE  CopyInv'
<1>1. /\ call.pc = "copy" /\ initialized
      /\ data' = Stored(call.value, entries[call.slot].offset)
      /\ UNCHANGED entries
      /\ call'.slot = call.slot /\ call'.value = call.value
      /\ call.slot \in Slots /\ call.value \in Values
      /\ entries[call.slot].offset = next_offset
      /\ entries[call.slot].length = Len(call.value)
      /\ next_offset + Len(call.value) <= FileSize
      /\ next_offset \in DataStart .. FileSize
  BY DEF PutCopy, Calls, TableInv, CallInv, StampInv
<1>2. call.value \in Seq(Byte) /\ Len(call.value) \in Nat
  BY <1>1, ValuesAssumption
<1>3. ASSUME NEW n \in 1 .. Len(call.value)
      PROVE  data'[next_offset + n - 1] = call.value[n]
  <2>1. /\ next_offset + n - 1 \in DataArea
        /\ next_offset + n - 1 \in next_offset .. next_offset + Len(call.value) - 1
        /\ (next_offset + n - 1) - next_offset + 1 = n
    BY <1>1, <1>2, SizesAssumption DEF DataArea
  <2> QED  BY <1>1, <2>1 DEF Stored
<1>4. BytesOf(call.slot)' = [n \in 1 .. Len(call.value) |-> call.value[n]]
  BY <1>1, <1>3 DEF BytesOf
<1>5. call.value = [n \in 1 .. Len(call.value) |-> call.value[n]]
  BY <1>2
<1> QED  BY <1>1, <1>4, <1>5 DEF CopyInv

(* Nothing but the memcpy leads behind it. *)
LEMMA NextCopy ==
  ASSUME TableInv, call \in Calls, [Next]_vars
  PROVE  CopyInv'
<1>1. CASE PutCopy
  BY <1>1, CopyStores
<1>2. CASE UNCHANGED vars
  BY <1>2 DEF TableInv, CopyInv, BytesOf, vars, file
<1>3. CASE Next /\ ~PutCopy
  <2>1. call'.pc # "advance"
    BY <1>3, IdleType
    DEF TableInv, CallInv, Next, EnsureInitialized, PutStart, CompactSlot, CompactEnd,
        PutReuseSlot, PutClaimSlot, PutNoSlot, PutFillEntry, PutAdvance, Remove, Clear,
        Restart, Return, Ready, Calls
  <2> QED  BY <2>1 DEF CopyInv
<1> QED  BY <1>1, <1>2, <1>3

LEMMA TableInvariance == Spec => [](IInv /\ TableInv)
<1>1. Init => CopyInv
  BY IdleType DEF Init, CopyInv
<1>2. IInv /\ CopyInv => TableInv /\ call \in Calls
  BY DEF IInv, TypeOK, TableInv
<1>3. IInv /\ CopyInv /\ [Next]_vars => CopyInv'
  BY <1>2, NextCopy
<1> QED  BY <1>1, <1>2, <1>3, Invariance, PTL DEF Spec
-----------------------------------------------------------------------------
(* The map over fingerprints: what Get can tell about a payload *)

Fingerprint(b) == IF b = Nothing THEN Nothing ELSE <<Len(b), CalculateChecksum(b)>>

PendingPrint == IF call = Idle THEN <<>> ELSE <<call.key, Fingerprint(call.value)>>

FingerprintMap == INSTANCE LossyMap WITH
  Values  <- {Fingerprint(v) : v \in Values},
  content <- [k \in Keys |-> Fingerprint(written[k])],
  view    <- [k \in Keys |-> Fingerprint(Get(k))],
  pending <- PendingPrint

(* Answers Get cannot tell apart have one fingerprint. *)
LEMMA SamePrint ==
  ASSUME NEW b, NEW c, Same(b, c), b # Nothing, c # Nothing
  PROVE  Fingerprint(b) = Fingerprint(c)
BY DEF Same, Fingerprint

(* An honest or early answer is one of Disturb's choices. *)
LEMMA PrintOfAnswer ==
  ASSUME NEW k \in Keys, CallInv
  PROVE  /\ Honest(k) => Fingerprint(Get(k)) \in {Nothing, Fingerprint(written[k])}
         /\ Early(k) => <<k, Fingerprint(Get(k))>> = PendingPrint
<1>1. CASE Get(k) = Nothing
  BY <1>1 DEF Fingerprint, Early
<1>2. CASE Get(k) # Nothing
  <2>1. Honest(k) => Fingerprint(Get(k)) = Fingerprint(written[k])
    BY <1>2, SamePrint DEF Honest
  <2>2. ASSUME Early(k) PROVE Fingerprint(Get(k)) = Fingerprint(call.value)
    <3>1. call.value # Nothing
      BY <2>2, ValuesAssumption DEF Early, CallInv, Nothing
    <3> QED  BY <1>2, <2>2, <3>1, SamePrint DEF Early
  <2> QED  BY <2>1, <2>2 DEF Early, PendingPrint
<1> QED  BY <1>1, <1>2

(* The same of the state a step leads to. *)
LEMMA PrintOfAnswerAfter ==
  CallInv' => (\A k \in Keys :
    /\ Honest(k) => Fingerprint(Get(k)) \in {Nothing, Fingerprint(written[k])}
    /\ Early(k) => <<k, Fingerprint(Get(k))>> = PendingPrint)'
<1>1. CallInv => \A k \in Keys :
    /\ Honest(k) => Fingerprint(Get(k)) \in {Nothing, Fingerprint(written[k])}
    /\ Early(k) => <<k, Fingerprint(Get(k))>> = PendingPrint
  BY PrintOfAnswer
<1> QED  BY <1>1, PTL

(* Fingerprints are kept where answers are. *)
LEMMA KeptPrints ==
  ASSUME Kept
  PROVE  [k \in Keys |-> Fingerprint(Get(k))]' = [k \in Keys |-> Fingerprint(Get(k))]
BY DEF Kept, Fingerprint

(* The pending pair's fingerprint. *)
LEMMA PendingPrintFollows ==
  ASSUME CallInv
  PROVE  /\ Pending = <<>> <=> PendingPrint = <<>>
         /\ call # Idle => /\ PendingPrint # <<>> /\ PendingPrint[1] = call.key
                           /\ PendingPrint[2] = Fingerprint(call.value)
                           /\ call.key \in Keys /\ call.value \in Values
BY DEF CallInv, Pending, PendingPrint

(* Each step of the cache's map is one of the map over fingerprints. *)
LEMMA MapStepPrints ==
  ASSUME TableInv, TableInv', MapStep
  PROVE  [FingerprintMap!Next]_FingerprintMap!vars
<1> DEFINE content == [k \in Keys |-> Fingerprint(written[k])]
           view    == [k \in Keys |-> Fingerprint(Get(k))]
<1> USE DEF PendingPrint
<1>1. CASE Stays
  <2>1. PendingPrint' = PendingPrint
    BY <1>1 DEF Stays, Pending
  <2>2. content' = content /\ view' = view
    BY <1>1, KeptPrints DEF Stays, Fingerprint
  <2> QED  BY <2>1, <2>2 DEF FingerprintMap!vars
<1>2. ASSUME NEW k \in Keys, NEW v \in Values, Begins(k, v)
      PROVE  FingerprintMap!Next
  <2>1. PendingPrint = <<>> /\ PendingPrint' = <<k, Fingerprint(v)>>
    BY <1>2 DEF Begins, Pending
  <2>2. content' = content /\ view' = view
    BY <1>2, KeptPrints DEF Begins, Fingerprint
  <2> QED  BY <2>1, <2>2 DEF FingerprintMap!Next, FingerprintMap!Begin
<1>3. CASE Disturbs
  <2>1. PendingPrint # <<>> /\ PendingPrint' = PendingPrint
    BY <1>3 DEF Disturbs
  <2>2. content' = content
    BY <1>3 DEF Disturbs, Fingerprint
  <2>3. ASSUME NEW k \in Keys
        PROVE  \/ Fingerprint(Get(k))' \in {Nothing, Fingerprint(written[k])'}
               \/ <<k, Fingerprint(Get(k))'>> = PendingPrint'
    BY <1>3, PrintOfAnswerAfter DEF Disturbs, TableInv
  <2>4. \A k \in Keys : \/ view'[k] \in {Nothing, content[k]}
                        \/ <<k, view'[k]>> = PendingPrint
    BY <2>1, <2>2, <2>3
  <2> QED  BY <2>1, <2>2, <2>4 DEF FingerprintMap!Next, FingerprintMap!Disturb
<1>4. CASE Commits
  <2>1. /\ PendingPrint # <<>> /\ PendingPrint' = <<>>
        /\ PendingPrint[1] = call.key /\ PendingPrint[2] = Fingerprint(call.value)
        /\ call.key \in Keys
    BY <1>4, PendingPrintFollows DEF Commits, Pending, TableInv
  <2>2. view[call.key] = Fingerprint(call.value) /\ view' = view
    BY <1>4, <2>1, KeptPrints DEF Commits
  <2>3. content' = [content EXCEPT ![call.key] = Fingerprint(call.value)]
    BY <1>4, <2>1 DEF Commits, Fingerprint, TableInv
  <2> QED  BY <2>1, <2>2, <2>3 DEF FingerprintMap!Next, FingerprintMap!Commit
<1>5. CASE Aborts
  <2>1. PendingPrint # <<>> /\ PendingPrint' = <<>>
    BY <1>5 DEF Aborts, Pending
  <2>2. view' = view /\ content' = content
    BY <1>5, KeptPrints DEF Aborts, Fingerprint
  <2>3. \A k \in Keys : view[k] \in {Nothing, content[k]}
    BY <1>5, PrintOfAnswer DEF Aborts, TableInv
  <2> QED  BY <2>1, <2>2, <2>3 DEF FingerprintMap!Next, FingerprintMap!Abort
<1>6. ASSUME NEW k \in Keys, Removes(k)
      PROVE  FingerprintMap!Next
  <2>1. PendingPrint = <<>> /\ PendingPrint' = <<>>
    BY <1>6 DEF Removes, Pending
  <2>2. content[k] # Nothing /\ content' = [content EXCEPT ![k] = Nothing]
    BY <1>6 DEF Removes, Fingerprint, Nothing, TableInv
  <2>3. view' = [view EXCEPT ![k] = Nothing]
    BY <1>6 DEF Removes, Fingerprint
  <2> QED  BY <2>1, <2>2, <2>3 DEF FingerprintMap!Next, FingerprintMap!Remove
<1>7. CASE Clears
  <2>1. PendingPrint = <<>> /\ PendingPrint' = <<>>
    BY <1>7 DEF Clears, Pending
  <2>2. /\ content' = [k \in Keys |-> Nothing] /\ view' = [k \in Keys |-> Nothing]
    BY <1>7 DEF Clears, Fingerprint
  <2> QED  BY <2>1, <2>2 DEF FingerprintMap!Next, FingerprintMap!Clear
<1> QED  BY <1>1, <1>2, <1>3, <1>4, <1>5, <1>6, <1>7 DEF MapStep

(* A new file is the empty map. *)
LEMMA InitPrints == Init => FingerprintMap!Init
<1> SUFFICES ASSUME Init PROVE FingerprintMap!Init
  OBVIOUS
<1>1. call = Idle /\ written = [k \in Keys |-> Nothing] /\ \A k \in Keys : Get(k) = Nothing
  BY NoSlotNoAnswer DEF Init, Holding, Used, EmptyEntry
<1> QED  BY <1>1 DEF FingerprintMap!Init, PendingPrint, Fingerprint

(* The cache is a map that forgets only while a Put is in progress, as far as Get
   can tell: an answer has the length and the checksum of what was last put
   under its key, no call but that key's Put, Remove or Clear changes what it
   stands for, and a Put that succeeds can be read back exactly (Commits).
   Nothing is assumed of the checksum. *)
THEOREM CacheIsAFingerprintMap == Spec => FingerprintMap!Spec
<1>1. /\ IInv /\ TableInv /\ (IInv /\ TableInv)' /\ [Next]_vars
      => [FingerprintMap!Next]_FingerprintMap!vars
  BY NextMaps, MapStepPrints DEF IInv, TypeOK
<1> QED  BY <1>1, InitPrints, TableInvariance, PTL DEF Spec, FingerprintMap!Spec
-----------------------------------------------------------------------------
(* The map itself, in behaviours without a false match *)

(* No answer is taken for a payload it is not: where its length and checksum are
   those of what was last put under the key, or of what is being put, the bytes
   are too.                                                                  *)
Genuine ==
  \A k \in Keys :
    Get(k) # Nothing =>
      /\ written[k] # Nothing /\ Same(Get(k), written[k]) => Get(k) = written[k]
      /\ Early(k) => Get(k) = call.value

(* An honest answer is then the payload, and an early one too. *)
LEMMA AnswerIsPayload ==
  ASSUME Genuine, NEW k \in Keys
  PROVE  /\ Honest(k) => Get(k) \in {Nothing, written[k]}
         /\ Early(k) => <<k, Get(k)>> = Pending
BY DEF Genuine, Honest, Early, Pending

(* The same of the state a step leads to. *)
LEMMA AnswerIsPayloadAfter ==
  Genuine' => (\A k \in Keys : /\ Honest(k) => Get(k) \in {Nothing, written[k]}
                               /\ Early(k) => <<k, Get(k)>> = Pending)'
<1>1. Genuine => \A k \in Keys : /\ Honest(k) => Get(k) \in {Nothing, written[k]}
                                 /\ Early(k) => <<k, Get(k)>> = Pending
  BY AnswerIsPayload
<1> QED  BY <1>1, PTL

(* Each step of the cache's map is then one of LossyMap. *)
LEMMA MapStepMaps ==
  ASSUME Genuine, Genuine', TableInv, TableInv', MapStep
  PROVE  [Map!Next]_Map!vars
<1> DEFINE view == [k \in Keys |-> Get(k)]
<1>1. Kept => view' = view
  BY DEF Kept
<1>2. call # Idle => /\ Pending # <<>> /\ call.key \in Keys
                     /\ Pending[1] = call.key /\ Pending[2] = call.value
  BY DEF Pending, TableInv, CallInv
<1>3. CASE Stays
  BY <1>1, <1>3 DEF Stays, Pending, Map!vars
<1>4. ASSUME NEW k \in Keys, NEW v \in Values, Begins(k, v)
      PROVE  Map!Next
  BY <1>1, <1>4 DEF Begins, Pending, Map!Next, Map!Begin
<1>5. CASE Disturbs
  <2>1. Pending # <<>> /\ Pending' = Pending /\ written' = written
    BY <1>2, <1>5 DEF Disturbs
  <2>2. \A k \in Keys : \/ Get(k)' \in {Nothing, written[k]'} \/ <<k, Get(k)'>> = Pending'
    BY <1>5, AnswerIsPayloadAfter DEF Disturbs
  <2>3. \A k \in Keys : \/ view'[k] \in {Nothing, written[k]} \/ <<k, view'[k]>> = Pending
    BY <2>1, <2>2
  <2> QED  BY <2>1, <2>3 DEF Pending, Map!Next, Map!Disturb
<1>6. CASE Commits
  <2>1. view[call.key] = call.value
    BY <1>2, <1>6 DEF Commits
  <2> QED  BY <1>1, <1>2, <1>6, <2>1 DEF Commits, Pending, Map!Next, Map!Commit
<1>7. CASE Aborts
  <2>1. \A k \in Keys : view[k] \in {Nothing, written[k]}
    BY <1>7, AnswerIsPayload DEF Aborts
  <2> QED  BY <1>1, <1>2, <1>7, <2>1 DEF Aborts, Pending, Map!Next, Map!Abort
<1>8. ASSUME NEW k \in Keys, Removes(k)
      PROVE  Map!Next
  <2>1. view' = [view EXCEPT ![k] = Nothing]
    BY <1>8 DEF Removes
  <2> QED  BY <1>8, <2>1 DEF Removes, Pending, Map!Next, Map!Remove
<1>9. CASE Clears
  <2>1. view' = [k \in Keys |-> Nothing]
    BY <1>9 DEF Clears
  <2> QED  BY <1>9, <2>1 DEF Clears, Pending, Map!Next, Map!Clear
<1> QED  BY <1>3, <1>4, <1>5, <1>6, <1>7, <1>8, <1>9 DEF MapStep

(* A new file is the empty map. *)
LEMMA InitMaps == Init => Map!Init
<1> SUFFICES ASSUME Init PROVE Map!Init
  OBVIOUS
<1>1. call = Idle /\ written = [k \in Keys |-> Nothing] /\ \A k \in Keys : Get(k) = Nothing
  BY NoSlotNoAnswer DEF Init, Holding, Used, EmptyEntry
<1> QED  BY <1>1 DEF Map!Init

(* False matches are all that keeps the cache from being LossyMap: a behaviour in
   which a Get never takes other bytes for the payload is one of the map.  (A
   behaviour with a false match is possible, the 33 of calculate_checksum makes
   it easy; the theorem above is the one that holds there.) *)
THEOREM CacheIsALossyMap == Spec /\ []Genuine => ImplementsLossyMap
<1>1. /\ IInv /\ TableInv /\ Genuine /\ (IInv /\ TableInv /\ Genuine)' /\ [Next]_vars
      => [Map!Next]_Map!vars
  BY NextMaps, MapStepMaps DEF IInv, TypeOK
<1> QED  BY <1>1, InitMaps, TableInvariance, PTL DEF Spec, ImplementsLossyMap, Map!Spec
===============================================================================
