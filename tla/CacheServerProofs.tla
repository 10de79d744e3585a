--------------------------- MODULE CacheServerProofs ---------------------------
(***************************************************************************)
(* Proofs about CacheServer, for any hashes, payloads and requests whose   *)
(* store requests carry the bytes they claim.                              *)
(***************************************************************************)
EXTENDS CacheServer, TLAPS

(* The most that a store request can carry *)
LargestPayload == MAX_MESSAGE_SIZE - IPCMessage - SaveBytecodeRequest

Answered(r) == r.route \in Answering /\ Understood(r)

(* A request is answered by the step that ends its handler, and by no other *)
ReplyInv ==
  /\ pc = "rest" => replies = IF Answered(request) THEN 1 ELSE 0
  /\ pc # "rest" => /\ replies = 0 /\ reply = NoReply
                    /\ request.size <= MAX_MESSAGE_SIZE - IPCMessage

(* The cache works on a Put exactly while a consistent store request waits for it *)
PutInv ==
  /\ pc = "put" => /\ request.route \in StoreRoutes /\ Understood(request)
                   /\ SizesAgree(request) /\ request.claimed > 0
                   /\ pending = <<KeyOf(request), request.payload>>
  /\ pc # "put" => pending = <<>>

(* What is stored came in a request, and what is answered was stored *)
FitInv ==
  \A k \in CacheKeys :
    content[k] # Nothing =>
      content[k] \in NonEmpty /\ Length[content[k]] <= LargestPayload

ViewInv ==
  \A k \in CacheKeys : \/ view[k] \in {Nothing, content[k]}
                       \/ <<k, view[k]>> = pending

IInv == TypeOK /\ ReplyInv /\ PutInv /\ FitInv /\ ViewInv
-----------------------------------------------------------------------------
LEMMA Sizes ==
  /\ MAX_MESSAGE_SIZE = 20480 /\ IPCMessage = 264 /\ LargestPayload = 19956
  /\ SaveBytecodeResponse = 129 /\ SampleIR = 10
  /\ GetFunctionIRResponse = 136 /\ GetFunctionIRGraphResponse = 136
  /\ GetBytecodeResponse = 136
BY DEF MAX_MESSAGE_SIZE, IPCMessage, LargestPayload, SaveBytecodeRequest, SampleIR,
       SaveBytecodeResponse, GetFunctionIRResponse, GetFunctionIRGraphResponse,
       GetBytecodeResponse

LEMMA StoreSizes ==
  ASSUME NEW route \in StoreRoutes
  PROVE  route \in Routes /\ RequestSize[route] = 260
BY DEF StoreRoutes, Routes, RequestSize, AddFunctionIRRequest, SaveBytecodeRequest

LEMMA RequestFacts ==
  ASSUME NEW r \in Requests
  PROVE  /\ r.hash \in Hashes /\ r.payload \in Payloads
         /\ r.claimed \in Nat /\ r.size \in Nat
         /\ r.route \in Routes \cup {"unknown"}
         /\ r.route \in StoreRoutes /\ SizesAgree(r) => Length[r.payload] = r.claimed
<1>1. r \in RequestFormat
  BY RequestsAssumption
<1>2. r.route \in StoreRoutes /\ SizesAgree(r) => Length[r.payload] = r.claimed
  BY RequestsAssumption DEF SizesAgree
<1> QED  BY <1>1, <1>2 DEF RequestFormat

LEMMA KeyOfRequest ==
  ASSUME NEW r \in Requests
  PROVE  KeyOf(r) \in CacheKeys
BY RequestFacts DEF KeyOf, CacheKeys

LEMMA NothingIsNoPayload == Nothing \notin NonEmpty /\ NonEmpty \subseteq Payloads
BY PayloadsAssumption DEF NonEmpty

(* A response whose size is known to fit is sent. *)
LEMMA FittingResponse ==
  ASSUME NEW success, NEW payload, NEW size \in Nat, size <= MAX_MESSAGE_SIZE,
         Respond(success, payload, size)
  PROVE  /\ replies' = replies + 1
         /\ reply' = [success |-> success, payload |-> payload, size |-> size]
BY Sizes DEF Respond

(* What a store handler answers. *)
LEMMA StoreReport ==
  ASSUME NEW success \in BOOLEAN, Report(success), request.route \in StoreRoutes,
         replies = 0, reply = NoReply
  PROVE  /\ replies' = IF request.route = "bytecode_save" THEN 1 ELSE 0
         /\ request.route = "bytecode_save" => reply'.success = success
         /\ reply' \in [success : BOOLEAN, payload : Payloads \cup {Nothing}, size : Nat]
<1>1. CASE request.route = "bytecode_save"
  <2>1. Respond(success, Nothing, SaveBytecodeResponse)
    BY <1>1 DEF Report
  <2>2. SaveBytecodeResponse \in Nat /\ SaveBytecodeResponse <= MAX_MESSAGE_SIZE
    BY Sizes
  <2>3. /\ replies' = 1
        /\ reply' = [success |-> success, payload |-> Nothing,
                     size |-> SaveBytecodeResponse]
    BY <2>1, <2>2, FittingResponse
  <2> QED  BY <1>1, <2>2, <2>3
<1>2. CASE request.route # "bytecode_save"
  <2>1. replies' = replies /\ reply' = reply
    BY <1>2 DEF Report, Stay
  <2>2. NoReply \in [success : BOOLEAN, payload : Payloads \cup {Nothing}, size : Nat]
    BY DEF NoReply
  <2> QED  BY <1>2, <2>1, <2>2
<1> QED  BY <1>1, <1>2

(* An entry that a get finds fits into a response. *)
LEMMA FoundFits ==
  ASSUME IInv, pc # "put", NEW k \in CacheKeys, view[k] # Nothing
  PROVE  /\ view[k] = content[k] /\ view[k] \in NonEmpty
         /\ Length[view[k]] \in Nat /\ Length[view[k]] <= LargestPayload
<1>1. pending = <<>>
  BY DEF IInv, PutInv
<1>2. view[k] = content[k]
  BY <1>1 DEF IInv, ViewInv
<1>3. view[k] \in NonEmpty /\ Length[view[k]] <= LargestPayload
  BY <1>2 DEF IInv, FitInv
<1> QED  BY <1>2, <1>3, PayloadsAssumption DEF NonEmpty
-----------------------------------------------------------------------------
LEMMA InitInvariant ==
  ASSUME Init
  PROVE  IInv
<1>1. request \in Requests /\ request.route = "unknown" /\ pc = "rest" /\ replies = 0
  BY DEF Init
<1>2. /\ content = [k \in CacheKeys |-> Nothing]
      /\ view = [k \in CacheKeys |-> Nothing] /\ pending = <<>>
  BY DEF Init, Map!Init
<1>3. reply \in [success : BOOLEAN, payload : Payloads \cup {Nothing}, size : Nat]
  BY DEF Init, NoReply
<1>4. saved \in [Kinds -> [Hashes -> Payloads \cup {Nothing}]]
  BY DEF Init
<1>5. TypeOK
  BY <1>1, <1>2, <1>3, <1>4 DEF TypeOK
<1>6. ReplyInv
  BY <1>1 DEF ReplyInv, Answered, Answering
<1>7. PutInv /\ FitInv /\ ViewInv
  BY <1>1, <1>2 DEF PutInv, FitInv, ViewInv
<1> QED  BY <1>5, <1>6, <1>7 DEF IInv

LEMMA ReceiveInvariant ==
  ASSUME IInv, NEW r \in Requests, Receive(r)
  PROVE  IInv'
<1>1. pc = "rest" /\ pc' = "dispatch" /\ request' = r /\ replies' = 0 /\ reply' = NoReply
  BY DEF Receive
<1>2. UNCHANGED <<content, view, pending, saved>>
  BY DEF Receive, cache
<1>3. TypeOK'
  BY <1>1, <1>2 DEF IInv, TypeOK, NoReply
<1>4. ReplyInv'
  BY <1>1 DEF Receive, ReplyInv
<1>5. PutInv' /\ FitInv' /\ ViewInv'
  BY <1>1, <1>2 DEF IInv, PutInv, FitInv, ViewInv
<1> QED  BY <1>3, <1>4, <1>5 DEF IInv

(* The end of a handler that has not changed the cache. *)
LEMMA RestInvariant ==
  ASSUME IInv, pc = "dispatch", pc' = "rest", UNCHANGED <<content, view, pending>>,
         UNCHANGED <<request, saved>>,
         replies' = IF Answered(request) THEN 1 ELSE 0,
         reply' \in [success : BOOLEAN, payload : Payloads \cup {Nothing}, size : Nat]
  PROVE  IInv'
<1>1. TypeOK'
  BY DEF IInv, TypeOK
<1>2. ReplyInv'
  BY DEF ReplyInv, Answered, Understood
<1>3. PutInv' /\ FitInv' /\ ViewInv'
  BY DEF IInv, PutInv, FitInv, ViewInv
<1> QED  BY <1>1, <1>2, <1>3 DEF IInv

LEMMA IgnoreInvariant ==
  ASSUME IInv, Ignore
  PROVE  IInv'
<1>1. ~Answered(request)
  BY DEF Ignore, Answered, Answering
<1>2. /\ pc = "dispatch" /\ pc' = "rest" /\ UNCHANGED <<replies, reply>>
      /\ UNCHANGED <<content, view, pending>> /\ UNCHANGED <<request, saved>>
  BY DEF Ignore, Rest, Stay, cache
<1>3. replies = 0
  BY <1>2 DEF IInv, ReplyInv
<1>4. reply' \in [success : BOOLEAN, payload : Payloads \cup {Nothing}, size : Nat]
  BY <1>2 DEF IInv, TypeOK
<1> QED  BY <1>1, <1>2, <1>3, <1>4, RestInvariant

LEMMA RefuseStoreInvariant ==
  ASSUME IInv, RefuseStore
  PROVE  IInv'
<1>1. /\ pc = "dispatch" /\ pc' = "rest" /\ request.route \in StoreRoutes
      /\ Understood(request) /\ Report(FALSE)
      /\ UNCHANGED <<content, view, pending>> /\ UNCHANGED <<request, saved>>
  BY DEF RefuseStore, Storing, Rest, cache
<1>2. replies = 0 /\ reply = NoReply
  BY <1>1 DEF IInv, ReplyInv
<1>3. /\ replies' = IF request.route = "bytecode_save" THEN 1 ELSE 0
      /\ reply' \in [success : BOOLEAN, payload : Payloads \cup {Nothing}, size : Nat]
  BY <1>1, <1>2, StoreReport
<1>4. replies' = IF Answered(request) THEN 1 ELSE 0
  BY <1>1, <1>3 DEF Answered, Answering, StoreRoutes
<1> QED  BY <1>1, <1>3, <1>4, RestInvariant

LEMMA BeginStoreInvariant ==
  ASSUME IInv, BeginStore
  PROVE  IInv'
<1>1. /\ pc = "dispatch" /\ pc' = "put" /\ request.route \in StoreRoutes
      /\ Understood(request) /\ SizesAgree(request) /\ request.claimed > 0
      /\ UNCHANGED <<replies, reply, request, saved>>
  BY DEF BeginStore, Storing, Stay
<1>2. /\ pending = <<>> /\ pending' = <<KeyOf(request), request.payload>>
      /\ UNCHANGED <<content, view>>
  BY DEF BeginStore, Map!Begin
<1>3. request \in Requests
  BY DEF IInv, TypeOK
<1>4. request.payload \in NonEmpty
  BY <1>1, <1>3, RequestFacts DEF NonEmpty
<1>5. TypeOK'
  BY <1>1, <1>2, <1>3, <1>4, KeyOfRequest DEF IInv, TypeOK
<1>6. ReplyInv'
  BY <1>1 DEF IInv, ReplyInv
<1>7. PutInv'
  BY <1>1, <1>2 DEF PutInv, Understood, SizesAgree, KeyOf
<1>8. FitInv' /\ ViewInv'
  BY <1>2 DEF IInv, FitInv, ViewInv
<1> QED  BY <1>5, <1>6, <1>7, <1>8 DEF IInv

LEMMA WorkStoreInvariant ==
  ASSUME IInv, WorkStore
  PROVE  IInv'
<1>1. /\ pc = "put" /\ UNCHANGED <<pc, request, replies, reply, saved>>
      /\ view' \in [CacheKeys -> NonEmpty \cup {Nothing}]
  BY DEF WorkStore
<1>2. /\ \A k \in CacheKeys : \/ view'[k] \in {Nothing, content[k]}
                              \/ <<k, view'[k]>> = pending
      /\ UNCHANGED <<content, pending>>
  BY DEF WorkStore, Map!Disturb
<1>3. TypeOK'
  BY <1>1, <1>2 DEF IInv, TypeOK
<1>4. ReplyInv' /\ PutInv'
  BY <1>1, <1>2 DEF IInv, ReplyInv, PutInv, Understood, SizesAgree, KeyOf
<1>5. FitInv' /\ ViewInv'
  BY <1>2 DEF IInv, FitInv, ViewInv
<1> QED  BY <1>3, <1>4, <1>5 DEF IInv

(* What the request of a Put says about the payload. *)
LEMMA PutPayload ==
  ASSUME IInv, pc = "put"
  PROVE  /\ request \in Requests /\ request.payload \in NonEmpty
         /\ KeyOf(request) \in CacheKeys /\ request.hash \in Hashes
         /\ Length[request.payload] <= LargestPayload
         /\ pending = <<KeyOf(request), request.payload>>
         /\ request.route \in StoreRoutes
         /\ Answered(request) <=> request.route = "bytecode_save"
<1>1. request \in Requests /\ request.size <= MAX_MESSAGE_SIZE - IPCMessage
  BY DEF IInv, TypeOK, ReplyInv
<1>2. /\ request.route \in StoreRoutes /\ Understood(request) /\ SizesAgree(request)
      /\ request.claimed > 0 /\ pending = <<KeyOf(request), request.payload>>
  BY DEF IInv, PutInv
<1>3. Length[request.payload] = request.claimed /\ request.payload \in NonEmpty
  BY <1>1, <1>2, RequestFacts DEF NonEmpty
<1>4. request.size = 260 + request.claimed
  BY <1>2, StoreSizes DEF SizesAgree
<1>5. Length[request.payload] <= LargestPayload
  BY <1>1, <1>3, <1>4, Sizes, RequestFacts
<1> QED  BY <1>1, <1>2, <1>3, <1>5, RequestFacts, KeyOfRequest
         DEF Answered, Answering, StoreRoutes

LEMMA CommitStoreInvariant ==
  ASSUME IInv, CommitStore
  PROVE  IInv'
<1>1. /\ pc = "put" /\ pc' = "rest" /\ UNCHANGED request /\ Report(TRUE)
      /\ saved' = [saved EXCEPT ![KindOf(request)][request.hash] = request.payload]
  BY DEF CommitStore, Rest
<1>2. /\ request \in Requests /\ request.payload \in NonEmpty
      /\ KeyOf(request) \in CacheKeys /\ request.hash \in Hashes
      /\ Length[request.payload] <= LargestPayload
      /\ pending = <<KeyOf(request), request.payload>>
      /\ request.route \in StoreRoutes
      /\ Answered(request) <=> request.route = "bytecode_save"
  BY <1>1, PutPayload
<1>3. /\ view[KeyOf(request)] = request.payload
      /\ content' = [content EXCEPT ![KeyOf(request)] = request.payload]
      /\ pending' = <<>> /\ UNCHANGED view
  BY <1>2 DEF CommitStore, Map!Commit
<1>4. replies = 0 /\ reply = NoReply
  BY <1>1 DEF IInv, ReplyInv
<1>5. /\ replies' = IF Answered(request) THEN 1 ELSE 0
      /\ reply' \in [success : BOOLEAN, payload : Payloads \cup {Nothing}, size : Nat]
  BY <1>1, <1>2, <1>4, StoreReport
<1>6. saved' \in [Kinds -> [Hashes -> Payloads \cup {Nothing}]]
  <2>1. KindOf(request) \in Kinds
    BY DEF KindOf, Kinds
  <2>2. saved \in [Kinds -> [Hashes -> Payloads \cup {Nothing}]]
    BY DEF IInv, TypeOK
  <2> QED  BY <1>1, <1>2, <2>1, <2>2, NothingIsNoPayload
<1>7. TypeOK'
  <2>1. content' \in [CacheKeys -> NonEmpty \cup {Nothing}]
    BY <1>2, <1>3 DEF IInv, TypeOK
  <2> QED  BY <1>1, <1>3, <1>5, <1>6, <2>1 DEF IInv, TypeOK
<1>8. ReplyInv'
  BY <1>1, <1>5 DEF ReplyInv, Answered, Understood
<1>9. PutInv'
  BY <1>1, <1>3 DEF PutInv
<1>10. FitInv'
  BY <1>2, <1>3 DEF IInv, FitInv, TypeOK
<1>11. ViewInv'
  BY <1>2, <1>3 DEF IInv, ViewInv, TypeOK
<1> QED  BY <1>7, <1>8, <1>9, <1>10, <1>11 DEF IInv

LEMMA AbortStoreInvariant ==
  ASSUME IInv, AbortStore
  PROVE  IInv'
<1>1. /\ pc = "put" /\ pc' = "rest" /\ UNCHANGED <<request, saved>> /\ Report(FALSE)
  BY DEF AbortStore, Rest
<1>2. /\ \A k \in CacheKeys : view[k] \in {Nothing, content[k]}
      /\ pending' = <<>> /\ UNCHANGED <<content, view>>
  BY DEF AbortStore, Map!Abort
<1>3. /\ request.route \in StoreRoutes
      /\ Answered(request) <=> request.route = "bytecode_save"
  BY <1>1, PutPayload
<1>4. replies = 0 /\ reply = NoReply
  BY <1>1 DEF IInv, ReplyInv
<1>5. /\ replies' = IF Answered(request) THEN 1 ELSE 0
      /\ reply' \in [success : BOOLEAN, payload : Payloads \cup {Nothing}, size : Nat]
  BY <1>1, <1>3, <1>4, StoreReport
<1>6. TypeOK'
  BY <1>1, <1>2, <1>5 DEF IInv, TypeOK
<1>7. ReplyInv'
  BY <1>1, <1>5 DEF ReplyInv, Answered, Understood
<1>8. PutInv' /\ FitInv' /\ ViewInv'
  BY <1>1, <1>2 DEF IInv, PutInv, FitInv, ViewInv
<1> QED  BY <1>6, <1>7, <1>8 DEF IInv

LEMMA AnswerIRInvariant ==
  ASSUME IInv, AnswerIR
  PROVE  IInv'
<1>1. /\ pc = "dispatch" /\ pc' = "rest" /\ Answered(request)
      /\ UNCHANGED <<content, view, pending>> /\ UNCHANGED <<request, saved>>
  BY DEF AnswerIR, Rest, cache, Answered, Answering
<1>2. PICK success \in BOOLEAN, size \in {GetFunctionIRResponse,
                                        GetFunctionIRResponse + SampleIR} :
        Respond(success, Nothing, size)
  BY DEF AnswerIR
<1>3. size \in Nat /\ size <= MAX_MESSAGE_SIZE
  BY Sizes
<1>4. /\ replies' = replies + 1
      /\ reply' = [success |-> success, payload |-> Nothing, size |-> size]
  BY <1>2, <1>3, FittingResponse
<1>5. replies' = IF Answered(request) THEN 1 ELSE 0
  BY <1>1, <1>4 DEF IInv, ReplyInv
<1>6. reply' \in [success : BOOLEAN, payload : Payloads \cup {Nothing}, size : Nat]
  BY <1>3, <1>4
<1> QED  BY <1>1, <1>5, <1>6, RestInvariant

(* What a get answers: the entry under its key, or that there is none. *)
LEMMA CacheAnswer ==
  ASSUME IInv, AnswerFromCache
  PROVE  /\ replies' = 1
         /\ reply'.success => reply'.payload = content[KeyOf(request)]
         /\ reply' \in [success : BOOLEAN, payload : Payloads \cup {Nothing}, size : Nat]
<1> DEFINE found == view[KeyOf(request)]
<1>1. pc = "dispatch" /\ request \in Requests
  BY DEF AnswerFromCache, IInv, TypeOK
<1>2. replies = 0
  BY <1>1 DEF IInv, ReplyInv
<1>3. KeyOf(request) \in CacheKeys
  BY <1>1, KeyOfRequest
<1>4. AnswerSize(request) = 136
  BY Sizes DEF AnswerSize
<1>5. CASE found # Nothing
  <2>1. /\ found = content[KeyOf(request)] /\ found \in NonEmpty
        /\ Length[found] \in Nat /\ Length[found] <= LargestPayload
    BY <1>1, <1>3, <1>5, FoundFits
  <2>2. /\ AnswerSize(request) + Length[found] \in Nat
        /\ AnswerSize(request) + Length[found] <= MAX_MESSAGE_SIZE
    BY <1>4, <2>1, Sizes
  <2>3. Respond(TRUE, found, AnswerSize(request) + Length[found])
    BY <1>5 DEF AnswerFromCache
  <2>4. /\ replies' = replies + 1
        /\ reply' = [success |-> TRUE, payload |-> found,
                     size |-> AnswerSize(request) + Length[found]]
    BY <2>2, <2>3, FittingResponse
  <2> QED  BY <1>2, <2>1, <2>2, <2>4, NothingIsNoPayload
<1>6. CASE found = Nothing
  <2>1. Respond(FALSE, Nothing, AnswerSize(request))
    BY <1>6 DEF AnswerFromCache
  <2>2. AnswerSize(request) \in Nat /\ AnswerSize(request) <= MAX_MESSAGE_SIZE
    BY <1>4, Sizes
  <2>3. /\ replies' = replies + 1
        /\ reply' = [success |-> FALSE, payload |-> Nothing,
                     size |-> AnswerSize(request)]
    BY <2>1, <2>2, FittingResponse
  <2> QED  BY <1>2, <2>2, <2>3
<1> QED  BY <1>5, <1>6

LEMMA AnswerFromCacheInvariant ==
  ASSUME IInv, AnswerFromCache
  PROVE  IInv'
<1>1. /\ pc = "dispatch" /\ pc' = "rest" /\ Answered(request)
      /\ UNCHANGED <<content, view, pending>> /\ UNCHANGED <<request, saved>>
  BY DEF AnswerFromCache, Rest, cache, Answered, Answering
<1> QED  BY <1>1, CacheAnswer, RestInvariant

LEMMA StutterInvariant ==
  ASSUME IInv, UNCHANGED vars
  PROVE  IInv'
<1> USE DEF vars, cache
<1>1. TypeOK'
  BY DEF IInv, TypeOK
<1>2. ReplyInv' /\ PutInv'
  BY DEF IInv, ReplyInv, PutInv, Answered, Understood, SizesAgree, KeyOf
<1>3. FitInv' /\ ViewInv'
  BY DEF IInv, FitInv, ViewInv
<1> QED  BY <1>1, <1>2, <1>3 DEF IInv

LEMMA NextInvariant ==
  ASSUME IInv, [Next]_vars
  PROVE  IInv'
<1>1. ASSUME NEW r \in Requests, Receive(r)  PROVE IInv'
  BY <1>1, ReceiveInvariant
<1>2. CASE Handle
  BY <1>2, IgnoreInvariant, RefuseStoreInvariant, BeginStoreInvariant,
     WorkStoreInvariant, CommitStoreInvariant, AbortStoreInvariant,
     AnswerIRInvariant, AnswerFromCacheInvariant DEF Handle
<1>3. CASE UNCHANGED vars
  BY <1>3, StutterInvariant
<1> QED  BY <1>1, <1>2, <1>3 DEF Next
-----------------------------------------------------------------------------
(* The inductive invariant holds: how often the request has been answered, which Put
   is in progress, how long what is stored can be, what a get can find.      *)
THEOREM Invariance == Spec => []IInv
<1>1. Init => IInv
  BY InitInvariant
<1>2. IInv /\ [Next]_vars => IInv'
  BY NextInvariant
<1> QED  BY <1>1, <1>2, PTL DEF Spec

(* Type correctness: in particular only payloads of some bytes are ever stored. *)
THEOREM TypeCorrect == Spec => []TypeOK
<1>1. IInv => TypeOK
  BY DEF IInv
<1> QED  BY <1>1, Invariance, PTL

(* Every request of an answering route that passes its size test is answered exactly
   once, and nothing else is: whatever was stored fits into a response.      *)
THEOREM AnsweredOnce == Spec => []RespondsOnce
<1>1. IInv => RespondsOnce
  BY DEF IInv, ReplyInv, RespondsOnce, Answered
<1> QED  BY <1>1, Invariance, PTL
-----------------------------------------------------------------------------
(* No two names of entries, of whichever kind, are cut or prefixed into one key.
   It does not hold of all hashes: a graph's hash may begin with the prefix. *)
DistinctKeys ==
  \A h, g \in Hashes :
    /\ GraphKey(h) # BytecodeKey(g)
    /\ GraphKey(h) = GraphKey(g) \/ BytecodeKey(h) = BytecodeKey(g) => h = g

KeyFor(kind, h) == IF kind = "bytecode" THEN BytecodeKey(h) ELSE GraphKey(h)

(* The cache holds under a name's key what was last stored under the name *)
SavedInv ==
  \A kind \in Kinds, h \in Hashes : content[KeyFor(kind, h)] = saved[kind][h]

FaithInv == SavedInv /\ AnswerFaithful /\ SaveTruthful

LEMMA NameOfRequest ==
  ASSUME NEW r \in Requests
  PROVE  /\ KindOf(r) \in Kinds /\ r.hash \in Hashes
         /\ KeyOf(r) = KeyFor(KindOf(r), r.hash)
         /\ r.route = "bytecode_save" => KindOf(r) = "bytecode"
BY RequestFacts DEF KindOf, Kinds, KeyOf, KeyFor

(* The entry of the request's name, as a get would find it between two requests. *)
LEMMA EntryOfRequest ==
  ASSUME IInv, SavedInv
  PROVE  /\ content[KeyOf(request)] = saved[KindOf(request)][request.hash]
         /\ request.route = "bytecode_save" =>
              content[KeyOf(request)] = saved["bytecode"][request.hash]
<1>1. request \in Requests
  BY DEF IInv, TypeOK
<1> QED  BY <1>1, NameOfRequest DEF SavedInv

LEMMA InitFaithful ==
  ASSUME Init
  PROVE  FaithInv
<1>1. /\ content = [k \in CacheKeys |-> Nothing] /\ request.route = "unknown"
      /\ saved = [kind \in Kinds |-> [h \in Hashes |-> Nothing]]
  BY DEF Init, Map!Init
<1>2. \A kind \in Kinds, h \in Hashes : KeyFor(kind, h) \in CacheKeys
  BY DEF KeyFor, CacheKeys
<1>3. SavedInv
  BY <1>1, <1>2 DEF SavedInv
<1> QED  BY <1>1, <1>3 DEF FaithInv, AnswerFaithful, SaveTruthful

(* As long as the handler is at work there is nothing to be faithful to. *)
LEMMA WorkingFaithful ==
  ASSUME FaithInv, pc' # "rest", UNCHANGED <<content, saved>>
  PROVE  FaithInv'
BY DEF FaithInv, SavedInv, AnswerFaithful, SaveTruthful

(* A store that is reported as failed, or not at all, has left the entry. *)
LEMMA FailureFaithful ==
  ASSUME IInv, FaithInv, request.route \in StoreRoutes, replies = 0, reply = NoReply,
         Report(FALSE), UNCHANGED <<content, view, saved, request>>,
         \A k \in CacheKeys : view[k] \in {Nothing, content[k]}
  PROVE  FaithInv'
<1>1. SavedInv'
  BY DEF FaithInv, SavedInv
<1>2. AnswerFaithful'
  BY DEF AnswerFaithful, StoreRoutes
<1>3. request \in Requests
  BY DEF IInv, TypeOK
<1>4. SaveTruthful'
  <2> SUFFICES ASSUME request.route = "bytecode_save"
               PROVE  /\ ~reply'.success
                      /\ view[KeyOf(request)] \in {Nothing, saved["bytecode"][request.hash]}
    BY DEF SaveTruthful, KeyOf
  <2>1. ~reply'.success
    BY StoreReport
  <2>2. view[KeyOf(request)] \in {Nothing, content[KeyOf(request)]}
    BY <1>3, KeyOfRequest
  <2> QED  BY <2>1, <2>2, EntryOfRequest DEF FaithInv
<1> QED  BY <1>1, <1>2, <1>4 DEF FaithInv

LEMMA IgnoreFaithful ==
  ASSUME IInv, FaithInv, Ignore
  PROVE  FaithInv'
<1>1. /\ pc = "dispatch" /\ UNCHANGED <<content, saved, request, replies, reply>>
  BY DEF Ignore, Stay, cache
<1>2. replies' = 0 /\ ~reply'.success
  BY <1>1 DEF IInv, ReplyInv, NoReply
<1> QED  BY <1>1, <1>2 DEF FaithInv, SavedInv, AnswerFaithful, SaveTruthful

LEMMA RefuseStoreFaithful ==
  ASSUME IInv, FaithInv, RefuseStore
  PROVE  FaithInv'
<1>1. /\ pc = "dispatch" /\ request.route \in StoreRoutes /\ Report(FALSE)
      /\ UNCHANGED <<content, view, saved, request>>
  BY DEF RefuseStore, Storing, cache
<1>2. replies = 0 /\ reply = NoReply /\ pending = <<>>
  BY <1>1 DEF IInv, ReplyInv, PutInv
<1>3. \A k \in CacheKeys : view[k] \in {Nothing, content[k]}
  BY <1>2 DEF IInv, ViewInv
<1> QED  BY <1>1, <1>2, <1>3, FailureFaithful

LEMMA AbortStoreFaithful ==
  ASSUME IInv, FaithInv, AbortStore
  PROVE  FaithInv'
<1>1. /\ pc = "put" /\ Report(FALSE) /\ UNCHANGED <<content, view, saved, request>>
      /\ \A k \in CacheKeys : view[k] \in {Nothing, content[k]}
  BY DEF AbortStore, Map!Abort
<1>2. replies = 0 /\ reply = NoReply /\ request.route \in StoreRoutes
  BY <1>1 DEF IInv, ReplyInv, PutInv
<1> QED  BY <1>1, <1>2, FailureFaithful

LEMMA CommitStoreFaithful ==
  ASSUME DistinctKeys, IInv, FaithInv, CommitStore
  PROVE  FaithInv'
<1>1. /\ pc = "put" /\ UNCHANGED request /\ Report(TRUE)
      /\ saved' = [saved EXCEPT ![KindOf(request)][request.hash] = request.payload]
  BY DEF CommitStore
<1>2. /\ request \in Requests /\ KeyOf(request) \in CacheKeys
      /\ pending = <<KeyOf(request), request.payload>>
      /\ request.route \in StoreRoutes
  BY <1>1, PutPayload
<1>3. /\ view[KeyOf(request)] = request.payload /\ UNCHANGED view
      /\ content' = [content EXCEPT ![KeyOf(request)] = request.payload]
  BY <1>2 DEF CommitStore, Map!Commit
<1>4. replies = 0 /\ reply = NoReply
  BY <1>1 DEF IInv, ReplyInv
<1>5. /\ KindOf(request) \in Kinds /\ request.hash \in Hashes
      /\ KeyOf(request) = KeyFor(KindOf(request), request.hash)
  BY <1>2, NameOfRequest
<1>6. SavedInv'
  <2> SUFFICES ASSUME NEW kind \in Kinds, NEW h \in Hashes
               PROVE  content'[KeyFor(kind, h)] = saved'[kind][h]
    BY DEF SavedInv
  <2>1. content[KeyFor(kind, h)] = saved[kind][h] /\ KeyFor(kind, h) \in CacheKeys
    BY DEF FaithInv, SavedInv, KeyFor, CacheKeys
  <2>2. /\ content \in [CacheKeys -> NonEmpty \cup {Nothing}]
        /\ saved \in [Kinds -> [Hashes -> Payloads \cup {Nothing}]]
    BY DEF IInv, TypeOK
  <2>3. CASE kind = KindOf(request) /\ h = request.hash
    BY <1>1, <1>2, <1>3, <1>5, <2>2, <2>3
  <2>4. CASE ~(kind = KindOf(request) /\ h = request.hash)
    <3>1. KeyFor(kind, h) # KeyOf(request)
      BY <1>5, <2>4 DEF DistinctKeys, KeyFor, Kinds
    <3>2. saved'[kind][h] = saved[kind][h]
      BY <1>1, <1>5, <2>2, <2>4
    <3> QED  BY <1>3, <2>1, <2>2, <3>1, <3>2
  <2> QED  BY <2>3, <2>4
<1>7. AnswerFaithful'
  BY <1>1, <1>2 DEF AnswerFaithful, StoreRoutes
<1>8. SaveTruthful'
  <2> SUFFICES ASSUME request.route = "bytecode_save"
               PROVE  reply'.success /\ view[KeyOf(request)] = request.payload
    BY <1>1, <1>3 DEF SaveTruthful, KeyOf
  <2> QED  BY <1>1, <1>2, <1>3, <1>4, StoreReport
<1> QED  BY <1>6, <1>7, <1>8 DEF FaithInv

LEMMA AnswerFaithfulStep ==
  ASSUME IInv, FaithInv, AnswerFromCache
  PROVE  FaithInv'
<1>1. /\ UNCHANGED <<content, view, saved, request>>
      /\ request.route \in {"function_get_ir_graph", "bytecode_get"}
  BY DEF AnswerFromCache, cache
<1>2. reply'.success => reply'.payload = saved[KindOf(request)][request.hash]
  BY CacheAnswer, EntryOfRequest DEF FaithInv
<1>3. AnswerFaithful'
  BY <1>1, <1>2 DEF AnswerFaithful, KindOf
<1> QED  BY <1>1, <1>3 DEF FaithInv, SavedInv, SaveTruthful

LEMMA NextFaithful ==
  ASSUME DistinctKeys, IInv, FaithInv, [Next]_vars
  PROVE  FaithInv'
<1>1. ASSUME NEW r \in Requests, Receive(r)  PROVE FaithInv'
  BY <1>1, WorkingFaithful DEF Receive, cache
<1>2. CASE BeginStore
  BY <1>2, WorkingFaithful DEF BeginStore, Map!Begin
<1>3. CASE WorkStore
  BY <1>3, WorkingFaithful DEF WorkStore, Map!Disturb
<1>4. CASE AnswerIR
  BY <1>4 DEF AnswerIR, cache, FaithInv, SavedInv, AnswerFaithful, SaveTruthful
<1>5. CASE UNCHANGED vars
  BY <1>5 DEF vars, cache, FaithInv, SavedInv, AnswerFaithful, SaveTruthful, KindOf, KeyOf
<1>6. CASE Handle
  BY <1>2, <1>3, <1>4, <1>6, IgnoreFaithful, RefuseStoreFaithful, AbortStoreFaithful,
     CommitStoreFaithful, AnswerFaithfulStep DEF Handle
<1> QED  BY <1>1, <1>5, <1>6 DEF Next

LEMMA Faithfulness ==
  ASSUME DistinctKeys
  PROVE  Spec => []FaithInv
<1>1. Init => FaithInv
  BY InitFaithful
<1>2. IInv /\ FaithInv /\ [Next]_vars => FaithInv'
  BY NextFaithful
<1> QED  BY <1>1, <1>2, Invariance, PTL DEF Spec

(* A get that succeeds returns what was last stored under its name, as long as names
   have keys of their own; without that assumption it does not.              *)
THEOREM AnswersAreFaithful ==
  ASSUME DistinctKeys
  PROVE  Spec => []AnswerFaithful
<1>1. FaithInv => AnswerFaithful
  BY DEF FaithInv
<1> QED  BY <1>1, Faithfulness, PTL

(* What bytecode/save reports is true: a success can be read back; after a failure a
   get finds what was stored before or, as the failed Put may have compacted, nothing,
   and never the refused bytes.                                              *)
THEOREM SavesAreTruthful ==
  ASSUME DistinctKeys
  PROVE  Spec => []SaveTruthful
<1>1. FaithInv => SaveTruthful
  BY DEF FaithInv
<1> QED  BY <1>1, Faithfulness, PTL
===============================================================================
