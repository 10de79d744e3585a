----------------------------- MODULE CacheServer -----------------------------
(***************************************************************************)
(* What the cache server does with a request: send_message's size test,    *)
(* the routes of initialize_routes with the size tests of router.h, the    *)
(* handlers and send_response (src/src/server/cache_server.cpp), with the  *)
(* message formats of src/src/server/common.h.                             *)
(*                                                                         *)
(* One request is worked on at a time; how requests and responses cross    *)
(* the shared segment is IPCChannel's.  The cache is LossyMap, the map     *)
(* that SharedCache implements: Put is the Begin, Disturb and Commit or    *)
(* Abort of that map.  Sizes are bytes, those of the x86-64 layout.  Of a  *)
(* payload only its identity and its length are kept; of a string its      *)
(* characters before the terminator, which a request is taken to contain.  *)
(***************************************************************************)
EXTENDS Integers, Sequences

CONSTANTS
  Hashes,     \* the function_code_hash strings of requests
  Existing,   \* "EXISTING_FUNCTION"
  Prefix,     \* "bytecode_"
  KeyLength,  \* the 255 characters of a key that the cache keeps and compares
  Payloads,   \* graphs and bytecodes
  Length,     \* their lengths
  Requests,   \* the requests callers send
  Nothing     \* no payload

ASSUME StringsAssumption ==
  /\ Prefix \in Seq(STRING) /\ Hashes \subseteq Seq(STRING)
  /\ KeyLength \in Nat

ASSUME PayloadsAssumption ==
  /\ Length \in [Payloads -> Nat]
  /\ Nothing \notin Payloads

MAX_MESSAGE_SIZE == 4096 * 5

IPCMessage                 == 4 + 256 + 4
CreateUserRequest          == 64 + 128
GetUserRequest             == 4
DeleteUserRequest          == 4
AddFunctionIRRequest       == 256 + 4
SaveBytecodeRequest        == 256 + 4
SaveBytecodeResponse       == 1 + 128
GetFunctionIRRequest       == 256
GetFunctionIRResponse      == 4 + 4 + 128
GetFunctionIRGraphRequest  == 256
GetFunctionIRGraphResponse == 4 + 4 + 128
GetBytecodeRequest         == 256
GetBytecodeResponse        == 4 + 4 + 128

SampleIR == 10   \* the bytes of sample_ir

(* The routes and the sizes their handlers ask for *)
RequestSize == [
  user_create           |-> CreateUserRequest,
  user_get              |-> GetUserRequest,
  user_delete           |-> DeleteUserRequest,
  function_add_ir_graph |-> AddFunctionIRRequest,
  function_get_ir       |-> GetFunctionIRRequest,
  function_get_ir_graph |-> GetFunctionIRGraphRequest,
  bytecode_save         |-> SaveBytecodeRequest,
  bytecode_get          |-> GetBytecodeRequest ]

Routes      == DOMAIN RequestSize
StoreRoutes == {"function_add_ir_graph", "bytecode_save"}
Answering   == {"function_get_ir", "function_get_ir_graph", "bytecode_save",
                "bytecode_get"}

(* The test of the store handlers that the sizes are consistent *)
SizesAgree(r) == r.size = RequestSize[r.route] + r.claimed

(* size is payload_size, claimed the request's own count of its payload's bytes.
   send_message fills in what it is told: any size, any claim.               *)
RequestFormat == [route : Routes \cup {"unknown"}, hash : Hashes,
                  payload : Payloads, claimed : Nat, size : Nat]

ASSUME RequestsAssumption ==
  /\ Requests \subseteq RequestFormat
  /\ \A r \in Requests :
       r.route \in StoreRoutes /\ r.size = RequestSize[r.route] + r.claimed
         => Length[r.payload] = r.claimed

Cut(s) == SubSeq(s, 1, IF Len(s) < KeyLength THEN Len(s) ELSE KeyLength)

GraphKey(h)    == Cut(h)
BytecodeKey(h) == Cut(Prefix \o h)
CacheKeys == {GraphKey(h) : h \in Hashes} \cup {BytecodeKey(h) : h \in Hashes}

KeyOf(r) == IF r.route \in {"bytecode_save", "bytecode_get"}
              THEN BytecodeKey(r.hash) ELSE GraphKey(r.hash)

NonEmpty == {p \in Payloads : Length[p] > 0}

VARIABLES
  content, view, pending,  \* the cache, as in LossyMap
  pc,                      \* where the server is with the request
  request,                 \* the request worked on, or the last one
  replies,                 \* how many responses it has had
  reply,                   \* the last of them
  saved                    \* history: what was last stored under a route's
                           \* kind and hash with success

cache == <<content, view, pending>>
vars  == <<cache, pc, request, replies, reply, saved>>

Map == INSTANCE LossyMap WITH Keys <- CacheKeys, Values <- NonEmpty

Kinds == {"graph", "bytecode"}
KindOf(r) == IF r.route \in {"bytecode_save", "bytecode_get"}
               THEN "bytecode" ELSE "graph"

NoReply == [success |-> FALSE, payload |-> Nothing, size |-> 0]

Init ==
  /\ Map!Init
  /\ pc = "rest"
  /\ request \in Requests /\ request.route = "unknown"
  /\ replies = 0 /\ reply = NoReply
  /\ saved = [kind \in Kinds |-> [h \in Hashes |-> Nothing]]

-----------------------------------------------------------------------------
(* A request that send_message accepts reaches the server *)
Receive(r) ==
  /\ pc = "rest"
  /\ r.size <= MAX_MESSAGE_SIZE - IPCMessage
  /\ request' = r /\ pc' = "dispatch"
  /\ replies' = 0 /\ reply' = NoReply
  /\ UNCHANGED <<cache, saved>>

Understood(r) == r.route \in Routes /\ r.size >= RequestSize[r.route]

(* send_response: one that does not fit is dropped *)
Respond(success, payload, size) ==
  IF size > MAX_MESSAGE_SIZE
    THEN UNCHANGED <<replies, reply>>
    ELSE /\ replies' = replies + 1
         /\ reply' = [success |-> success, payload |-> payload, size |-> size]

Stay == UNCHANGED <<replies, reply>>
Rest == pc' = "rest"

(* dispatch_message finds no route, or the route's size test fails, or the
   handler is one of those that only print                                   *)
Ignore ==
  /\ pc = "dispatch"
  /\ \/ ~Understood(request)
     \/ request.route \in {"user_create", "user_get", "user_delete"}
  /\ Rest /\ Stay
  /\ UNCHANGED <<cache, request, saved>>

(* What the two store handlers answer: add_function_ir_graph nothing *)
ReportSuccess(success) ==     \* mutant: success is reported in any case
  IF request.route = "bytecode_save"
    THEN Respond(TRUE, Nothing, SaveBytecodeResponse) ELSE Stay
Report(success) ==
  IF request.route = "bytecode_save"
    THEN Respond(success, Nothing, SaveBytecodeResponse) ELSE Stay

Storing == pc = "dispatch" /\ Understood(request) /\ request.route \in StoreRoutes

(* mutant: the handler returns without a response *)
RefuseStoreSilently ==
  /\ Storing
  /\ ~SizesAgree(request) \/ request.claimed = 0
  /\ Rest /\ Stay
  /\ UNCHANGED <<cache, request, saved>>

(* Sizes that disagree, or a Put of no bytes, which fails at once *)
RefuseStore ==
  /\ Storing
  /\ ~SizesAgree(request) \/ request.claimed = 0
  /\ Rest /\ Report(FALSE)
  /\ UNCHANGED <<cache, request, saved>>

(* mutant: a Put of no bytes is let through *)
BeginStoreOfNothing ==
  /\ Storing
  /\ SizesAgree(request)
  /\ Map!Begin(KeyOf(request), request.payload)
  /\ pc' = "put" /\ Stay
  /\ UNCHANGED <<request, saved>>

BeginStore ==
  /\ Storing
  /\ SizesAgree(request) /\ request.claimed > 0
  /\ Map!Begin(KeyOf(request), request.payload)
  /\ pc' = "put" /\ Stay
  /\ UNCHANGED <<request, saved>>

(* The cache works on the Put: entries may become unreadable *)
WorkStore ==
  /\ pc = "put"
  /\ view' \in [CacheKeys -> NonEmpty \cup {Nothing}]
  /\ Map!Disturb
  /\ UNCHANGED <<pc, request, replies, reply, saved>>

CommitStore ==
  /\ pc = "put"
  /\ Map!Commit
  /\ saved' = [saved EXCEPT ![KindOf(request)][request.hash] = request.payload]
  /\ Rest /\ Report(TRUE)
  /\ UNCHANGED request

AbortStore ==
  /\ pc = "put"
  /\ Map!Abort
  /\ Rest /\ Report(FALSE)
  /\ UNCHANGED <<request, saved>>

(* handle_get_function_ir *)
AnswerIR ==
  /\ pc = "dispatch" /\ Understood(request)
  /\ request.route = "function_get_ir"
  /\ IF request.hash = Existing
       THEN Respond(TRUE, Nothing, GetFunctionIRResponse + SampleIR)
       ELSE Respond(FALSE, Nothing, GetFunctionIRResponse)
  /\ Rest
  /\ UNCHANGED <<cache, request, saved>>

(* handle_get_function_ir_graph and handle_get_bytecode *)
AnswerSize(r) == IF r.route = "bytecode_get" THEN GetBytecodeResponse
                                             ELSE GetFunctionIRGraphResponse

(* mutant: a bytecode is looked up without the prefix *)
AnswerUnprefixed ==
  LET found == view[GraphKey(request.hash)]
  IN
  /\ pc = "dispatch" /\ Understood(request)
  /\ request.route \in {"function_get_ir_graph", "bytecode_get"}
  /\ IF found # Nothing
       THEN Respond(TRUE, found, AnswerSize(request) + Length[found])
       ELSE Respond(FALSE, Nothing, AnswerSize(request))
  /\ Rest
  /\ UNCHANGED <<cache, request, saved>>

AnswerFromCache ==
  LET found == view[KeyOf(request)]
  IN
  /\ pc = "dispatch" /\ Understood(request)
  /\ request.route \in {"function_get_ir_graph", "bytecode_get"}
  /\ IF found # Nothing
       THEN Respond(TRUE, found, AnswerSize(request) + Length[found])
       ELSE Respond(FALSE, Nothing, AnswerSize(request))
  /\ Rest
  /\ UNCHANGED <<cache, request, saved>>

Handle ==
  \/ Ignore \/ RefuseStore \/ BeginStore \/ WorkStore \/ CommitStore \/ AbortStore
  \/ AnswerIR \/ AnswerFromCache

Next == (\E r \in Requests : Receive(r)) \/ Handle

Spec == Init /\ [][Next]_vars

-----------------------------------------------------------------------------
TypeOK ==
  /\ content \in [CacheKeys -> NonEmpty \cup {Nothing}]
  /\ view \in [CacheKeys -> NonEmpty \cup {Nothing}]
  /\ pending \in (CacheKeys \X NonEmpty) \cup {<<>>}
  /\ pc \in {"rest", "dispatch", "put"}
  /\ request \in Requests
  /\ replies \in Nat
  /\ reply \in [success : BOOLEAN, payload : Payloads \cup {Nothing}, size : Nat]
  /\ saved \in [Kinds -> [Hashes -> Payloads \cup {Nothing}]]

(* A request is answered exactly once if its route answers and its handler got
   as far as looking at it, and never otherwise: no path through a handler
   forgets the response or sends two, and no response to what once fitted into
   a request is too big for the response buffer.                             *)
RespondsOnce ==
  pc = "rest" =>
    replies = IF request.route \in Answering /\ Understood(request) THEN 1 ELSE 0

(* A get that succeeds returns what was last stored for that hash through the
   store route of the same kind: graphs and bytecodes of one hash stay apart. *)
AnswerFaithful ==
  pc = "rest" /\ request.route \in {"function_get_ir_graph", "bytecode_get"}
    /\ reply.success
      => reply.payload = saved[KindOf(request)][request.hash]

(* A bytecode/save that is reported as done can be read back at once.  After one
   that is reported as failed a get finds what was stored before, or nothing: the
   compaction of the failed Put may have destroyed it, but neither the refused
   bytes nor any others are ever found in its place.                         *)
SaveTruthful ==
  pc = "rest" /\ request.route = "bytecode_save" /\ replies = 1 =>
    IF reply.success
      THEN view[KeyOf(request)] = request.payload
      ELSE view[KeyOf(request)] \in {Nothing, saved["bytecode"][request.hash]}

(* Whoever stores a graph learns whether it was stored.                       *)
StoreIsConfirmed ==
  pc = "rest" /\ request.route \in StoreRoutes /\ Understood(request) => replies = 1
=============================================================================
