----------------------------- MODULE IPCChannel -----------------------------
(***************************************************************************)
(* The request/response channel of the cache server: the SharedData        *)
(* segment (src/src/server/common.h), IPCClient::send_message and          *)
(* wait_for_response (src/src/client/client_test.cpp) and the loop of      *)
(* IPCServer::run with dispatch and send_response                          *)
(* (src/src/server/{cache_server.cpp,router.h}).                           *)
(*                                                                         *)
(* Clients and server are processes that share the segment and run at any  *)
(* speed; each action is one access to the segment, or a run of accesses   *)
(* to fields that no property tells apart.  Accesses happen in program     *)
(* order, and the copy of a payload or of a response is one access (see    *)
(* BuffersUnshared for where that loses nothing).  has_response and        *)
(* message_size are written and never read, so they are left out;          *)
(* response_size is 0 or 1, 1 for any size but zero.                       *)
(* The cache behind the handlers is not in this module: a response is the  *)
(* payload it was computed from.                                           *)
(***************************************************************************)
EXTENDS Integers, FiniteSets

CONSTANTS
  Clients,     \* the connected client processes
  Routes,      \* the routes their requests name
  MaxSends,    \* bound: how many requests one client sends
  Synchronous, \* whether callers await each answer before the next request
  None         \* no payload

SilentRoutes == {"user/create", "user/get", "user/delete", "function/add_ir_graph"}
GetRoutes    == {"function/get_ir", "function/get_ir_graph", "bytecode/get"}
SaveRoutes   == {"bytecode/save"}
Answering    == GetRoutes \cup SaveRoutes

Payloads == Clients \X (1 .. MaxSends)   \* <<c, n>>: the n-th request of c

ASSUME ChannelAssumption ==
  /\ IsFiniteSet(Clients)
  /\ Routes \subseteq SilentRoutes \cup Answering
  /\ MaxSends \in Nat
  /\ Synchronous \in BOOLEAN
  /\ None \notin Payloads

VARIABLES
  mutex, data_ready, response_ready,   \* the three semaphores
  message,              \* SharedData::message: its id, route and payload
  has_message,
  current_message_id,
  response,             \* SharedData::response
  response_size,
  response_message_id,
  sent,                 \* generate_message_id's counter in each process
  client,               \* where each client is, and its call's locals
  server,               \* where the server is, and its handler's locals
  released,             \* history: the server's posts of mutex
  handled               \* history: the payloads a handler has worked on

semaphores == <<mutex, data_ready, response_ready>>
request    == <<message, has_message, current_message_id>>
answer     == <<response, response_size, response_message_id>>
vars == <<semaphores, request, answer, sent, client, server, released, handled>>

Init ==
  /\ mutex = 1 /\ data_ready = 0 /\ response_ready = 0
  /\ message = [id |-> 0, route |-> "", payload |-> None]
  /\ has_message = FALSE
  /\ current_message_id = 0
  /\ response = None /\ response_size = 0 /\ response_message_id = 0
  /\ sent = [c \in Clients |-> 0]
  /\ client = [c \in Clients |-> [pc |-> "idle", route |-> "",
                                  owed |-> FALSE, got |-> None]]
  /\ server = [pc |-> "sleep", route |-> "", payload |-> None, id |-> 0]
  /\ released = 0
  /\ handled = {}

At(c, pc)  == client[c].pc = pc
Goto(c, pc) == client' = [client EXCEPT ![c].pc = pc]
-----------------------------------------------------------------------------
(* IPCClient::send_message *)

Send(c, r) ==
  /\ At(c, "idle")
  /\ sent[c] < MaxSends
  /\ Synchronous => ~client[c].owed
  /\ client' = [client EXCEPT ![c] = [pc |-> "enter", route |-> r,
                                      owed |-> r \in Answering, got |-> None]]
  /\ UNCHANGED <<semaphores, request, answer, sent, server, released, handled>>

Enter(c) ==
  /\ At(c, "enter")
  /\ mutex > 0
  /\ mutex' = mutex - 1
  /\ Goto(c, "head")
  /\ UNCHANGED <<data_ready, response_ready, request, answer, sent, server,
                 released, handled>>

(* mutant: the slot is announced before it is filled *)
WriteHeadAnnouncing(c) ==
  /\ At(c, "head")
  /\ sent' = [sent EXCEPT ![c] = @ + 1]
  /\ message' = [message EXCEPT !.id = sent'[c], !.route = client[c].route]
  /\ has_message' = TRUE /\ data_ready' = data_ready + 1
  /\ Goto(c, "payload")
  /\ UNCHANGED <<mutex, response_ready, current_message_id, answer, server,
                 released, handled>>

WriteHead(c) ==
  /\ At(c, "head")
  /\ sent' = [sent EXCEPT ![c] = @ + 1]
  /\ message' = [message EXCEPT !.id = sent'[c], !.route = client[c].route]
  /\ Goto(c, "payload")
  /\ UNCHANGED <<semaphores, has_message, current_message_id, answer, server,
                 released, handled>>

WritePayload(c) ==
  /\ At(c, "payload")
  /\ message' = [message EXCEPT !.payload = <<c, sent[c]>>]
  /\ Goto(c, "flag")
  /\ UNCHANGED <<semaphores, has_message, current_message_id, answer, sent,
                 server, released, handled>>

RaiseFlag(c) ==
  /\ At(c, "flag")
  /\ has_message' = TRUE
  /\ Goto(c, "number")
  /\ UNCHANGED <<semaphores, message, current_message_id, answer, sent, server,
                 released, handled>>

SetCurrentId(c) ==
  /\ At(c, "number")
  /\ current_message_id' = message.id
  /\ Goto(c, "signal")
  /\ UNCHANGED <<semaphores, message, has_message, answer, sent, server,
                 released, handled>>

Signal(c) ==
  /\ At(c, "signal")
  /\ data_ready' = data_ready + 1
  /\ Goto(c, "leave")
  /\ UNCHANGED <<mutex, response_ready, request, answer, sent, server, released,
                 handled>>

(* mutant: a return that does not release the mutex *)
LeaveLocked(c) ==
  /\ At(c, "leave")
  /\ Goto(c, "idle")
  /\ UNCHANGED <<semaphores, request, answer, sent, server, released, handled>>

Leave(c) ==
  /\ At(c, "leave")
  /\ mutex' = mutex + 1
  /\ Goto(c, "idle")
  /\ UNCHANGED <<data_ready, response_ready, request, answer, sent, server,
                 released, handled>>
-----------------------------------------------------------------------------
(* IPCClient::wait_for_response, for the id of the caller's last request *)

Await(c) ==
  /\ At(c, "idle")
  /\ client[c].owed
  /\ Goto(c, "await")
  /\ UNCHANGED <<semaphores, request, answer, sent, server, released, handled>>

(* mutant: sem_trywait, its result ignored *)
TakeAnswerUnchecked(c) ==
  /\ At(c, "await")
  /\ response_ready' = IF response_ready > 0 THEN response_ready - 1 ELSE 0
  /\ Goto(c, "check")
  /\ UNCHANGED <<mutex, data_ready, request, answer, sent, server, released,
                 handled>>

TakeAnswer(c) ==
  /\ At(c, "await")
  /\ response_ready > 0
  /\ response_ready' = response_ready - 1
  /\ Goto(c, "check")
  /\ UNCHANGED <<mutex, data_ready, request, answer, sent, server, released,
                 handled>>

CheckId(c) ==
  /\ At(c, "check")
  /\ IF response_message_id = sent[c]
       THEN Goto(c, "read")
       ELSE client' = [client EXCEPT ![c].pc = "idle", ![c].owed = FALSE]
  /\ UNCHANGED <<semaphores, request, answer, sent, server, released, handled>>

ReadResponse(c) ==
  /\ At(c, "read")
  /\ client' = [client EXCEPT ![c].pc = "clean", ![c].got =
                  IF response_size = 0 THEN None ELSE response]
  /\ UNCHANGED <<semaphores, request, answer, sent, server, released, handled>>

Clean(c) ==
  /\ At(c, "clean")
  /\ response_size' = 0
  /\ client' = [client EXCEPT ![c].pc = "idle", ![c].owed = FALSE]
  /\ UNCHANGED <<semaphores, request, response, response_message_id, sent,
                 server, released, handled>>
-----------------------------------------------------------------------------
(* IPCServer::run, one iteration of the loop *)

Wake ==
  /\ server.pc = "sleep"
  /\ data_ready > 0
  /\ data_ready' = data_ready - 1
  /\ server' = [server EXCEPT !.pc = "look"]
  /\ UNCHANGED <<mutex, response_ready, request, answer, sent, client, released,
                 handled>>

Look ==
  /\ server.pc = "look"
  /\ server' = [server EXCEPT !.pc = IF has_message THEN "route" ELSE "release"]
  /\ UNCHANGED <<semaphores, request, answer, sent, client, released, handled>>

(* The lambdas of the get routes read the id before the handler reads the
   payload, handle_save_bytecode after it, the others never.                *)
ReadRoute ==
  /\ server.pc = "route"
  /\ server' = [server EXCEPT !.route = message.route, !.pc =
                  IF message.route \in GetRoutes THEN "id" ELSE "payload"]
  /\ UNCHANGED <<semaphores, request, answer, sent, client, released, handled>>

(* A route_hash read while a client copies another route over it is neither of
   the two: dispatch_message finds no handler for it.                       *)
ReadTornRoute ==
  /\ server.pc = "route"
  /\ \E c \in Clients : At(c, "head") /\ client[c].route # message.route
  /\ server' = [server EXCEPT !.pc = "clear"]
  /\ UNCHANGED <<semaphores, request, answer, sent, client, released, handled>>

ReadId ==
  /\ server.pc = "id"
  /\ server' = [server EXCEPT !.id = current_message_id, !.pc =
                  IF server.route \in GetRoutes THEN "payload" ELSE "answer"]
  /\ UNCHANGED <<semaphores, request, answer, sent, client, released, handled>>

ReadPayload ==
  /\ server.pc = "payload"
  /\ server' = [server EXCEPT !.payload = message.payload, !.pc =
                  CASE server.route \in GetRoutes    -> "answer"
                    [] server.route \in SaveRoutes   -> "id"
                    [] server.route \in SilentRoutes -> "clear"]
  /\ handled' = handled \cup {message.payload}
  /\ UNCHANGED <<semaphores, request, answer, sent, client, released>>

(* send_response: the buffer and its size, the id, the semaphore *)
WriteResponse ==
  /\ server.pc = "answer"
  /\ response' = server.payload
  /\ response_size' = 1
  /\ server' = [server EXCEPT !.pc = "stamp"]
  /\ UNCHANGED <<semaphores, request, response_message_id, sent, client,
                 released, handled>>

StampResponse ==
  /\ server.pc = "stamp"
  /\ response_message_id' = server.id
  /\ server' = [server EXCEPT !.pc = "notify"]
  /\ UNCHANGED <<semaphores, request, response, response_size, sent, client,
                 released, handled>>

Notify ==
  /\ server.pc = "notify"
  /\ response_ready' = response_ready + 1
  /\ server' = [server EXCEPT !.pc = "clear"]
  /\ UNCHANGED <<mutex, data_ready, request, answer, sent, client, released,
                 handled>>

(* mutant: the flag is left up *)
ClearFlagNot ==
  /\ server.pc = "clear"
  /\ server' = [server EXCEPT !.pc = "release"]
  /\ UNCHANGED <<semaphores, request, answer, sent, client, released, handled>>

ClearFlag ==
  /\ server.pc = "clear"
  /\ has_message' = FALSE
  /\ server' = [server EXCEPT !.pc = "release"]
  /\ UNCHANGED <<semaphores, message, current_message_id, answer, sent, client,
                 released, handled>>

Release ==
  /\ server.pc = "release"
  /\ mutex' = mutex + 1
  /\ released' = released + 1
  /\ server' = [pc |-> "sleep", route |-> "", payload |-> None, id |-> 0]
  /\ UNCHANGED <<data_ready, response_ready, request, answer, sent, client,
                 handled>>
-----------------------------------------------------------------------------
InsideStep(c) ==
  \/ WriteHead(c) \/ WritePayload(c) \/ RaiseFlag(c) \/ SetCurrentId(c)
  \/ Signal(c) \/ Leave(c)

AwaitStep(c) == TakeAnswer(c) \/ CheckId(c) \/ ReadResponse(c) \/ Clean(c)

ServerStep ==
  \/ Wake \/ Look \/ ReadRoute \/ ReadTornRoute \/ ReadId \/ ReadPayload
  \/ WriteResponse \/ StampResponse \/ Notify
  \/ ClearFlag \/ Release

Next ==
  \/ \E c \in Clients :
       \/ \E r \in Routes : Send(c, r)
       \/ Enter(c) \/ InsideStep(c)
       \/ Await(c) \/ AwaitStep(c)
  \/ ServerStep

Spec == Init /\ [][Next]_vars

(* The server's loop keeps running, and so does a client that holds the mutex.
   Nothing is assumed of the callers, of the order in which sem_wait lets
   waiting clients in, or of a client that awaits an answer.                 *)
FairSpec ==
  /\ Spec
  /\ WF_vars(ServerStep)
  /\ \A c \in Clients : WF_vars(InsideStep(c))

-----------------------------------------------------------------------------
Inside == {c \in Clients : client[c].pc \in
             {"head", "payload", "flag", "number", "signal", "leave"}}

Messages == [id : 0 .. MaxSends, route : Routes \cup {""},
             payload : Payloads \cup {None}]

ClientStates ==
  [pc : {"idle", "enter", "head", "payload", "flag", "number", "signal", "leave",
         "await", "check", "read", "clean"},
   route : Routes \cup {""}, owed : BOOLEAN, got : Payloads \cup {None}]

ServerStates ==
  [pc : {"sleep", "look", "route", "id", "payload", "answer", "stamp", "notify",
         "clear", "release"},
   route : Routes \cup {""}, payload : Payloads \cup {None}, id : 0 .. MaxSends]

TypeOK ==
  /\ mutex \in Nat /\ data_ready \in Nat /\ response_ready \in Nat
  /\ message \in Messages
  /\ has_message \in BOOLEAN
  /\ current_message_id \in 0 .. MaxSends
  /\ response \in Payloads \cup {None}
  /\ response_size \in 0 .. 1
  /\ response_message_id \in 0 .. MaxSends
  /\ sent \in [Clients -> 0 .. MaxSends]
  /\ client \in [Clients -> ClientStates]
  /\ server \in ServerStates
  /\ released \in Nat
  /\ handled \in SUBSET Payloads

(* The mutex semaphore loses no token and gains one each time the server goes
   round its loop (cache_server.cpp:355 posts what no one waited for): after
   n rounds n + 1 clients can be inside send_message together, and a client
   waiting for the mutex always has a token or another client to wait for.   *)
MutexTokens == mutex + Cardinality(Inside) = 1 + released

(* A message is never left in the slot with nobody to wake the server: a token
   of data_ready is there, or about to be posted, or the server has taken one
   and has not yet cleared has_message, however often messages overwrite one
   another and the server finds the slot already emptied.                    *)
NoLostWakeup ==
  has_message =>
    \/ data_ready > 0
    \/ \E c \in Clients : client[c].pc \in {"number", "signal"}
    \/ server.pc \notin {"sleep", "release"}

(* A message in the slot is eventually taken out of it.                      *)
MessageTaken == has_message ~> ~has_message

(* wait_for_response hands its caller the response to the caller's own
   request, whole: the id test, the response buffer and its size agree.  It
   holds for one client that awaits each answer, not for two.                *)
AnswerIsOwn ==
  \A c \in Clients : At(c, "clean") => client[c].got = <<c, sent[c]>>

(* Nobody copies into a buffer that another process is reading: the client
   fills the slot only while the server is not dispatching from it, and reads
   the response only while the server is not writing one.  It holds for one
   client that awaits each answer, although neither side holds the mutex
   while it does so.                                                         *)
BuffersUnshared ==
  \A c \in Clients :
    /\ client[c].pc \in {"head", "payload"} =>
         server.pc \notin {"route", "id", "payload"}
    /\ client[c].pc = "read" => server.pc \notin {"answer", "stamp"}

(* No request is worked on twice (a bytecode/save done again can bring back a
   value replaced in between).  It holds for one client that awaits each
   answer, although a response is posted before has_message is cleared.      *)
HandledOnce ==
  [][server.pc = "payload" /\ server'.pc # "payload"
       => message.payload \notin handled]_vars

(* At most one client is between send_message's wait for exclusive access and
   its release of it.                                                        *)
MutualExclusion == \A c, d \in Inside : c = d

(* The server marks as treated only a message that a handler has worked on,
   unless a client is still writing over it.                                 *)
Announced == \A c \in Clients : client[c].pc \notin {"payload", "flag"}
ClearsHandled ==
  [][has_message /\ ~has_message' /\ Announced
       => message.payload \in handled]_vars
=============================================================================
