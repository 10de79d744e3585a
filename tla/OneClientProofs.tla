---------------------------- MODULE OneClientProofs ----------------------------
(***************************************************************************)
(* Proofs about the channel with one client at a time that awaits each     *)
(* answer, for any number of requests and any routes that answer; and that *)
(* the test program, which awaits none, is one of the channel's clients.   *)
(***************************************************************************)
EXTENDS TestClient, IPCChannelProofs

Own(c) == <<c, sent[c]>>

(* The handler has not read the payload of the message *)
Unread ==
  \/ server.pc \in {"look", "route", "payload"}
  \/ server.pc = "id" /\ server.route \in GetRoutes
-----------------------------------------------------------------------------
(* A client that awaits each answer *)

(* All routes answer: the caller of a silent one awaits nothing, and its next
   request can be copied over it.                                            *)
OneCaller ==
  /\ Synchronous
  /\ Routes \subseteq Answering
  /\ \A c, d \in Clients : c = d

(* All but the end of a round is over *)
AtRest == server.pc \in {"clear", "release", "sleep"}

(* Between its calls, or in one that has not written yet *)
Quiet(c) == client[c].pc \in {"enter", "head"} \/ (At(c, "idle") /\ ~client[c].owed)

Filling(c) == client[c].pc \in {"payload", "flag", "number", "signal"}

Waiting(c) == client[c].pc \in {"leave", "await"} \/ (At(c, "idle") /\ client[c].owed)

Answered(c) == client[c].pc \in {"check", "read", "clean"}

(* A client owes itself the answer of the call it is in, and only requests that
   were sent have been worked on.                                            *)
OwedInv(c) ==
  /\ ~At(c, "idle") => client[c].owed
  /\ \A p \in handled : p[2] <= sent[c]

(* The client uses the buffers while the server is at rest and nobody has
   tokens to take                                                            *)
TurnInv(c) ==
  Quiet(c) \/ Filling(c) \/ Answered(c) =>
    AtRest /\ data_ready = 0 /\ response_ready = 0

FillInv(c) ==
  /\ Filling(c) => Own(c) \notin handled /\ message.id = sent[c]
  /\ client[c].pc \in {"flag", "number", "signal"} => message.payload = Own(c)
  /\ At(c, "signal") => current_message_id = sent[c]

(* Where the request of a waiting client can be: announced, in the hands of the
   server, answered, or lost because the flag was cleared by the end of the round
   before.                                                                   *)
Posted(c) == AtRest /\ data_ready = 1 /\ response_ready = 0 /\ Own(c) \notin handled

Served(c) ==
  /\ ~AtRest /\ data_ready = 0 /\ response_ready = 0
  /\ Unread => Own(c) \notin handled
  /\ server.pc = "payload" /\ server.route \in GetRoutes => server.id = sent[c]
  /\ server.pc = "id" /\ server.route \in SaveRoutes => server.payload = Own(c)
  /\ server.pc = "answer" => server.payload = Own(c)
  /\ server.pc \in {"answer", "stamp"} => server.id = sent[c]
  /\ server.pc \in {"stamp", "notify"} => response = Own(c) /\ response_size = 1
  /\ server.pc = "notify" => response_message_id = sent[c]

Replied(c) ==
  /\ AtRest /\ data_ready = 0 /\ response_ready = 1
  /\ response = Own(c) /\ response_size = 1 /\ response_message_id = sent[c]

Lost == AtRest /\ data_ready = 0 /\ response_ready = 0

WaitInv(c) ==
  Waiting(c) =>
    /\ message.payload = Own(c) /\ current_message_id = sent[c]
    /\ Posted(c) \/ Served(c) \/ Replied(c) \/ Lost

AnswerInv(c) ==
  /\ Answered(c) => response_message_id = sent[c] /\ response = Own(c)
  /\ client[c].pc \in {"check", "read"} => response_size = 1
  /\ At(c, "clean") => client[c].got = Own(c)

SoloAt(c) == OwedInv(c) /\ TurnInv(c) /\ FillInv(c) /\ WaitInv(c) /\ AnswerInv(c)

SoloInv == \A c \in Clients : SoloAt(c)
-----------------------------------------------------------------------------
(* Lemmas about a step of one side *)

(* A client that only moves keeps its route, what it is owed and what it got. *)
LEMMA GotoKeeps ==
  ASSUME TypeOK, NEW c \in Clients,
         NEW pc \in {"head", "payload", "flag", "number", "signal", "leave",
                     "idle", "await", "check", "read", "clean"},
         Goto(c, pc)
  PROVE  /\ client'[c].pc = pc
         /\ client'[c].route = client[c].route
         /\ client'[c].owed = client[c].owed
         /\ client'[c].got = client[c].got
         /\ \A d \in Clients : d # c => client'[d] = client[d]
<1>1. /\ client'[c] = [client[c] EXCEPT !.pc = pc]
      /\ \A d \in Clients : d # c => client'[d] = client[d]
  BY GotoMoves
<1>2. client[c] \in ClientStates
  BY DEF TypeOK
<1> QED  BY <1>1, <1>2 DEF ClientStates

(* So does the server. *)
LEMMA ServerKeeps ==
  ASSUME TypeOK, NEW pc, server' = [server EXCEPT !.pc = pc]
  PROVE  /\ server'.pc = pc /\ server'.route = server.route
         /\ server'.payload = server.payload /\ server'.id = server.id
BY DEF TypeOK, ServerStates

(* With one caller the invariant is about that caller. *)
LEMMA OneIsAll ==
  ASSUME OneCaller, NEW c \in Clients, SoloAt(c)'
  PROVE  SoloInv'
BY DEF OneCaller, SoloInv

(* The caller is in one of four phases. *)
LEMMA Phases ==
  ASSUME TypeOK, NEW c \in Clients
  PROVE  Quiet(c) \/ Filling(c) \/ Waiting(c) \/ Answered(c)
<1>1. client[c] \in ClientStates
  BY DEF TypeOK
<1> QED  BY <1>1 DEF ClientStates, Quiet, Filling, Waiting, Answered, At

(* A server that works on a message works on that of a waiting client. *)
LEMMA WorkIsAwaited ==
  ASSUME TypeOK, NEW c \in Clients, SoloAt(c), ~AtRest
  PROVE  /\ Waiting(c) /\ Served(c)
         /\ message.payload = Own(c) /\ current_message_id = sent[c]
BY Phases DEF SoloAt, TurnInv, WaitInv, Posted, Replied, Lost
-----------------------------------------------------------------------------
(* The steps of the caller *)

(* The request is new, and the buffers are the client's. *)
LEMMA SendSolo ==
  ASSUME OneCaller, IInv, SoloInv, NEW c \in Clients, NEW r \in Routes, Send(c, r)
  PROVE  SoloInv'
<1> USE DEF semaphores, request, answer
<1>1. SoloAt(c) /\ Quiet(c)
  BY DEF SoloInv, Send, OneCaller, Quiet
<1>2. client'[c].pc = "enter" /\ client'[c].owed
  BY DEF Send, IInv, TypeOK, OneCaller
<1>3. SoloAt(c)'
  BY <1>1, <1>2 DEF SoloAt, OwedInv, TurnInv, FillInv, WaitInv, AnswerInv, Quiet,
    Filling, Waiting, Answered, At, AtRest, Send
<1> QED  BY <1>3, OneIsAll

(* The mutex is taken before anything is written. *)
LEMMA EnterSolo ==
  ASSUME OneCaller, IInv, SoloInv, NEW c \in Clients, Enter(c)
  PROVE  SoloInv'
<1> USE DEF semaphores, request, answer
<1>1. SoloAt(c) /\ Quiet(c)
  BY DEF SoloInv, Enter, Quiet, At
<1>2. client'[c].pc = "head" /\ client'[c].owed = client[c].owed
  BY GotoKeeps DEF Enter, IInv
<1>3. SoloAt(c)'
  BY <1>1, <1>2 DEF SoloAt, OwedInv, TurnInv, FillInv, WaitInv, AnswerInv, Quiet,
    Filling, Waiting, Answered, At, AtRest, Enter
<1> QED  BY <1>3, OneIsAll

(* The new number is one no handler has met. *)
LEMMA WriteHeadSolo ==
  ASSUME OneCaller, IInv, SoloInv, NEW c \in Clients, WriteHead(c)
  PROVE  SoloInv'
<1> USE DEF semaphores, request, answer
<1>1. SoloAt(c) /\ Quiet(c)
  BY DEF SoloInv, WriteHead, Quiet, At
<1>2. client'[c].pc = "payload" /\ client'[c].owed = client[c].owed
  BY GotoKeeps DEF WriteHead, IInv
<1>3. /\ sent'[c] = sent[c] + 1 /\ sent[c] \in Nat
      /\ message'.id = sent'[c]
  <2>1. sent'[c] = sent[c] + 1 /\ sent[c] \in Nat
    BY DEF WriteHead, IInv, TypeOK
  <2>2. message'.id = sent'[c]
    BY DEF WriteHead, IInv, TypeOK, Messages
  <2> QED  BY <2>1, <2>2
<1>4. \A p \in handled : p[2] <= sent[c] /\ p[2] \in Nat
  BY <1>1 DEF SoloAt, OwedInv, IInv, TypeOK, Payloads
<1>5. Own(c)' \notin handled'
  BY <1>3, <1>4 DEF Own, WriteHead
<1>6. \A p \in handled' : p[2] <= sent'[c]
  BY <1>3, <1>4 DEF WriteHead
<1>7. SoloAt(c)'
  BY <1>1, <1>2, <1>3, <1>5, <1>6 DEF SoloAt, OwedInv, TurnInv, FillInv, WaitInv,
    AnswerInv, Quiet, Filling, Waiting, Answered, At, AtRest, WriteHead
<1> QED  BY <1>7, OneIsAll

(* The slot holds the request, whole. *)
LEMMA WritePayloadSolo ==
  ASSUME OneCaller, IInv, SoloInv, NEW c \in Clients, WritePayload(c)
  PROVE  SoloInv'
<1> USE DEF semaphores, request, answer
<1>1. SoloAt(c) /\ Filling(c)
  BY DEF SoloInv, WritePayload, Filling, At
<1>2. client'[c].pc = "flag" /\ client'[c].owed = client[c].owed
  BY GotoKeeps DEF WritePayload, IInv
<1>3. message'.payload = Own(c) /\ message'.id = message.id
  BY DEF WritePayload, IInv, TypeOK, Messages, Own
<1>4. SoloAt(c)'
  BY <1>1, <1>2, <1>3 DEF SoloAt, OwedInv, TurnInv, FillInv, WaitInv, AnswerInv,
    Quiet, Filling, Waiting, Answered, At, AtRest, Own, WritePayload
<1> QED  BY <1>4, OneIsAll

(* The flag is raised over a whole request. *)
LEMMA RaiseFlagSolo ==
  ASSUME OneCaller, IInv, SoloInv, NEW c \in Clients, RaiseFlag(c)
  PROVE  SoloInv'
<1> USE DEF semaphores, request, answer
<1>1. SoloAt(c) /\ Filling(c) /\ client[c].pc = "flag"
  BY DEF SoloInv, RaiseFlag, Filling, At
<1>2. client'[c].pc = "number" /\ client'[c].owed = client[c].owed
  BY GotoKeeps DEF RaiseFlag, IInv
<1>3. SoloAt(c)'
  BY <1>1, <1>2 DEF SoloAt, OwedInv, TurnInv, FillInv, WaitInv, AnswerInv,
    Quiet, Filling, Waiting, Answered, At, AtRest, Own, RaiseFlag
<1> QED  BY <1>3, OneIsAll

(* The server will read the id of this request. *)
LEMMA SetCurrentIdSolo ==
  ASSUME OneCaller, IInv, SoloInv, NEW c \in Clients, SetCurrentId(c)
  PROVE  SoloInv'
<1> USE DEF semaphores, request, answer
<1>1. SoloAt(c) /\ Filling(c) /\ client[c].pc = "number"
  BY DEF SoloInv, SetCurrentId, Filling, At
<1>2. client'[c].pc = "signal" /\ client'[c].owed = client[c].owed
  BY GotoKeeps DEF SetCurrentId, IInv
<1>3. SoloAt(c)'
  BY <1>1, <1>2 DEF SoloAt, OwedInv, TurnInv, FillInv, WaitInv, AnswerInv,
    Quiet, Filling, Waiting, Answered, At, AtRest, Own, SetCurrentId
<1> QED  BY <1>3, OneIsAll

(* The request is announced. *)
LEMMA SignalSolo ==
  ASSUME OneCaller, IInv, SoloInv, NEW c \in Clients, Signal(c)
  PROVE  SoloInv'
<1> USE DEF semaphores, request, answer
<1>1. SoloAt(c) /\ Filling(c) /\ client[c].pc = "signal"
  BY DEF SoloInv, Signal, Filling, At
<1>2. client'[c].pc = "leave" /\ client'[c].owed = client[c].owed
  BY GotoKeeps DEF Signal, IInv
<1>3. Posted(c)'
  BY <1>1 DEF SoloAt, TurnInv, FillInv, Posted, AtRest, Own, Signal
<1>4. SoloAt(c)'
  BY <1>1, <1>2, <1>3 DEF SoloAt, OwedInv, TurnInv, FillInv, WaitInv, AnswerInv,
    Quiet, Filling, Waiting, Answered, At, Own, Signal
<1> QED  BY <1>4, OneIsAll

(* A waiting client that moves on without touching a thing still waits. *)
LEMMA StillWaits ==
  ASSUME OneCaller, IInv, SoloInv, NEW c \in Clients, Waiting(c), Waiting(c)',
         client'[c].owed, UNCHANGED <<data_ready, response_ready, request, answer,
                                      sent, server, released, handled>>
  PROVE  SoloInv'
<1> USE DEF request, answer
<1>1. SoloAt(c)
  BY DEF SoloInv
<1>2. OwedInv(c)'
  BY <1>1 DEF SoloAt, OwedInv
<1>3. WaitInv(c)'
  BY <1>1 DEF SoloAt, WaitInv, Posted, Served, Replied, Lost, AtRest, Own, Unread
<1>4. ~Quiet(c)' /\ ~Filling(c)' /\ ~Answered(c)'
  BY DEF Quiet, Filling, Waiting, Answered, At
<1>5. SoloAt(c)'
  BY <1>2, <1>3, <1>4 DEF SoloAt, TurnInv, FillInv, AnswerInv, Filling, Answered, At
<1> QED  BY <1>5, OneIsAll

(* The caller leaves send_message and goes on waiting. *)
LEMMA LeaveSolo ==
  ASSUME OneCaller, IInv, SoloInv, NEW c \in Clients, Leave(c)
  PROVE  SoloInv'
<1>1. Waiting(c) /\ client[c].owed
  BY DEF SoloInv, SoloAt, OwedInv, Leave, Waiting, At
<1>2. client'[c].pc = "idle" /\ client'[c].owed = client[c].owed
  BY GotoKeeps DEF Leave, IInv
<1>3. Waiting(c)'
  BY <1>1, <1>2 DEF Waiting, At
<1> QED  BY <1>1, <1>2, <1>3, StillWaits DEF Leave

(* The caller goes into wait_for_response. *)
LEMMA AwaitSolo ==
  ASSUME OneCaller, IInv, SoloInv, NEW c \in Clients, Await(c)
  PROVE  SoloInv'
<1> USE DEF semaphores
<1>1. Waiting(c) /\ client[c].owed
  BY DEF Await, Waiting, At
<1>2. client'[c].pc = "await" /\ client'[c].owed = client[c].owed
  BY GotoKeeps DEF Await, IInv
<1>3. Waiting(c)'
  BY <1>1, <1>2 DEF Waiting, At
<1> QED  BY <1>1, <1>2, <1>3, StillWaits DEF Await

(* A token of response_ready is there only for the answer to the client's own
   request.                                                                  *)
LEMMA TakeAnswerSolo ==
  ASSUME OneCaller, IInv, SoloInv, NEW c \in Clients, TakeAnswer(c)
  PROVE  SoloInv'
<1> USE DEF semaphores, request, answer
<1>1. SoloAt(c) /\ Waiting(c)
  BY DEF SoloInv, TakeAnswer, Waiting, At
<1>2. client'[c].pc = "check" /\ client'[c].owed = client[c].owed
  BY GotoKeeps DEF TakeAnswer, IInv
<1>3. Replied(c)
  BY <1>1 DEF SoloAt, WaitInv, Posted, Served, Lost, TakeAnswer
<1>4. SoloAt(c)'
  BY <1>1, <1>2, <1>3 DEF SoloAt, OwedInv, TurnInv, FillInv, WaitInv, AnswerInv,
    Quiet, Filling, Waiting, Answered, At, AtRest, Own, Replied, TakeAnswer
<1> QED  BY <1>4, OneIsAll

(* The id fits. *)
LEMMA CheckIdSolo ==
  ASSUME OneCaller, IInv, SoloInv, NEW c \in Clients, CheckId(c)
  PROVE  SoloInv'
<1> USE DEF semaphores, request, answer
<1>1. SoloAt(c) /\ Answered(c) /\ client[c].pc = "check"
  BY DEF SoloInv, CheckId, Answered, At
<1>2. Goto(c, "read")
  BY <1>1 DEF SoloAt, AnswerInv, CheckId
<1>3. client'[c].pc = "read" /\ client'[c].owed = client[c].owed
  BY <1>2, GotoKeeps DEF IInv
<1>4. SoloAt(c)'
  BY <1>1, <1>3 DEF SoloAt, OwedInv, TurnInv, FillInv, WaitInv, AnswerInv,
    Quiet, Filling, Waiting, Answered, At, AtRest, Own, CheckId
<1> QED  BY <1>4, OneIsAll

(* The buffer holds the response to the request, and all of it. *)
LEMMA ReadResponseSolo ==
  ASSUME OneCaller, IInv, SoloInv, NEW c \in Clients, ReadResponse(c)
  PROVE  SoloInv'
<1> USE DEF semaphores, request, answer
<1>1. SoloAt(c) /\ Answered(c) /\ client[c].pc = "read"
  BY DEF SoloInv, ReadResponse, Answered, At
<1>2. response_size = 1 /\ response = Own(c)
  BY <1>1 DEF SoloAt, AnswerInv
<1>3. client[c] \in ClientStates
  BY DEF IInv, TypeOK
<1>4. client'[c] = [client[c] EXCEPT !.pc = "clean", !.got = Own(c)]
  BY <1>2 DEF ReadResponse, IInv, TypeOK
<1>5. /\ client'[c].pc = "clean" /\ client'[c].owed = client[c].owed
      /\ client'[c].got = Own(c)
  BY <1>3, <1>4 DEF ClientStates
<1>6. SoloAt(c)'
  BY <1>1, <1>5 DEF SoloAt, OwedInv, TurnInv, FillInv, WaitInv, AnswerInv,
    Quiet, Filling, Waiting, Answered, At, AtRest, Own, ReadResponse
<1> QED  BY <1>6, OneIsAll

(* The call is over. *)
LEMMA CleanSolo ==
  ASSUME OneCaller, IInv, SoloInv, NEW c \in Clients, Clean(c)
  PROVE  SoloInv'
<1> USE DEF semaphores, request, answer
<1>1. SoloAt(c) /\ Answered(c)
  BY DEF SoloInv, Clean, Answered, At
<1>2. client[c] \in ClientStates
  BY DEF IInv, TypeOK
<1>3. client'[c] = [client[c] EXCEPT !.pc = "idle", !.owed = FALSE]
  BY DEF Clean, IInv, TypeOK
<1>4. client'[c].pc = "idle" /\ client'[c].owed = FALSE
  BY <1>2, <1>3 DEF ClientStates
<1>5. SoloAt(c)'
  BY <1>1, <1>4 DEF SoloAt, OwedInv, TurnInv, FillInv, WaitInv, AnswerInv,
    Quiet, Filling, Waiting, Answered, At, AtRest, Own, Clean
<1> QED  BY <1>5, OneIsAll
-----------------------------------------------------------------------------
(* The steps of the server *)

(* In the hands of the server the request stays the client's as long as what Served
   says of the handler is true.                                              *)
LEMMA StillServed ==
  ASSUME OneCaller, SoloInv, NEW c \in Clients, Waiting(c), Served(c)',
         message.payload = Own(c), current_message_id = sent[c],
         \A p \in handled' : p[2] <= sent[c],
         UNCHANGED <<request, sent, client>>
  PROVE  SoloInv'
<1> USE DEF request
<1>1. OwedInv(c)'
  BY DEF SoloInv, SoloAt, OwedInv, At
<1>2. WaitInv(c)'
  BY DEF WaitInv, Own
<1>3. ~Quiet(c)' /\ ~Filling(c)' /\ ~Answered(c)'
  BY DEF Quiet, Filling, Waiting, Answered, At
<1>4. SoloAt(c)'
  BY <1>1, <1>2, <1>3 DEF SoloAt, TurnInv, FillInv, AnswerInv, Filling, Answered, At
<1> QED  BY <1>4, OneIsAll

(* Only an announced request wakes the server. *)
LEMMA WakeSolo ==
  ASSUME OneCaller, IInv, SoloInv, NEW c \in Clients, Wake
  PROVE  SoloInv'
<1> USE DEF semaphores, request, answer
<1>1. SoloAt(c)
  BY DEF SoloInv
<1>2. server'.pc = "look"
  BY ServerKeeps DEF Wake, IInv
<1>3. Waiting(c) /\ Posted(c) /\ message.payload = Own(c) /\ current_message_id = sent[c]
  BY <1>1, Phases DEF IInv, SoloAt, TurnInv, WaitInv, Served, Replied, Lost, AtRest, Wake
<1>4. Served(c)'
  BY <1>2, <1>3 DEF Posted, Served, AtRest, Own, Wake
<1> QED  BY <1>1, <1>3, <1>4, StillServed DEF SoloAt, OwedInv, Wake

(* The request may have lost its flag to the end of the round before. *)
LEMMA LookSolo ==
  ASSUME OneCaller, IInv, SoloInv, NEW c \in Clients, Look
  PROVE  SoloInv'
<1> USE DEF semaphores, request, answer
<1>1. SoloAt(c) /\ ~AtRest
  BY DEF SoloInv, AtRest, Look
<1>2. Waiting(c) /\ Served(c) /\ message.payload = Own(c) /\ current_message_id = sent[c]
  BY <1>1, WorkIsAwaited DEF IInv
<1>3. CASE has_message
  <2>1. server'.pc = "route"
    BY <1>3, ServerKeeps DEF Look, IInv
  <2>2. Served(c)'
    BY <1>2, <2>1 DEF Served, AtRest, Own, Unread, Look
  <2> QED  BY <1>1, <1>2, <2>2, StillServed DEF SoloAt, OwedInv, Look
<1>4. CASE ~has_message
  <2>1. server'.pc = "release"
    BY <1>4, ServerKeeps DEF Look, IInv
  <2>2. Lost'
    BY <1>2, <2>1 DEF Served, Lost, AtRest, Look
  <2>3. SoloAt(c)'
    BY <1>1, <1>2, <2>1, <2>2 DEF SoloAt, OwedInv, TurnInv, FillInv, WaitInv, AnswerInv,
      Quiet, Filling, Waiting, Answered, At, AtRest, Own, Look
  <2> QED  BY <2>3, OneIsAll
<1> QED  BY <1>3, <1>4

(* The route decides what is read first. *)
LEMMA ReadRouteSolo ==
  ASSUME OneCaller, IInv, SoloInv, NEW c \in Clients, ReadRoute
  PROVE  SoloInv'
<1> USE DEF semaphores, request, answer
<1>1. SoloAt(c) /\ ~AtRest
  BY DEF SoloInv, AtRest, ReadRoute
<1>2. Waiting(c) /\ Served(c) /\ message.payload = Own(c) /\ current_message_id = sent[c]
  BY <1>1, WorkIsAwaited DEF IInv
<1>3. /\ server'.route = message.route
      /\ server'.pc = IF message.route \in GetRoutes THEN "id" ELSE "payload"
  BY DEF ReadRoute, IInv, TypeOK, ServerStates
<1>4. Own(c) \notin handled
  BY <1>2 DEF Served, Unread, ReadRoute
<1>5. Served(c)'
  BY <1>2, <1>3, <1>4 DEF Served, AtRest, Own, ReadRoute, GetRoutes, SaveRoutes
<1> QED  BY <1>1, <1>2, <1>5, StillServed DEF SoloAt, OwedInv, ReadRoute

(* The client is not writing a route. *)
LEMMA ReadTornRouteSolo ==
  ASSUME OneCaller, IInv, SoloInv, NEW c \in Clients, ReadTornRoute
  PROVE  SoloInv'
<1>1. SoloAt(c) /\ ~AtRest
  BY DEF SoloInv, AtRest, ReadTornRoute
<1>2. Waiting(c)
  BY <1>1, WorkIsAwaited DEF IInv
<1>3. At(c, "head")
  BY DEF ReadTornRoute, OneCaller
<1> QED  BY <1>2, <1>3 DEF Waiting, At

(* Read before the payload or after it, the id is that of the request. *)
LEMMA ReadIdSolo ==
  ASSUME OneCaller, IInv, SoloInv, NEW c \in Clients, ReadId
  PROVE  SoloInv'
<1> USE DEF semaphores, request, answer
<1>1. SoloAt(c) /\ ~AtRest
  BY DEF SoloInv, AtRest, ReadId
<1>2. Waiting(c) /\ Served(c) /\ message.payload = Own(c) /\ current_message_id = sent[c]
  BY <1>1, WorkIsAwaited DEF IInv
<1>3. /\ server'.route = server.route /\ server'.payload = server.payload
      /\ server'.id = current_message_id
      /\ server'.pc = IF server.route \in GetRoutes THEN "payload" ELSE "answer"
  BY DEF ReadId, IInv, TypeOK, ServerStates
<1>4. server.route \in GetRoutes \cup SaveRoutes
  BY DEF OneCaller, IInv, ServerInv, ReadId, Answering
<1>5. Served(c)'
  BY <1>2, <1>3, <1>4 DEF Served, AtRest, Own, Unread, ReadId
<1> QED  BY <1>1, <1>2, <1>5, StillServed DEF SoloAt, OwedInv, ReadId

(* The handler meets the payload for the first time. *)
LEMMA ReadPayloadSolo ==
  ASSUME OneCaller, IInv, SoloInv, NEW c \in Clients, ReadPayload
  PROVE  SoloInv' /\ message.payload \notin handled
<1> USE DEF semaphores, request, answer
<1>1. SoloAt(c) /\ ~AtRest
  BY DEF SoloInv, AtRest, ReadPayload
<1>2. Waiting(c) /\ Served(c) /\ message.payload = Own(c) /\ current_message_id = sent[c]
  BY <1>1, WorkIsAwaited DEF IInv
<1>3. message.payload \notin handled
  BY <1>2 DEF Served, Unread, ReadPayload
<1>4. server.route \in GetRoutes \cup SaveRoutes
  BY DEF OneCaller, IInv, ServerInv, ReadPayload, Answering
<1>5. /\ server'.route = server.route /\ server'.payload = message.payload
      /\ server'.id = server.id
      /\ server'.pc = IF server.route \in GetRoutes THEN "answer" ELSE "id"
  <2>1. server \in ServerStates
    BY DEF IInv, TypeOK
  <2>2. CASE server.route \in GetRoutes
    BY <2>1, <2>2 DEF ReadPayload, ServerStates, GetRoutes, SaveRoutes, SilentRoutes
  <2>3. CASE server.route \in SaveRoutes
    BY <2>1, <2>3 DEF ReadPayload, ServerStates, GetRoutes, SaveRoutes, SilentRoutes
  <2> QED  BY <1>4, <2>2, <2>3
<1>6. Served(c)'
  BY <1>2, <1>4, <1>5 DEF Served, AtRest, Own, Unread, ReadPayload, GetRoutes, SaveRoutes
<1>7. \A p \in handled' : p[2] <= sent[c]
  <2>1. Own(c)[2] <= sent[c]
    BY DEF Own, IInv, TypeOK
  <2> QED  BY <1>1, <1>2, <2>1 DEF SoloAt, OwedInv, ReadPayload
<1>8. SoloInv'
  BY <1>2, <1>6, <1>7, StillServed DEF ReadPayload
<1> QED  BY <1>3, <1>8

(* The buffer is the server's. *)
LEMMA WriteResponseSolo ==
  ASSUME OneCaller, IInv, SoloInv, NEW c \in Clients, WriteResponse
  PROVE  SoloInv'
<1> USE DEF semaphores, request, answer
<1>1. SoloAt(c) /\ ~AtRest
  BY DEF SoloInv, AtRest, WriteResponse
<1>2. Waiting(c) /\ Served(c) /\ message.payload = Own(c) /\ current_message_id = sent[c]
  BY <1>1, WorkIsAwaited DEF IInv
<1>3. server'.pc = "stamp" /\ server'.route = server.route /\ server'.id = server.id
  BY ServerKeeps DEF WriteResponse, IInv
<1>4. Served(c)'
  BY <1>2, <1>3 DEF Served, AtRest, Own, Unread, WriteResponse
<1> QED  BY <1>1, <1>2, <1>4, StillServed DEF SoloAt, OwedInv, WriteResponse

(* The response carries the id of the request. *)
LEMMA StampResponseSolo ==
  ASSUME OneCaller, IInv, SoloInv, NEW c \in Clients, StampResponse
  PROVE  SoloInv'
<1> USE DEF semaphores, request, answer
<1>1. SoloAt(c) /\ ~AtRest
  BY DEF SoloInv, AtRest, StampResponse
<1>2. Waiting(c) /\ Served(c) /\ message.payload = Own(c) /\ current_message_id = sent[c]
  BY <1>1, WorkIsAwaited DEF IInv
<1>3. server'.pc = "notify" /\ server'.route = server.route
  BY ServerKeeps DEF StampResponse, IInv
<1>4. Served(c)'
  BY <1>2, <1>3 DEF Served, AtRest, Own, Unread, StampResponse
<1> QED  BY <1>1, <1>2, <1>4, StillServed DEF SoloAt, OwedInv, StampResponse

(* From here on the client may go on while the server ends its round. *)
LEMMA NotifySolo ==
  ASSUME OneCaller, IInv, SoloInv, NEW c \in Clients, Notify
  PROVE  SoloInv'
<1> USE DEF semaphores, request, answer
<1>1. SoloAt(c) /\ ~AtRest
  BY DEF SoloInv, AtRest, Notify
<1>2. Waiting(c) /\ Served(c) /\ message.payload = Own(c) /\ current_message_id = sent[c]
  BY <1>1, WorkIsAwaited DEF IInv
<1>3. server'.pc = "clear"
  BY ServerKeeps DEF Notify, IInv
<1>4. Replied(c)'
  BY <1>2, <1>3 DEF Served, Replied, AtRest, Own, Notify
<1>5. SoloAt(c)'
  BY <1>1, <1>2, <1>3, <1>4 DEF SoloAt, OwedInv, TurnInv, FillInv, WaitInv, AnswerInv,
    Quiet, Filling, Waiting, Answered, At, Own, Notify
<1> QED  BY <1>5, OneIsAll

(* The end of a round disturbs nothing but the flag. *)
LEMMA RestSolo ==
  ASSUME OneCaller, SoloInv, NEW c \in Clients, AtRest, AtRest',
         UNCHANGED <<data_ready, response_ready, message, current_message_id, answer,
                     sent, client, handled>>
  PROVE  SoloInv'
<1> USE DEF answer
<1>1. SoloAt(c)
  BY DEF SoloInv
<1>2. WaitInv(c)'
  BY <1>1 DEF SoloAt, WaitInv, Waiting, Posted, Served, Replied, Lost, At, Own
<1>3. SoloAt(c)'
  BY <1>1, <1>2 DEF SoloAt, OwedInv, TurnInv, FillInv, AnswerInv, Quiet, Filling,
    Answered, At, Own
<1> QED  BY <1>3, OneIsAll

(* The flag is cleared, be it that of the next request. *)
LEMMA ClearFlagSolo ==
  ASSUME OneCaller, IInv, SoloInv, NEW c \in Clients, ClearFlag
  PROVE  SoloInv'
<1> USE DEF semaphores, request, answer
<1>1. server'.pc = "release"
  BY ServerKeeps DEF ClearFlag, IInv
<1> QED  BY <1>1, RestSolo DEF ClearFlag, AtRest

(* The round is over. *)
LEMMA ReleaseSolo ==
  ASSUME OneCaller, SoloInv, NEW c \in Clients, Release
  PROVE  SoloInv'
<1> USE DEF semaphores, request, answer
<1>1. server.pc = "release" /\ server'.pc = "sleep"
  BY DEF Release
<1> QED  BY <1>1, RestSolo DEF Release, AtRest

(* A step that changes none of the variables keeps the invariant. *)
LEMMA StutterSolo ==
  ASSUME OneCaller, SoloInv, NEW c \in Clients, UNCHANGED vars
  PROVE  SoloInv'
<1> USE DEF vars, semaphores, request, answer
<1>1. SoloAt(c)
  BY DEF SoloInv
<1>2. WaitInv(c)'
  BY <1>1 DEF SoloAt, WaitInv, Waiting, Posted, Served, Replied, Lost, At, AtRest,
    Unread, Own
<1>3. SoloAt(c)'
  BY <1>1, <1>2 DEF SoloAt, OwedInv, TurnInv, FillInv, AnswerInv, Quiet, Filling,
    Answered, At, AtRest, Own
<1> QED  BY <1>3, OneIsAll
-----------------------------------------------------------------------------
(* The invariant of the channel with one caller *)

(* At first the caller is quiet and the server at rest. *)
LEMMA SoloInit ==
  ASSUME Init
  PROVE  SoloInv
BY ChannelAssumption DEF Init, SoloInv, SoloAt, OwedInv, TurnInv, FillInv, WaitInv,
  AnswerInv, Quiet, Filling, Waiting, Answered, At, AtRest

(* Every step keeps the invariant. *)
LEMMA SoloNext ==
  ASSUME OneCaller, IInv, SoloInv, [Next]_vars
  PROVE  SoloInv'
<1> SUFFICES ASSUME NEW c \in Clients PROVE SoloInv'
  BY DEF SoloInv
<1>1. ASSUME NEW d \in Clients, NEW r \in Routes, Send(d, r)  PROVE SoloInv'
  BY <1>1, SendSolo
<1>2. ASSUME NEW d \in Clients, Enter(d) \/ InsideStep(d)  PROVE SoloInv'
  BY <1>2, EnterSolo, WriteHeadSolo, WritePayloadSolo, RaiseFlagSolo,
     SetCurrentIdSolo, SignalSolo, LeaveSolo DEF InsideStep
<1>3. ASSUME NEW d \in Clients, Await(d) \/ AwaitStep(d)  PROVE SoloInv'
  BY <1>3, AwaitSolo, TakeAnswerSolo, CheckIdSolo, ReadResponseSolo, CleanSolo
     DEF AwaitStep
<1>4. ASSUME ServerStep  PROVE SoloInv'
  BY <1>4, WakeSolo, LookSolo, ReadRouteSolo, ReadTornRouteSolo, ReadIdSolo,
     ReadPayloadSolo, WriteResponseSolo, StampResponseSolo, NotifySolo,
     ClearFlagSolo, ReleaseSolo DEF ServerStep
<1>5. ASSUME UNCHANGED vars  PROVE SoloInv'
  BY <1>5, StutterSolo
<1> QED  BY <1>1, <1>2, <1>3, <1>4, <1>5 DEF Next

(* With one caller that awaits each answer, the buffers change hands like a baton:
   every request is announced, in the hands of the server, answered, or lost.  *)
THEOREM SoloInvariance ==
  ASSUME OneCaller
  PROVE  Spec => [](IInv /\ SoloInv)
<1>1. Init => IInv /\ SoloInv
  BY InitInvariant, SoloInit
<1>2. IInv /\ SoloInv /\ [Next]_vars => (IInv /\ SoloInv)'
  BY NextInvariant, SoloNext
<1> QED  BY <1>1, <1>2, PTL DEF Spec

(* A caller that awaits each answer gets the response to its own request, whole,
   for any number of requests. *)
THEOREM AnswersAreOwn ==
  ASSUME OneCaller
  PROVE  Spec => []AnswerIsOwn
<1>1. SoloInv => AnswerIsOwn
  BY DEF SoloInv, SoloAt, AnswerInv, AnswerIsOwn, Own
<1> QED  BY <1>1, SoloInvariance, PTL

(* Although neither side holds the mutex while it does so, no buffer is copied into
   while the other side reads it. *)
THEOREM BuffersAreUnshared ==
  ASSUME OneCaller
  PROVE  Spec => []BuffersUnshared
<1>1. SoloInv => BuffersUnshared
  BY DEF SoloInv, SoloAt, TurnInv, Quiet, Filling, Answered, AtRest, BuffersUnshared
<1> QED  BY <1>1, SoloInvariance, PTL

(* No handler works on a request twice, although the flag is cleared after the
   response has been posted. *)
THEOREM RequestsAreHandledOnce ==
  ASSUME OneCaller
  PROVE  Spec => HandledOnce
<1>1. IInv /\ SoloInv /\ [Next]_vars
      => [server.pc = "payload" /\ server'.pc # "payload"
            => message.payload \notin handled]_vars
  <2> SUFFICES ASSUME IInv, SoloInv, Next, server.pc = "payload"
               PROVE  server'.pc # "payload" => message.payload \notin handled
    OBVIOUS
  <2>1. PICK c \in Clients : TRUE
    BY DEF IInv, ServerInv, Resting, Written, Payloads
  <2>2. SoloAt(c) /\ ~AtRest
    BY DEF SoloInv, AtRest
  <2>3. Served(c) /\ message.payload = Own(c)
    BY <2>2, WorkIsAwaited DEF IInv
  <2> QED  BY <2>3 DEF Served, Unread
<1> QED  BY <1>1, SoloInvariance, PTL DEF Spec, HandledOnce
-----------------------------------------------------------------------------
(* The test program *)

(* Whoever takes a step of the channel takes one of IPCChannel's. *)
LEMMA TestStepIsChannelStep ==
  ASSUME IInv, TestNext
  PROVE  [Next]_vars
<1>1. CASE NextTest
  <2>1. sent[Tester] + 1 \in 1 .. Len(Tests)
    BY <1>1, TestAssumption DEF NextTest, IInv, TypeOK, Tests
  <2> QED  BY <1>1, <2>1, TestAssumption DEF NextTest, Next
<1>2. CASE SendStep
  BY <1>2, TestAssumption DEF SendStep, Next
<1>3. CASE SleepEnds \/ TestsEnd \/ Close \/ Interrupt
  BY <1>3 DEF SleepEnds, TestsEnd, Close, Interrupt
<1>4. CASE ServerStep
  BY <1>4 DEF Next
<1>5. ASSUME NEW c \in Clients \ {Tester}, Other(c)  PROVE [Next]_vars
  BY <1>5 DEF Other, Next
<1> QED  BY <1>1, <1>2, <1>3, <1>4, <1>5 DEF TestNext, Program

(* What the proofs say of the channel holds of the channel the test program uses:
   its sleeps, its interrupts and the end of its loop do nothing to the shared
   memory that a client could not do. *)
THEOREM TestProgramIsAClient == TestSpec => Spec
<1>1. TestInit => Init /\ IInv
  BY InitInvariant DEF TestInit
<1>2. IInv /\ [TestNext]_testVars => [Next]_vars /\ IInv'
  <2> SUFFICES ASSUME IInv, [TestNext]_testVars
               PROVE  [Next]_vars /\ IInv'
    OBVIOUS
  <2>1. [Next]_vars
    BY TestStepIsChannelStep DEF testVars
  <2> QED  BY <2>1, NextInvariant
<1> QED  BY <1>1, <1>2, PTL DEF TestSpec, Spec
=============================================================================
