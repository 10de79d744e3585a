--------------------------- MODULE IPCChannelProofs ---------------------------
(***************************************************************************)
(* Proofs about IPCChannel, for every finite set of clients, every choice  *)
(* of routes and any number of requests, with callers that await their     *)
(* answers or do not.                                                      *)
(***************************************************************************)
EXTENDS IPCChannel, TLAPS, FiniteSetTheorems

InsidePCs == {"head", "payload", "flag", "number", "signal", "leave"}
Resting   == {"sleep", "look", "release"}   \* the server reads no message

(* The slot holds a whole message, be it of several clients *)
Written == message.route \in Routes /\ message.payload \in Payloads

(* What a client's next access relies on *)
ClientInv ==
  \A c \in Clients :
    /\ client[c].pc \in {"enter", "head"} =>
         sent[c] < MaxSends /\ client[c].route \in Routes
    /\ client[c].pc = "payload" => sent[c] >= 1 /\ message.route \in Routes
    /\ client[c].pc = "flag" => Written

(* The server reads the slot only after some client has filled it *)
ServerInv ==
  /\ has_message \/ server.pc \notin Resting => Written
  /\ server.pc \in {"id", "payload"} => server.route \in Routes

IInv == TypeOK /\ ClientInv /\ ServerInv /\ MutexTokens /\ NoLostWakeup
-----------------------------------------------------------------------------
(* The clients inside send_message are finitely many. *)
LEMMA InsideIsFinite == IsFiniteSet(Inside)
<1>1. Inside \subseteq Clients
  BY DEF Inside
<1> QED  BY <1>1, ChannelAssumption, FS_Subset

(* A step of a client that neither enters nor leaves keeps the set. *)
LEMMA InsideUnchanged ==
  ASSUME NEW c \in Clients,
         \A d \in Clients : d # c => client'[d] = client[d],
         client'[c].pc \in InsidePCs <=> client[c].pc \in InsidePCs
  PROVE  Inside' = Inside
BY DEF Inside, InsidePCs

(* The first state satisfies the inductive invariant. *)
LEMMA InitInvariant ==
  ASSUME Init
  PROVE  IInv
<1>1. Inside = {}
  BY DEF Init, Inside
<1>2. TypeOK
  <2>1. 0 \in 0 .. MaxSends /\ 0 \in 0 .. 1
    BY ChannelAssumption
  <2>2. message \in Messages /\ server \in ServerStates
    BY <2>1 DEF Init, Messages, ServerStates
  <2>3. client \in [Clients -> ClientStates]
    BY DEF Init, ClientStates
  <2> QED  BY <2>1, <2>2, <2>3 DEF Init, TypeOK
<1>3. MutexTokens
  BY <1>1, FS_EmptySet DEF Init, MutexTokens
<1> QED  BY <1>2, <1>3 DEF Init, IInv, ClientInv, ServerInv, NoLostWakeup, Resting

(* What Goto does to the control state of one client. *)
LEMMA GotoMoves ==
  ASSUME TypeOK, NEW c \in Clients,
         NEW pc \in {"head", "payload", "flag", "number", "signal", "leave",
                     "idle", "await", "check", "read", "clean"},
         Goto(c, pc)
  PROVE  /\ client' \in [Clients -> ClientStates]
         /\ client'[c] = [client[c] EXCEPT !.pc = pc]
         /\ client'[c].pc = pc /\ client'[c].route = client[c].route
         /\ \A d \in Clients : d # c => client'[d] = client[d]
<1>1. client \in [Clients -> ClientStates] /\ client[c] \in ClientStates
  BY DEF TypeOK
<1>2. client'[c] = [client[c] EXCEPT !.pc = pc]
  BY <1>1 DEF Goto
<1>3. client'[c] \in ClientStates
  BY <1>1, <1>2 DEF ClientStates
<1>4. client' \in [Clients -> ClientStates]
  BY <1>1, <1>2, <1>3 DEF Goto
<1>5. client'[c].pc = pc /\ client'[c].route = client[c].route
  BY <1>1, <1>2 DEF ClientStates
<1> QED  BY <1>1, <1>2, <1>4, <1>5 DEF Goto

(* The end of a call that awaited an answer. *)
Settled(c) == client' = [client EXCEPT ![c].pc = "idle", ![c].owed = FALSE]

(* What the end of such a call does to the control state of one client. *)
LEMMA SettledMoves ==
  ASSUME TypeOK, NEW c \in Clients, Settled(c)
  PROVE  /\ client' \in [Clients -> ClientStates]
         /\ client'[c].pc = "idle"
         /\ \A d \in Clients : d # c => client'[d] = client[d]
<1>1. client \in [Clients -> ClientStates] /\ client[c] \in ClientStates
  BY DEF TypeOK
<1>2. client'[c] = [client[c] EXCEPT !.pc = "idle", !.owed = FALSE]
  BY <1>1 DEF Settled
<1>3. client'[c] \in ClientStates /\ client'[c].pc = "idle"
  BY <1>1, <1>2 DEF ClientStates
<1>4. client' \in [Clients -> ClientStates]
      /\ \A d \in Clients : d # c => client'[d] = client[d]
  BY <1>1, <1>2, <1>3 DEF Settled
<1> QED  BY <1>3, <1>4

(* The invariant survives a step that leaves the segment, the semaphores and
   the server alone and moves one client between resting places.             *)
LEMMA ClientRests ==
  ASSUME IInv, NEW c \in Clients,
         client' \in [Clients -> ClientStates],
         \A d \in Clients : d # c => client'[d] = client[d],
         client[c].pc \in {"idle", "await", "check", "read"},
         client'[c].pc \in {"idle", "enter", "await", "check", "read", "clean"},
         client'[c].pc = "enter" =>
           sent[c] < MaxSends /\ client'[c].route \in Routes,
         UNCHANGED <<semaphores, request, answer, sent, server, released, handled>>
  PROVE  IInv'
<1> USE DEF semaphores, request, answer
<1>1. TypeOK'
  BY DEF IInv, TypeOK
<1>2. ClientInv'
  BY DEF IInv, ClientInv, Written
<1>3. ServerInv'
  BY DEF IInv, ServerInv, Written
<1>4. MutexTokens'
  <2>1. Inside' = Inside
    BY InsideUnchanged DEF InsidePCs
  <2> QED  BY <2>1 DEF IInv, MutexTokens
<1>5. NoLostWakeup'
  BY DEF IInv, NoLostWakeup
<1> QED  BY <1>1, <1>2, <1>3, <1>4, <1>5 DEF IInv

(* Send names a route and leaves the client at the door of the mutex. *)
LEMMA SendInvariant ==
  ASSUME IInv, NEW c \in Clients, NEW r \in Routes, Send(c, r)
  PROVE  IInv'
<1>1. client \in [Clients -> ClientStates]
  BY DEF IInv, TypeOK
<1>2. client'[c] = [pc |-> "enter", route |-> r,
                    owed |-> r \in Answering, got |-> None]
  BY <1>1 DEF Send
<1>3. client'[c] \in ClientStates
  <2>1. \A b \in BOOLEAN :
          [pc |-> "enter", route |-> r, owed |-> b, got |-> None] \in ClientStates
    BY DEF ClientStates
  <2>2. (r \in Answering) \in BOOLEAN
    OBVIOUS
  <2> QED  BY Zenon, <1>2, <2>1, <2>2
<1>4. client' \in [Clients -> ClientStates]
      /\ \A d \in Clients : d # c => client'[d] = client[d]
  BY <1>1, <1>2, <1>3 DEF Send
<1>5. client[c].pc = "idle" /\ sent[c] < MaxSends
  BY DEF Send, At
<1>6. client'[c].pc = "enter" /\ client'[c].route \in Routes
  BY <1>2
<1> QED  BY <1>4, <1>5, <1>6, ClientRests DEF Send

(* Enter takes one token of the mutex for one more client inside. *)
LEMMA EnterInvariant ==
  ASSUME IInv, NEW c \in Clients, Enter(c)
  PROVE  IInv'
<1> USE DEF request, answer
<1>1. TypeOK /\ Goto(c, "head")
  BY DEF IInv, Enter
<1>2. /\ client' \in [Clients -> ClientStates]
      /\ client'[c].pc = "head" /\ client'[c].route = client[c].route
      /\ \A d \in Clients : d # c => client'[d] = client[d]
  BY <1>1, GotoMoves
<1>3. TypeOK'
  <2>1. mutex' \in Nat
    BY DEF IInv, TypeOK, Enter
  <2> QED  BY <1>2, <2>1 DEF IInv, TypeOK, Enter
<1>4. ClientInv'
  BY <1>2 DEF IInv, ClientInv, Enter, At, Written
<1>5. ServerInv'
  BY DEF IInv, ServerInv, Enter, Written
<1>6. MutexTokens'
  <2>1. c \notin Inside /\ Inside' = Inside \cup {c}
    BY <1>2 DEF Inside, Enter, At
  <2>2. Cardinality(Inside') = Cardinality(Inside) + 1
        /\ Cardinality(Inside) \in Nat
    BY <2>1, InsideIsFinite, FS_AddElement, FS_CardinalityType
  <2> QED  BY <2>2 DEF IInv, TypeOK, MutexTokens, Enter
<1>7. NoLostWakeup'
  BY <1>2 DEF IInv, NoLostWakeup, Enter, At
<1> QED  BY <1>3, <1>4, <1>5, <1>6, <1>7 DEF IInv

(* Leave gives the token back. *)
LEMMA LeaveInvariant ==
  ASSUME IInv, NEW c \in Clients, Leave(c)
  PROVE  IInv'
<1> USE DEF request, answer
<1>1. TypeOK /\ Goto(c, "idle")
  BY DEF IInv, Leave
<1>2. /\ client' \in [Clients -> ClientStates]
      /\ client'[c].pc = "idle"
      /\ \A d \in Clients : d # c => client'[d] = client[d]
  BY <1>1, GotoMoves
<1>3. TypeOK'
  <2>1. mutex' \in Nat
    BY DEF IInv, TypeOK, Leave
  <2> QED  BY <1>2, <2>1 DEF IInv, TypeOK, Leave
<1>4. ClientInv'
  BY <1>2 DEF IInv, ClientInv, Leave, At, Written
<1>5. ServerInv'
  BY DEF IInv, ServerInv, Leave, Written
<1>6. MutexTokens'
  <2>1. c \in Inside /\ Inside' = Inside \ {c}
    BY <1>2 DEF Inside, Leave, At
  <2>2. Cardinality(Inside') = Cardinality(Inside) - 1
        /\ Cardinality(Inside) \in Nat
    BY <2>1, InsideIsFinite, FS_RemoveElement, FS_CardinalityType
  <2> QED  BY <2>2 DEF IInv, TypeOK, MutexTokens, Leave
<1>7. NoLostWakeup'
  BY <1>2 DEF IInv, NoLostWakeup, Leave, At
<1> QED  BY <1>3, <1>4, <1>5, <1>6, <1>7 DEF IInv
-----------------------------------------------------------------------------
(* The accesses of a client inside send_message *)

(* WriteHead counts a request the bound allows and writes a route. *)
LEMMA WriteHeadInvariant ==
  ASSUME IInv, NEW c \in Clients, WriteHead(c)
  PROVE  IInv'
<1> USE DEF semaphores, request, answer
<1>1. TypeOK /\ Goto(c, "payload")
  BY DEF IInv, WriteHead
<1>2. /\ client' \in [Clients -> ClientStates]
      /\ client'[c].pc = "payload" /\ client'[c].route = client[c].route
      /\ \A d \in Clients : d # c => client'[d] = client[d]
  BY <1>1, GotoMoves
<1>3. client[c].pc = "head"
  BY DEF WriteHead, At
<1>4. /\ sent' \in [Clients -> 0 .. MaxSends]
      /\ sent'[c] = sent[c] + 1 /\ sent[c] \in Nat
      /\ \A d \in Clients : d # c => sent'[d] = sent[d]
      /\ message' \in Messages
      /\ message'.route \in Routes /\ message'.payload = message.payload
  <2>1. sent \in [Clients -> 0 .. MaxSends] /\ message \in Messages
    BY DEF IInv, TypeOK
  <2>2. sent[c] < MaxSends /\ client[c].route \in Routes
    BY <1>3 DEF IInv, ClientInv
  <2>3. sent[c] + 1 \in 0 .. MaxSends /\ sent[c] \in Nat
    BY <2>1, <2>2, ChannelAssumption
  <2>4. /\ sent' \in [Clients -> 0 .. MaxSends] /\ sent'[c] = sent[c] + 1
        /\ \A d \in Clients : d # c => sent'[d] = sent[d]
    BY <2>1, <2>3 DEF WriteHead
  <2>5. /\ message' \in Messages
        /\ message'.route \in Routes /\ message'.payload = message.payload
    BY <2>1, <2>2, <2>4 DEF WriteHead, Messages
  <2> QED  BY <2>3, <2>4, <2>5
<1>5. TypeOK'
  BY <1>2, <1>4 DEF IInv, TypeOK, WriteHead
<1>6. ClientInv'
  BY <1>2, <1>3, <1>4 DEF IInv, TypeOK, ClientInv, WriteHead, Written
<1>7. ServerInv'
  BY <1>3, <1>4 DEF IInv, ClientInv, ServerInv, WriteHead, Written
<1>8. MutexTokens'
  <2>1. Inside' = Inside
    BY <1>2, <1>3, InsideUnchanged DEF InsidePCs
  <2> QED  BY <2>1 DEF IInv, MutexTokens, WriteHead
<1>9. NoLostWakeup'
  BY <1>2, <1>3, <1>4 DEF IInv, TypeOK, NoLostWakeup, WriteHead
<1> QED  BY <1>5, <1>6, <1>7, <1>8, <1>9 DEF IInv

(* WritePayload completes a message. *)
LEMMA WritePayloadInvariant ==
  ASSUME IInv, NEW c \in Clients, WritePayload(c)
  PROVE  IInv'
<1> USE DEF semaphores, request, answer
<1>1. TypeOK /\ Goto(c, "flag")
  BY DEF IInv, WritePayload
<1>2. /\ client' \in [Clients -> ClientStates]
      /\ client'[c].pc = "flag" /\ client'[c].route = client[c].route
      /\ \A d \in Clients : d # c => client'[d] = client[d]
  BY <1>1, GotoMoves
<1>3. client[c].pc = "payload"
  BY DEF WritePayload, At
<1>4. message' \in Messages /\ Written'
  <2>1. message \in Messages /\ sent[c] \in 0 .. MaxSends
    BY DEF IInv, TypeOK
  <2>2. sent[c] >= 1 /\ message.route \in Routes
    BY <1>3 DEF IInv, ClientInv
  <2>3. <<c, sent[c]>> \in Payloads
    BY <2>1, <2>2, ChannelAssumption DEF Payloads
  <2> QED  BY <2>1, <2>2, <2>3 DEF WritePayload, Messages, Written
<1>5. TypeOK'
  BY <1>2, <1>4 DEF IInv, TypeOK, WritePayload
<1>6. ClientInv'
  BY <1>2, <1>3, <1>4 DEF IInv, TypeOK, ClientInv, WritePayload, Written
<1>7. ServerInv'
  BY <1>3, <1>4 DEF IInv, ClientInv, ServerInv, WritePayload, Written
<1>8. MutexTokens'
  <2>1. Inside' = Inside
    BY <1>2, <1>3, InsideUnchanged DEF InsidePCs
  <2> QED  BY <2>1 DEF IInv, MutexTokens, WritePayload
<1>9. NoLostWakeup'
  BY <1>2, <1>3, <1>4 DEF IInv, TypeOK, NoLostWakeup, WritePayload
<1> QED  BY <1>5, <1>6, <1>7, <1>8, <1>9 DEF IInv

(* RaiseFlag shows the server a message some client has completed. *)
LEMMA RaiseFlagInvariant ==
  ASSUME IInv, NEW c \in Clients, RaiseFlag(c)
  PROVE  IInv'
<1> USE DEF semaphores, request, answer
<1>1. TypeOK /\ Goto(c, "number")
  BY DEF IInv, RaiseFlag
<1>2. /\ client' \in [Clients -> ClientStates]
      /\ client'[c].pc = "number" /\ client'[c].route = client[c].route
      /\ \A d \in Clients : d # c => client'[d] = client[d]
  BY <1>1, GotoMoves
<1>3. client[c].pc = "flag"
  BY DEF RaiseFlag, At
<1>4. Written /\ has_message' = TRUE
  BY <1>3 DEF IInv, ClientInv, RaiseFlag
<1>5. TypeOK'
  BY <1>2, <1>4 DEF IInv, TypeOK, RaiseFlag
<1>6. ClientInv'
  BY <1>2, <1>3, <1>4 DEF IInv, TypeOK, ClientInv, RaiseFlag, Written
<1>7. ServerInv'
  BY <1>3, <1>4 DEF IInv, ClientInv, ServerInv, RaiseFlag, Written
<1>8. MutexTokens'
  <2>1. Inside' = Inside
    BY <1>2, <1>3, InsideUnchanged DEF InsidePCs
  <2> QED  BY <2>1 DEF IInv, MutexTokens, RaiseFlag
<1>9. NoLostWakeup'
  BY <1>2, <1>3, <1>4 DEF IInv, TypeOK, NoLostWakeup, RaiseFlag
<1> QED  BY <1>5, <1>6, <1>7, <1>8, <1>9 DEF IInv

(* SetCurrentId copies an id out of the slot. *)
LEMMA SetCurrentIdInvariant ==
  ASSUME IInv, NEW c \in Clients, SetCurrentId(c)
  PROVE  IInv'
<1> USE DEF semaphores, request, answer
<1>1. TypeOK /\ Goto(c, "signal")
  BY DEF IInv, SetCurrentId
<1>2. /\ client' \in [Clients -> ClientStates]
      /\ client'[c].pc = "signal" /\ client'[c].route = client[c].route
      /\ \A d \in Clients : d # c => client'[d] = client[d]
  BY <1>1, GotoMoves
<1>3. client[c].pc = "number"
  BY DEF SetCurrentId, At
<1>4. current_message_id' \in 0 .. MaxSends
  BY DEF IInv, TypeOK, SetCurrentId, Messages
<1>5. TypeOK'
  BY <1>2, <1>4 DEF IInv, TypeOK, SetCurrentId
<1>6. ClientInv'
  BY <1>2, <1>3, <1>4 DEF IInv, TypeOK, ClientInv, SetCurrentId, Written
<1>7. ServerInv'
  BY <1>3, <1>4 DEF IInv, ClientInv, ServerInv, SetCurrentId, Written
<1>8. MutexTokens'
  <2>1. Inside' = Inside
    BY <1>2, <1>3, InsideUnchanged DEF InsidePCs
  <2> QED  BY <2>1 DEF IInv, MutexTokens, SetCurrentId
<1>9. NoLostWakeup'
  BY <1>2, <1>3, <1>4 DEF IInv, TypeOK, NoLostWakeup, SetCurrentId
<1> QED  BY <1>5, <1>6, <1>7, <1>8, <1>9 DEF IInv

(* Signal posts the token that the flag was raised for. *)
LEMMA SignalInvariant ==
  ASSUME IInv, NEW c \in Clients, Signal(c)
  PROVE  IInv'
<1> USE DEF semaphores, request, answer
<1>1. TypeOK /\ Goto(c, "leave")
  BY DEF IInv, Signal
<1>2. /\ client' \in [Clients -> ClientStates]
      /\ client'[c].pc = "leave" /\ client'[c].route = client[c].route
      /\ \A d \in Clients : d # c => client'[d] = client[d]
  BY <1>1, GotoMoves
<1>3. client[c].pc = "signal"
  BY DEF Signal, At
<1>4. data_ready' \in Nat /\ data_ready' > 0
  BY DEF IInv, TypeOK, Signal
<1>5. TypeOK'
  BY <1>2, <1>4 DEF IInv, TypeOK, Signal
<1>6. ClientInv'
  BY <1>2, <1>3, <1>4 DEF IInv, TypeOK, ClientInv, Signal, Written
<1>7. ServerInv'
  BY <1>3, <1>4 DEF IInv, ClientInv, ServerInv, Signal, Written
<1>8. MutexTokens'
  <2>1. Inside' = Inside
    BY <1>2, <1>3, InsideUnchanged DEF InsidePCs
  <2> QED  BY <2>1 DEF IInv, MutexTokens, Signal
<1>9. NoLostWakeup'
  BY <1>2, <1>3, <1>4 DEF IInv, TypeOK, NoLostWakeup, Signal
<1> QED  BY <1>5, <1>6, <1>7, <1>8, <1>9 DEF IInv

-----------------------------------------------------------------------------
(* wait_for_response *)

(* CheckId gives up or goes on to read; nothing else changes. *)
LEMMA CheckIdInvariant ==
  ASSUME IInv, NEW c \in Clients, CheckId(c)
  PROVE  IInv'
<1>1. client[c].pc = "check"
  BY DEF CheckId, At
<1>2. CASE response_message_id = sent[c]
  <2>1. Goto(c, "read") /\ TypeOK
    BY <1>2 DEF CheckId, IInv
  <2>2. /\ client' \in [Clients -> ClientStates]
        /\ client'[c].pc = "read"
        /\ \A d \in Clients : d # c => client'[d] = client[d]
    BY <2>1, GotoMoves
  <2> QED  BY <1>1, <2>2, ClientRests DEF CheckId
<1>3. CASE response_message_id # sent[c]
  <2>1. client' = [client EXCEPT ![c].pc = "idle", ![c].owed = FALSE]
    BY <1>3 DEF CheckId
  <2>2. Settled(c)
    BY <2>1 DEF Settled
  <2> QED  BY <1>1, <2>2, SettledMoves, ClientRests DEF CheckId, IInv
<1> QED  BY <1>2, <1>3

(* ReadResponse copies the buffer into the caller. *)
LEMMA ReadResponseInvariant ==
  ASSUME IInv, NEW c \in Clients, ReadResponse(c)
  PROVE  IInv'
<1>1. client[c].pc = "read"
  BY DEF ReadResponse, At
<1>2. PICK v \in Payloads \cup {None} :
        client' = [client EXCEPT ![c].pc = "clean", ![c].got = v]
  BY DEF ReadResponse, IInv, TypeOK
<1>3. client \in [Clients -> ClientStates] /\ client[c] \in ClientStates
  BY DEF IInv, TypeOK
<1>4. client'[c] = [client[c] EXCEPT !.pc = "clean", !.got = v]
  BY <1>2, <1>3
<1>5. client'[c] \in ClientStates /\ client'[c].pc = "clean"
  BY <1>3, <1>4 DEF ClientStates
<1>6. /\ client' \in [Clients -> ClientStates]
      /\ \A d \in Clients : d # c => client'[d] = client[d]
  BY <1>2, <1>3, <1>4, <1>5
<1> QED  BY <1>1, <1>5, <1>6, ClientRests DEF ReadResponse

(* Clean empties the buffer. *)
LEMMA CleanInvariant ==
  ASSUME IInv, NEW c \in Clients, Clean(c)
  PROVE  IInv'
<1> USE DEF semaphores, request, answer
<1>1. client[c].pc = "clean"
  BY DEF Clean, At
<1>2. /\ client' \in [Clients -> ClientStates]
      /\ client'[c].pc = "idle"
      /\ \A d \in Clients : d # c => client'[d] = client[d]
  BY SettledMoves DEF Clean, Settled, IInv
<1>3. TypeOK'
  <2>1. response_size' \in 0 .. 1
    BY DEF Clean
  <2> QED  BY <1>2, <2>1 DEF IInv, TypeOK, Clean
<1>4. ClientInv'
  BY <1>2 DEF IInv, ClientInv, Clean, Written
<1>5. ServerInv'
  BY DEF IInv, ServerInv, Clean, Written
<1>6. MutexTokens'
  <2>1. Inside' = Inside
    BY <1>1, <1>2, InsideUnchanged DEF InsidePCs
  <2> QED  BY <2>1 DEF IInv, MutexTokens, Clean
<1>7. NoLostWakeup'
  BY <1>1, <1>2 DEF IInv, NoLostWakeup, Clean
<1> QED  BY <1>3, <1>4, <1>5, <1>6, <1>7 DEF IInv

(* TakeAnswer takes a token of response_ready. *)
LEMMA TakeAnswerInvariant ==
  ASSUME IInv, NEW c \in Clients, TakeAnswer(c)
  PROVE  IInv'
<1> USE DEF semaphores, request, answer
<1>1. client[c].pc = "await" /\ Goto(c, "check") /\ TypeOK
  BY DEF TakeAnswer, At, IInv
<1>2. /\ client' \in [Clients -> ClientStates]
      /\ client'[c].pc = "check"
      /\ \A d \in Clients : d # c => client'[d] = client[d]
  BY <1>1, GotoMoves
<1>3. TypeOK'
  <2>1. response_ready' \in Nat
    BY DEF IInv, TypeOK, TakeAnswer
  <2> QED  BY <1>2, <2>1 DEF IInv, TypeOK, TakeAnswer
<1>4. ClientInv'
  BY <1>2 DEF IInv, ClientInv, TakeAnswer, Written
<1>5. ServerInv'
  BY DEF IInv, ServerInv, TakeAnswer, Written
<1>6. MutexTokens'
  <2>1. Inside' = Inside
    BY <1>1, <1>2, InsideUnchanged DEF InsidePCs
  <2> QED  BY <2>1 DEF IInv, MutexTokens, TakeAnswer
<1>7. NoLostWakeup'
  BY <1>1, <1>2 DEF IInv, NoLostWakeup, TakeAnswer
<1> QED  BY <1>3, <1>4, <1>5, <1>6, <1>7 DEF IInv

(* Await only moves the client to the semaphore. *)
LEMMA AwaitInvariant ==
  ASSUME IInv, NEW c \in Clients, Await(c)
  PROVE  IInv'
<1>1. client[c].pc = "idle" /\ Goto(c, "await") /\ TypeOK
  BY DEF Await, At, IInv
<1>2. /\ client' \in [Clients -> ClientStates]
      /\ client'[c].pc = "await"
      /\ \A d \in Clients : d # c => client'[d] = client[d]
  BY <1>1, GotoMoves
<1> QED  BY <1>1, <1>2, ClientRests DEF Await
-----------------------------------------------------------------------------
(* The server's loop *)

(* A step of the server that changes nothing of its own but where it is. *)
LEMMA ServerMoves ==
  ASSUME server \in ServerStates,
         NEW pc \in {"sleep", "look", "route", "id", "payload", "answer", "stamp",
                     "notify", "clear", "release"},
         server' = [server EXCEPT !.pc = pc]
  PROVE  server' \in ServerStates /\ server'.pc = pc
BY DEF ServerStates

(* Wake takes a token of data_ready and goes to look. *)
LEMMA WakeInvariant ==
  ASSUME IInv, Wake
  PROVE  IInv'
<1> USE DEF semaphores, request, answer
<1>1. server' \in ServerStates /\ server'.pc = "look"
      /\ data_ready' \in Nat
  <2>1. server \in ServerStates /\ server' = [server EXCEPT !.pc = "look"]
    BY DEF IInv, TypeOK, Wake
  <2>2. server' \in ServerStates /\ server'.pc = "look"
    BY <2>1, ServerMoves
  <2>3. data_ready' \in Nat
    BY DEF IInv, TypeOK, Wake
  <2> QED  BY <2>2, <2>3
<1>2. TypeOK'
  BY <1>1 DEF IInv, TypeOK, Wake
<1>3. ClientInv'
  BY DEF IInv, ClientInv, Wake, Written
<1>4. ServerInv'
  BY <1>1 DEF IInv, ServerInv, Wake, Written, Resting
<1>5. MutexTokens'
  BY <1>1 DEF IInv, TypeOK, MutexTokens, Inside, Wake
<1>6. NoLostWakeup'
  BY <1>1 DEF IInv, NoLostWakeup, Wake
<1> QED  BY <1>2, <1>3, <1>4, <1>5, <1>6 DEF IInv

(* Look goes on only when a message is in the slot. *)
LEMMA LookInvariant ==
  ASSUME IInv, Look
  PROVE  IInv'
<1> USE DEF semaphores, request, answer
<1>1. /\ server' \in ServerStates
      /\ server'.pc = IF has_message THEN "route" ELSE "release"
  BY DEF IInv, TypeOK, ServerStates, Look
<1>2. TypeOK'
  BY <1>1 DEF IInv, TypeOK, Look
<1>3. ClientInv'
  BY DEF IInv, ClientInv, Look, Written
<1>4. ServerInv'
  BY <1>1 DEF IInv, ServerInv, Look, Written, Resting
<1>5. MutexTokens'
  BY <1>1 DEF IInv, TypeOK, MutexTokens, Inside, Look
<1>6. NoLostWakeup'
  BY <1>1 DEF IInv, NoLostWakeup, Look
<1> QED  BY <1>2, <1>3, <1>4, <1>5, <1>6 DEF IInv

(* ReadRoute reads the route of a message some client has written. *)
LEMMA ReadRouteInvariant ==
  ASSUME IInv, ReadRoute
  PROVE  IInv'
<1> USE DEF semaphores, request, answer
<1>1. /\ server' \in ServerStates /\ server'.route \in Routes
      /\ server'.pc \in {"id", "payload"}
      /\ server.pc = "route" /\ Written
  <2>1. server.pc = "route" /\ Written
    BY DEF IInv, ServerInv, ReadRoute, Resting
  <2>2. message.route \in Routes /\ server \in ServerStates
    BY <2>1 DEF IInv, TypeOK, Written
  <2>3. PICK pc \in {"id", "payload"} :
          server' = [server EXCEPT !.route = message.route, !.pc = pc]
    BY DEF ReadRoute
  <2> QED  BY <2>1, <2>2, <2>3 DEF ServerStates
<1>2. TypeOK'
  BY <1>1 DEF IInv, TypeOK, ReadRoute
<1>3. ClientInv'
  BY DEF IInv, ClientInv, ReadRoute, Written
<1>4. ServerInv'
  BY <1>1 DEF IInv, ServerInv, ReadRoute, Written, Resting
<1>5. MutexTokens'
  BY <1>1 DEF IInv, TypeOK, MutexTokens, Inside, ReadRoute
<1>6. NoLostWakeup'
  BY <1>1 DEF IInv, NoLostWakeup, ReadRoute
<1> QED  BY <1>2, <1>3, <1>4, <1>5, <1>6 DEF IInv

(* ReadTornRoute drops the message. *)
LEMMA ReadTornRouteInvariant ==
  ASSUME IInv, ReadTornRoute
  PROVE  IInv'
<1> USE DEF semaphores, request, answer
<1>1. server' \in ServerStates /\ server'.pc = "clear" /\ server.pc = "route"
  <2>1. server \in ServerStates /\ server' = [server EXCEPT !.pc = "clear"]
    BY DEF IInv, TypeOK, ReadTornRoute
  <2>2. server.pc = "route"
    BY DEF ReadTornRoute
  <2> QED  BY <2>1, <2>2, ServerMoves
<1>2. TypeOK'
  BY <1>1 DEF IInv, TypeOK, ReadTornRoute
<1>3. ClientInv'
  BY DEF IInv, ClientInv, ReadTornRoute, Written
<1>4. ServerInv'
  BY <1>1 DEF IInv, ServerInv, ReadTornRoute, Written, Resting
<1>5. MutexTokens'
  BY <1>1 DEF IInv, TypeOK, MutexTokens, Inside, ReadTornRoute
<1>6. NoLostWakeup'
  BY <1>1 DEF IInv, NoLostWakeup, ReadTornRoute
<1> QED  BY <1>2, <1>3, <1>4, <1>5, <1>6 DEF IInv

(* ReadId reads whatever id the slot now carries. *)
LEMMA ReadIdInvariant ==
  ASSUME IInv, ReadId
  PROVE  IInv'
<1> USE DEF semaphores, request, answer
<1>1. /\ server' \in ServerStates /\ server'.route = server.route
      /\ server'.pc \in {"payload", "answer"} /\ server.pc = "id"
  <2>1. current_message_id \in 0 .. MaxSends /\ server \in ServerStates
    BY DEF IInv, TypeOK
  <2>2. PICK pc \in {"payload", "answer"} :
          server' = [server EXCEPT !.id = current_message_id, !.pc = pc]
    BY DEF ReadId
  <2> QED  BY <2>1, <2>2 DEF ServerStates, ReadId
<1>2. TypeOK'
  BY <1>1 DEF IInv, TypeOK, ReadId
<1>3. ClientInv'
  BY DEF IInv, ClientInv, ReadId, Written
<1>4. ServerInv'
  BY <1>1 DEF IInv, ServerInv, ReadId, Written, Resting
<1>5. MutexTokens'
  BY <1>1 DEF IInv, TypeOK, MutexTokens, Inside, ReadId
<1>6. NoLostWakeup'
  BY <1>1 DEF IInv, NoLostWakeup, ReadId
<1> QED  BY <1>2, <1>3, <1>4, <1>5, <1>6 DEF IInv

(* ReadPayload hands a handler a payload some client has written. *)
LEMMA ReadPayloadInvariant ==
  ASSUME IInv, ReadPayload
  PROVE  IInv'
<1> USE DEF semaphores, request, answer
<1>1. /\ server' \in ServerStates /\ server'.route = server.route
      /\ server'.pc \in {"answer", "id", "clear"} /\ server.pc = "payload"
      /\ server.route \in Routes /\ message.payload \in Payloads
  <2>1. server.pc = "payload" /\ message.payload \in Payloads
    BY DEF IInv, ServerInv, ReadPayload, Resting, Written
  <2>2. server.route \in Routes
    BY <2>1 DEF IInv, ServerInv
  <2>3. server.route \in GetRoutes \/ server.route \in SaveRoutes
        \/ server.route \in SilentRoutes
    BY <2>2, ChannelAssumption DEF Answering
  <2>4. PICK pc \in {"answer", "id", "clear"} :
          server' = [server EXCEPT !.payload = message.payload, !.pc = pc]
    <3>1. server' = [server EXCEPT !.payload = message.payload, !.pc =
                       CASE server.route \in GetRoutes    -> "answer"
                         [] server.route \in SaveRoutes   -> "id"
                         [] server.route \in SilentRoutes -> "clear"]
      BY DEF ReadPayload
    <3>2. CASE server.route \in GetRoutes
      BY <3>1, <3>2 DEF GetRoutes, SaveRoutes, SilentRoutes
    <3>3. CASE server.route \in SaveRoutes
      BY <3>1, <3>3 DEF GetRoutes, SaveRoutes, SilentRoutes
    <3>4. CASE server.route \in SilentRoutes
      BY <3>1, <3>4 DEF GetRoutes, SaveRoutes, SilentRoutes
    <3> QED  BY <2>3, <3>2, <3>3, <3>4
  <2>5. server \in ServerStates
    BY DEF IInv, TypeOK
  <2> QED  BY <2>1, <2>2, <2>4, <2>5 DEF ServerStates
<1>2. TypeOK'
  BY <1>1 DEF IInv, TypeOK, ReadPayload
<1>3. ClientInv'
  BY DEF IInv, ClientInv, ReadPayload, Written
<1>4. ServerInv'
  BY <1>1 DEF IInv, ServerInv, ReadPayload, Written, Resting
<1>5. MutexTokens'
  BY <1>1 DEF IInv, TypeOK, MutexTokens, Inside, ReadPayload
<1>6. NoLostWakeup'
  BY <1>1 DEF IInv, NoLostWakeup, ReadPayload
<1> QED  BY <1>2, <1>3, <1>4, <1>5, <1>6 DEF IInv

(* WriteResponse fills the buffer. *)
LEMMA WriteResponseInvariant ==
  ASSUME IInv, WriteResponse
  PROVE  IInv'
<1> USE DEF semaphores, request, answer
<1>1. server' \in ServerStates /\ server'.pc = "stamp" /\ server.pc = "answer"
      /\ response' \in Payloads \cup {None} /\ response_size' \in 0 .. 1
  <2>1. server \in ServerStates /\ server' = [server EXCEPT !.pc = "stamp"]
    BY DEF IInv, TypeOK, WriteResponse
  <2>2. server' \in ServerStates /\ server'.pc = "stamp"
    BY <2>1, ServerMoves
  <2>3. server.payload \in Payloads \cup {None}
    BY <2>1 DEF ServerStates
  <2>4. server.pc = "answer" /\ response' = server.payload /\ response_size' = 1
    BY DEF WriteResponse
  <2> QED  BY <2>2, <2>3, <2>4
<1>2. TypeOK'
  BY <1>1 DEF IInv, TypeOK, WriteResponse
<1>3. ClientInv'
  BY DEF IInv, ClientInv, WriteResponse, Written
<1>4. ServerInv'
  BY <1>1 DEF IInv, ServerInv, WriteResponse, Written, Resting
<1>5. MutexTokens'
  BY <1>1 DEF IInv, TypeOK, MutexTokens, Inside, WriteResponse
<1>6. NoLostWakeup'
  BY <1>1 DEF IInv, NoLostWakeup, WriteResponse
<1> QED  BY <1>2, <1>3, <1>4, <1>5, <1>6 DEF IInv

(* StampResponse writes the id the handler has read. *)
LEMMA StampResponseInvariant ==
  ASSUME IInv, StampResponse
  PROVE  IInv'
<1> USE DEF semaphores, request, answer
<1>1. server' \in ServerStates /\ server'.pc = "notify" /\ server.pc = "stamp"
      /\ response_message_id' \in 0 .. MaxSends
  <2>1. server \in ServerStates /\ server' = [server EXCEPT !.pc = "notify"]
    BY DEF IInv, TypeOK, StampResponse
  <2>2. server' \in ServerStates /\ server'.pc = "notify"
    BY <2>1, ServerMoves
  <2> QED  BY <2>2 DEF IInv, TypeOK, ServerStates, StampResponse
<1>2. TypeOK'
  BY <1>1 DEF IInv, TypeOK, StampResponse
<1>3. ClientInv'
  BY DEF IInv, ClientInv, StampResponse, Written
<1>4. ServerInv'
  BY <1>1 DEF IInv, ServerInv, StampResponse, Written, Resting
<1>5. MutexTokens'
  BY <1>1 DEF IInv, TypeOK, MutexTokens, Inside, StampResponse
<1>6. NoLostWakeup'
  BY <1>1 DEF IInv, NoLostWakeup, StampResponse
<1> QED  BY <1>2, <1>3, <1>4, <1>5, <1>6 DEF IInv

(* Notify posts a token of response_ready. *)
LEMMA NotifyInvariant ==
  ASSUME IInv, Notify
  PROVE  IInv'
<1> USE DEF semaphores, request, answer
<1>1. server' \in ServerStates /\ server'.pc = "clear" /\ server.pc = "notify"
      /\ response_ready' \in Nat
  <2>1. server \in ServerStates /\ server' = [server EXCEPT !.pc = "clear"]
    BY DEF IInv, TypeOK, Notify
  <2>2. server' \in ServerStates /\ server'.pc = "clear"
    BY <2>1, ServerMoves
  <2>3. server.pc = "notify" /\ response_ready' \in Nat
    BY DEF IInv, TypeOK, Notify
  <2> QED  BY <2>2, <2>3
<1>2. TypeOK'
  BY <1>1 DEF IInv, TypeOK, Notify
<1>3. ClientInv'
  BY DEF IInv, ClientInv, Notify, Written
<1>4. ServerInv'
  BY <1>1 DEF IInv, ServerInv, Notify, Written, Resting
<1>5. MutexTokens'
  BY <1>1 DEF IInv, TypeOK, MutexTokens, Inside, Notify
<1>6. NoLostWakeup'
  BY <1>1 DEF IInv, NoLostWakeup, Notify
<1> QED  BY <1>2, <1>3, <1>4, <1>5, <1>6 DEF IInv

(* ClearFlag empties the slot. *)
LEMMA ClearFlagInvariant ==
  ASSUME IInv, ClearFlag
  PROVE  IInv'
<1> USE DEF semaphores, request, answer
<1>1. server' \in ServerStates /\ server'.pc = "release" /\ has_message' = FALSE
  <2>1. server \in ServerStates /\ server' = [server EXCEPT !.pc = "release"]
    BY DEF IInv, TypeOK, ClearFlag
  <2>2. server' \in ServerStates /\ server'.pc = "release"
    BY <2>1, ServerMoves
  <2> QED  BY <2>2 DEF IInv, TypeOK, ServerStates, ClearFlag
<1>2. TypeOK'
  BY <1>1 DEF IInv, TypeOK, ClearFlag
<1>3. ClientInv'
  BY DEF IInv, ClientInv, ClearFlag, Written
<1>4. ServerInv'
  BY <1>1 DEF IInv, ServerInv, ClearFlag, Written, Resting
<1>5. MutexTokens'
  BY <1>1 DEF IInv, TypeOK, MutexTokens, Inside, ClearFlag
<1>6. NoLostWakeup'
  BY <1>1 DEF IInv, NoLostWakeup, ClearFlag
<1> QED  BY <1>2, <1>3, <1>4, <1>5, <1>6 DEF IInv

(* Release posts the mutex and counts the round. *)
LEMMA ReleaseInvariant ==
  ASSUME IInv, Release
  PROVE  IInv'
<1> USE DEF semaphores, request, answer
<1>1. server' \in ServerStates /\ server'.pc = "sleep" /\ server.pc = "release"
      /\ mutex' = mutex + 1 /\ released' = released + 1
      /\ mutex' \in Nat /\ released' \in Nat
  <2>1. 0 \in 0 .. MaxSends
    BY ChannelAssumption
  <2>2. server' = [pc |-> "sleep", route |-> "", payload |-> None, id |-> 0]
    BY DEF Release
  <2>3. server' \in ServerStates /\ server'.pc = "sleep"
    BY <2>1, <2>2 DEF ServerStates
  <2>4. mutex \in Nat /\ released \in Nat
    BY DEF IInv, TypeOK
  <2>5. server.pc = "release" /\ mutex' = mutex + 1 /\ released' = released + 1
    BY DEF Release
  <2> QED  BY <2>3, <2>4, <2>5
<1>2. TypeOK'
  BY <1>1 DEF IInv, TypeOK, Release
<1>3. ClientInv'
  BY DEF IInv, ClientInv, Release, Written
<1>4. ServerInv'
  BY <1>1 DEF IInv, ServerInv, Release, Written, Resting
<1>5. MutexTokens'
  <2>1. Inside' = Inside
    BY DEF Inside, Release
  <2>2. Cardinality(Inside) \in Nat
    BY InsideIsFinite, FS_CardinalityType
  <2> QED  BY <1>1, <2>1, <2>2 DEF IInv, TypeOK, MutexTokens
<1>6. NoLostWakeup'
  BY <1>1 DEF IInv, NoLostWakeup, Release
<1> QED  BY <1>2, <1>3, <1>4, <1>5, <1>6 DEF IInv

-----------------------------------------------------------------------------
(* A step that changes none of the variables keeps the invariant. *)
LEMMA StutterInvariant ==
  ASSUME IInv, UNCHANGED vars
  PROVE  IInv'
<1> USE DEF vars, semaphores, request, answer
<1>1. TypeOK' /\ ClientInv' /\ ServerInv'
  BY DEF IInv, TypeOK, ClientInv, ServerInv, Written
<1>2. MutexTokens' /\ NoLostWakeup'
  BY DEF IInv, MutexTokens, NoLostWakeup, Inside
<1> QED  BY <1>1, <1>2 DEF IInv

(* Every step keeps the invariant. *)
LEMMA NextInvariant ==
  ASSUME IInv, [Next]_vars
  PROVE  IInv'
<1>1. ASSUME NEW c \in Clients, NEW r \in Routes, Send(c, r)  PROVE IInv'
  BY <1>1, SendInvariant
<1>2. ASSUME NEW c \in Clients, Enter(c)  PROVE IInv'
  BY <1>2, EnterInvariant
<1>3. ASSUME NEW c \in Clients, InsideStep(c)  PROVE IInv'
  BY <1>3, WriteHeadInvariant, WritePayloadInvariant, RaiseFlagInvariant,
     SetCurrentIdInvariant, SignalInvariant, LeaveInvariant DEF InsideStep
<1>4. ASSUME NEW c \in Clients, Await(c)  PROVE IInv'
  BY <1>4, AwaitInvariant
<1>5. ASSUME NEW c \in Clients, AwaitStep(c)  PROVE IInv'
  BY <1>5, TakeAnswerInvariant, CheckIdInvariant, ReadResponseInvariant,
     CleanInvariant DEF AwaitStep
<1>6. ASSUME ServerStep  PROVE IInv'
  BY <1>6, WakeInvariant, LookInvariant, ReadRouteInvariant,
     ReadTornRouteInvariant, ReadIdInvariant, ReadPayloadInvariant, WriteResponseInvariant, StampResponseInvariant,
     NotifyInvariant, ClearFlagInvariant, ReleaseInvariant DEF ServerStep
<1>7. ASSUME UNCHANGED vars  PROVE IInv'
  BY <1>7, StutterInvariant
<1> QED  BY <1>1, <1>2, <1>3, <1>4, <1>5, <1>6, <1>7 DEF Next
-----------------------------------------------------------------------------
(* The channel keeps its inductive invariant: the clients' and the server's
   positions, what each has written and read, the tokens and the flag.       *)
THEOREM Invariance == Spec => []IInv
<1>1. Init => IInv
  BY InitInvariant
<1>2. IInv /\ [Next]_vars => IInv'
  BY NextInvariant
<1> QED  BY <1>1, <1>2, PTL DEF Spec

(* Type correctness: the ids stay within the requests sent, the slot and the
   response buffer hold payloads, and no semaphore goes below zero.          *)
THEOREM TypeCorrect == Spec => []TypeOK
<1>1. IInv => TypeOK
  BY DEF IInv
<1> QED  BY <1>1, Invariance, PTL

(* However many clients there are, the mutex has gained exactly one token for
   each round of the server's loop: exclusive access is lost one level at a
   time and never more than the server's rounds explain.                     *)
THEOREM MutexTokensAreCounted == Spec => []MutexTokens
<1>1. IInv => MutexTokens
  BY DEF IInv
<1> QED  BY <1>1, Invariance, PTL

(* Without mutual exclusion, a message in the slot still always has a wakeup
   on its way to the server: overwriting loses requests, never the wakeup.   *)
THEOREM WakeupsAreNotLost == Spec => []NoLostWakeup
<1>1. IInv => NoLostWakeup
  BY DEF IInv
<1> QED  BY <1>1, Invariance, PTL
=============================================================================
