------------------------- MODULE ServerLifecycleProofs -------------------------
(***************************************************************************)
(* Proofs about ServerLifecycle, for any numbers of clients, segments,     *)
(* messages and signals, and for one server at a time.                     *)
(***************************************************************************)
EXTENDS ServerLifecycle, TLAPS

(* No two servers run beside each other; one after the other may, any number
   of times.  With two, the end of one unlinks the segment of the other.     *)
OneServer == \A s, t \in Servers : s = t

Preparing(s) == server[s].pc \in {"size", "mutex", "data", "flags", "publish"}

(* s has emptied segment g and works on it or is about to *)
Tends(s, g) ==
  \/ ServerAt(s, "publish") /\ server[s].fd = g
  \/ ServerAt(s, "run") /\ server[s].shared_data = g
  \/ Serves(s, g)

(* The name is bound to the segment the server prepares or serves *)
BoundInv ==
  \A s \in Servers :
    /\ Preparing(s) => server[s].fd # NoSegment /\ name = server[s].fd
    /\ ServerAt(s, "run") \/ InLoop(s) =>
         server[s].shared_data # NoSegment /\ name = server[s].shared_data

(* A message in a segment that is being tended has a wakeup on its way *)
WakeInv ==
  \A s \in Servers, g \in Segments :
    Tends(s, g) /\ segment[g].has_message =>
      \/ segment[g].data_ready > 0
      \/ server[s].pc \in {"woken", "clear"}
      \/ \E c \in Clients : On(c, g, {"announce"})

(* A server that sleeps although it has been told to stop will be woken *)
StopInv ==
  \A s \in Servers :
    ServerAt(s, "sleep") /\ ~server[s].running =>
      segment[server[s].shared_data].data_ready > 0

IInv == TypeOK /\ BoundInv /\ WakeInv /\ StopInv
-----------------------------------------------------------------------------
(* Lemmas about what a step does to one component of the state *)

(* A server that is put into another state keeps the others as they are. *)
LEMMA ServerBecomes ==
  ASSUME TypeOK, NEW s \in Servers, NEW r \in ServerStates,
         server' = [server EXCEPT ![s] = r]
  PROVE  server' \in [Servers -> ServerStates] /\ server'[s] = r
BY DEF TypeOK

LEMMA ServerMoves ==
  ASSUME TypeOK, NEW s \in Servers, NEW pc \in ServerPcs, ServerGoto(s, pc)
  PROVE  /\ server' \in [Servers -> ServerStates]
         /\ server'[s] = [server[s] EXCEPT !.pc = pc]
         /\ server'[s].pc = pc
         /\ server'[s].fd = server[s].fd
         /\ server'[s].shared_data = server[s].shared_data
         /\ server'[s].running = server[s].running
<1> DEFINE r == [server[s] EXCEPT !.pc = pc]
<1>1. server[s] \in ServerStates
  BY DEF TypeOK
<1>2. r \in ServerStates /\ r.pc = pc /\ r.fd = server[s].fd
      /\ r.shared_data = server[s].shared_data
  BY <1>1 DEF ServerStates
<1>3. r.running = server[s].running
  BY <1>1 DEF ServerStates
<1>4. server' = [server EXCEPT ![s] = r]
  BY DEF ServerGoto
<1> HIDE DEF r
<1>5. server' \in [Servers -> ServerStates] /\ server'[s] = r
  BY <1>2, <1>4, ServerBecomes
<1> QED  BY <1>2, <1>3, <1>5 DEF r

LEMMA ClientMoves ==
  ASSUME TypeOK, NEW c \in Clients, client[c].pc # "off",
         NEW pc \in {"write", "announce", "leave"}, ClientGoto(c, pc)
  PROVE  client' \in [Clients -> ClientStates]
BY DEF TypeOK, ClientStates, ClientRecords, ClientGoto

(* A client inside send_message has a segment. *)
LEMMA ClientsSegment ==
  ASSUME TypeOK, NEW c \in Clients, client[c].pc # "off"
  PROVE  client[c].seg \in Segments
BY DEF TypeOK, ClientStates, ClientRecords

(* The fields of a segment. *)
LEMMA SegmentFields ==
  ASSUME TypeOK, NEW g \in Segments
  PROVE  segment[g].mutex \in Nat /\ segment[g].data_ready \in Nat
BY DEF TypeOK, SegmentStates

LEMMA MutexSet ==
  ASSUME TypeOK, NEW g \in Segments, NEW n \in Nat, SetField(g, "mutex", n)
  PROVE  /\ segment' \in [Segments -> SegmentStates]
         /\ \A h \in Segments : /\ segment'[h].data_ready = segment[h].data_ready
                                /\ segment'[h].has_message = segment[h].has_message
BY DEF TypeOK, SegmentStates, SetField

LEMMA DataReadySet ==
  ASSUME TypeOK, NEW g \in Segments, NEW n \in Nat, SetField(g, "data_ready", n)
  PROVE  /\ segment' \in [Segments -> SegmentStates]
         /\ \A h \in Segments :
              /\ segment'[h].data_ready = IF h = g THEN n ELSE segment[h].data_ready
              /\ segment'[h].has_message = segment[h].has_message
BY DEF TypeOK, SegmentStates, SetField

LEMMA HasMessageSet ==
  ASSUME TypeOK, NEW g \in Segments, NEW b \in BOOLEAN, SetField(g, "has_message", b)
  PROVE  /\ segment' \in [Segments -> SegmentStates]
         /\ \A h \in Segments :
              /\ segment'[h].data_ready = segment[h].data_ready
              /\ segment'[h].has_message = IF h = g THEN b ELSE segment[h].has_message
BY DEF TypeOK, SegmentStates, SetField
(* With one server, a step of its main thread moves it and no other. *)
LEMMA ServerGoes ==
  ASSUME OneServer, IInv, NEW s \in Servers, NEW pc \in ServerPcs, ServerGoto(s, pc)
  PROVE  /\ server' \in [Servers -> ServerStates]
         /\ \A t \in Servers : /\ t = s
                               /\ server'[t].pc = pc
                               /\ server'[t].fd = server[t].fd
                               /\ server'[t].shared_data = server[t].shared_data
                               /\ server'[t].running = server[t].running
<1>1. TypeOK /\ \A t \in Servers : t = s
  BY DEF OneServer, IInv
<1>2. /\ server' \in [Servers -> ServerStates]
      /\ server'[s].pc = pc
      /\ server'[s].fd = server[s].fd
      /\ server'[s].shared_data = server[s].shared_data
      /\ server'[s].running = server[s].running
  BY <1>1, ServerMoves
<1> QED  BY <1>1, <1>2, Zenon

(* The segment a server works on is one that exists. *)
LEMMA ServersSegment ==
  ASSUME IInv, NEW s \in Servers
  PROVE  /\ Preparing(s) => server[s].fd \in Segments
         /\ ServerAt(s, "run") \/ InLoop(s) => server[s].shared_data \in Segments
BY DEF IInv, BoundInv, TypeOK, ServerStates

(* A server that is down or opens the segment has nothing to keep. *)
LEMMA ServerIsDown ==
  ASSUME OneServer, NEW s \in Servers, server'[s].pc \in {"down", "open"}
  PROVE  BoundInv' /\ WakeInv' /\ StopInv'
<1>1. \A t \in Servers : server'[t].pc \in {"down", "open"}
  BY DEF OneServer
<1> QED
  BY <1>1 DEF BoundInv, WakeInv, StopInv, Preparing, Tends, Serves, InLoop, ServerAt

(* What a client may do to the server's segment: add tokens, and a message while it
   has yet to announce it.                                                   *)
LEMMA ClientKeeps ==
  ASSUME IInv, UNCHANGED <<name, server>>,
         \A g \in Segments :
           /\ segment'[g].data_ready \in Nat
           /\ segment'[g].data_ready >= segment[g].data_ready
           /\ segment'[g].has_message => \/ segment[g].has_message
                                         \/ \E c \in Clients : On(c, g, {"announce"})'
           /\ \A c \in Clients : On(c, g, {"announce"}) =>
                On(c, g, {"announce"})' \/ segment'[g].data_ready > 0
  PROVE  BoundInv' /\ WakeInv' /\ StopInv'
<1>1. BoundInv'
  BY DEF IInv, BoundInv, Preparing, InLoop, ServerAt
<1>2. WakeInv'
  <2> SUFFICES ASSUME NEW s \in Servers, NEW g \in Segments,
                      Tends(s, g)', segment'[g].has_message
               PROVE  \/ segment'[g].data_ready > 0
                      \/ server'[s].pc \in {"woken", "clear"}
                      \/ \E c \in Clients : On(c, g, {"announce"})'
    BY DEF WakeInv
  <2>1. Tends(s, g)
    BY DEF Tends, Serves, InLoop, ServerAt
  <2>2. CASE segment[g].has_message
    <3>1. \/ segment[g].data_ready > 0
          \/ server[s].pc \in {"woken", "clear"}
          \/ \E c \in Clients : On(c, g, {"announce"})
      BY <2>1, <2>2 DEF IInv, WakeInv
    <3> QED  BY <3>1, SegmentFields DEF IInv
  <2>3. CASE ~segment[g].has_message
    BY <2>3
  <2> QED  BY <2>2, <2>3
<1>3. StopInv'
  <2>1. \A s \in Servers : ServerAt(s, "sleep") => server[s].shared_data \in Segments
    BY DEF IInv, BoundInv, TypeOK, ServerStates, InLoop, ServerAt
  <2> QED  BY <2>1, SegmentFields DEF IInv, StopInv, ServerAt
<1> QED  BY <1>1, <1>2, <1>3
-----------------------------------------------------------------------------
(* IInv holds initially and is preserved by every action. *)

LEMMA InitInvariant ==
  ASSUME Init
  PROVE  IInv
<1>1. TypeOK
  BY LifecycleAssumption
  DEF Init, TypeOK, Fresh, Down, Off, SegmentStates, ServerStates, ServerPcs,
      ClientStates, ClientRecords
<1>2. \A s \in Servers : server[s].pc = "down"
  BY DEF Init, Down
<1>3. BoundInv /\ WakeInv /\ StopInv
  BY <1>2 DEF BoundInv, WakeInv, StopInv, Preparing, Tends, Serves, InLoop, ServerAt
<1> QED  BY <1>1, <1>3 DEF IInv

(* A server is started, *)
LEMMA StartInvariant ==
  ASSUME OneServer, IInv, NEW s \in Servers, Start(s)
  PROVE  IInv'
<1> DEFINE r == [Down EXCEPT !.pc = "open"]
<1>1. r \in ServerStates /\ r.pc \in {"down", "open"}
  BY DEF Down, ServerStates, ServerPcs, NoSegment
<1>2. server' = [server EXCEPT ![s] = r]
  BY DEF Start
<1> HIDE DEF r
<1>3. server' \in [Servers -> ServerStates] /\ server'[s] = r
  BY <1>1, <1>2, ServerBecomes DEF IInv
<1>4. TypeOK'
  BY <1>3 DEF IInv, Start, TypeOK
<1> QED  BY <1>1, <1>3, <1>4, ServerIsDown DEF IInv

(* by the script also, *)
LEMMA RestartScriptInvariant ==
  ASSUME OneServer, IInv, NEW s \in Servers, RestartScript(s)
  PROVE  IInv'
<1> DEFINE r == [Down EXCEPT !.pc = "open"]
<1>1. r \in ServerStates /\ r.pc \in {"down", "open"}
  BY DEF Down, ServerStates, ServerPcs, NoSegment
<1>2. server' = [server EXCEPT ![s] = r]
  BY DEF RestartScript
<1> HIDE DEF r
<1>3. server' \in [Servers -> ServerStates] /\ server'[s] = r
  BY <1>1, <1>2, ServerBecomes DEF IInv
<1>4. TypeOK'
  BY <1>3 DEF IInv, RestartScript, TypeOK
<1> QED  BY <1>1, <1>3, <1>4, ServerIsDown DEF IInv

(* fails to start, *)
LEMMA InitFailsInvariant ==
  ASSUME OneServer, IInv, NEW s \in Servers, InitFails(s)
  PROVE  IInv'
<1> DEFINE r == Down
<1>1. r \in ServerStates /\ r.pc \in {"down", "open"}
  BY DEF Down, ServerStates, ServerPcs, NoSegment
<1>2. server' = [server EXCEPT ![s] = r]
  BY DEF InitFails
<1> HIDE DEF r
<1>3. server' \in [Servers -> ServerStates] /\ server'[s] = r
  BY <1>1, <1>2, ServerBecomes DEF IInv
<1>4. TypeOK'
  BY <1>3 DEF IInv, InitFails, TypeOK
<1> QED  BY <1>1, <1>3, <1>4, ServerIsDown DEF IInv

(* is killed *)
LEMMA KillInvariant ==
  ASSUME OneServer, IInv, NEW s \in Servers, Kill(s)
  PROVE  IInv'
<1> DEFINE r == Down
<1>1. r \in ServerStates /\ r.pc \in {"down", "open"}
  BY DEF Down, ServerStates, ServerPcs, NoSegment
<1>2. server' = [server EXCEPT ![s] = r]
  BY DEF Kill
<1> HIDE DEF r
<1>3. server' \in [Servers -> ServerStates] /\ server'[s] = r
  BY <1>1, <1>2, ServerBecomes DEF IInv
<1>4. TypeOK'
  BY <1>3 DEF IInv, Kill, TypeOK
<1> QED  BY <1>1, <1>3, <1>4, ServerIsDown DEF IInv

(* or ends. *)
LEMMA UnlinkInvariant ==
  ASSUME OneServer, IInv, NEW s \in Servers, Unlink(s)
  PROVE  IInv'
<1> DEFINE r == Down
<1>1. r \in ServerStates /\ r.pc \in {"down", "open"}
  BY DEF Down, ServerStates, ServerPcs, NoSegment
<1>2. server' = [server EXCEPT ![s] = r]
  BY DEF Unlink
<1> HIDE DEF r
<1>3. server' \in [Servers -> ServerStates] /\ server'[s] = r
  BY <1>1, <1>2, ServerBecomes DEF IInv
<1>4. TypeOK'
  BY <1>3 DEF IInv, Unlink, TypeOK
<1> QED  BY <1>1, <1>3, <1>4, ServerIsDown DEF IInv

(* The segment a server opens is the one the name is bound to afterwards. *)
LEMMA OpenSegmentInvariant ==
  ASSUME OneServer, IInv, NEW s \in Servers, OpenSegment(s)
  PROVE  IInv'
<1>1. name' \in Segments /\ made' \in 0 .. MaxSegments
  BY LifecycleAssumption DEF IInv, OpenSegment, TypeOK, NoSegment, Segments
<1> DEFINE r == [server[s] EXCEPT !.pc = "size", !.fd = name']
<1>2. r \in ServerStates /\ r.pc = "size" /\ r.fd = name'
  BY <1>1 DEF IInv, TypeOK, ServerStates, ServerPcs
<1>3. server' = [server EXCEPT ![s] = r]
  BY DEF OpenSegment
<1> HIDE DEF r
<1>4. server' \in [Servers -> ServerStates] /\ server'[s] = r
  BY <1>2, <1>3, ServerBecomes DEF IInv
<1>5. TypeOK'
  BY <1>1, <1>4 DEF IInv, OpenSegment, TypeOK
<1>6. \A t \in Servers : server'[t].pc = "size" /\ server'[t].fd = name'
  BY <1>2, <1>4 DEF OneServer
<1>7. BoundInv'
  BY <1>1, <1>6, LifecycleAssumption
  DEF BoundInv, InLoop, ServerAt, Segments, NoSegment
<1>8. WakeInv' /\ StopInv'
  BY <1>6 DEF WakeInv, StopInv, Tends, Serves, InLoop, ServerAt
<1> QED  BY <1>5, <1>7, <1>8 DEF IInv

(* The segment gets its size, its mutex, *)
LEMMA SizeSegmentInvariant ==
  ASSUME OneServer, IInv, NEW s \in Servers, SizeSegment(s)
  PROVE  IInv'
<1>1. /\ server' \in [Servers -> ServerStates]
      /\ \A t \in Servers : /\ t = s
                            /\ server'[t].pc = "mutex"
                            /\ server'[t].fd = server[t].fd
                            /\ server'[t].shared_data = server[t].shared_data
                            /\ server'[t].running = server[t].running
  BY ServerGoes DEF SizeSegment, ServerPcs
<1>2. segment' \in [Segments -> SegmentStates]
  BY DEF SizeSegment, SetField, IInv, TypeOK, SegmentStates
<1>3. TypeOK'
  BY <1>1, <1>2 DEF IInv, SizeSegment, TypeOK
<1>4. BoundInv'
  BY <1>1, <1>2 DEF SizeSegment, IInv, BoundInv, Preparing, InLoop, ServerAt
<1>5. WakeInv'
  BY <1>1, <1>2 DEF SizeSegment, IInv, WakeInv, Tends, Serves, InLoop, ServerAt, On
<1>6. StopInv'
  BY <1>1, <1>2 DEF SizeSegment, IInv, StopInv, InLoop, ServerAt
<1> QED  BY <1>3, <1>4, <1>5, <1>6 DEF IInv

(* one token for its mutex, *)
LEMMA InitMutexInvariant ==
  ASSUME OneServer, IInv, NEW s \in Servers, InitMutex(s)
  PROVE  IInv'
<1>1. /\ server' \in [Servers -> ServerStates]
      /\ \A t \in Servers : /\ t = s
                            /\ server'[t].pc = "data"
                            /\ server'[t].fd = server[t].fd
                            /\ server'[t].shared_data = server[t].shared_data
                            /\ server'[t].running = server[t].running
  BY ServerGoes DEF InitMutex, ServerPcs
<1>2. server[s].fd \in Segments
  BY ServersSegment DEF InitMutex, Preparing, ServerAt
<1>3. segment' \in [Segments -> SegmentStates]
  BY <1>2, MutexSet DEF InitMutex, IInv
<1>4. TypeOK'
  BY <1>1, <1>3 DEF IInv, InitMutex, TypeOK
<1>5. BoundInv'
  BY <1>1, <1>3 DEF InitMutex, IInv, BoundInv, Preparing, InLoop, ServerAt
<1>6. WakeInv'
  BY <1>1, <1>3 DEF InitMutex, IInv, WakeInv, Tends, Serves, InLoop, ServerAt, On
<1>7. StopInv'
  BY <1>1, <1>3 DEF InitMutex, IInv, StopInv, InLoop, ServerAt
<1> QED  BY <1>4, <1>5, <1>6, <1>7 DEF IInv

(* none for data_ready, *)
LEMMA InitDataReadyInvariant ==
  ASSUME OneServer, IInv, NEW s \in Servers, InitDataReady(s)
  PROVE  IInv'
<1>1. /\ server' \in [Servers -> ServerStates]
      /\ \A t \in Servers : /\ t = s
                            /\ server'[t].pc = "flags"
                            /\ server'[t].fd = server[t].fd
                            /\ server'[t].shared_data = server[t].shared_data
                            /\ server'[t].running = server[t].running
  BY ServerGoes DEF InitDataReady, ServerPcs
<1>2. server[s].fd \in Segments
  BY ServersSegment DEF InitDataReady, Preparing, ServerAt
<1>3. segment' \in [Segments -> SegmentStates]
  BY <1>2, DataReadySet DEF InitDataReady, IInv
<1>4. client' \in [Clients -> ClientStates]
  <2>1. ASSUME NEW c \in Clients
        PROVE  client[c] \in ClientStates /\ [client[c] EXCEPT !.unheard = TRUE] \in ClientStates
    <3>1. client[c] \in ClientStates
      BY DEF IInv, TypeOK
    <3> QED  BY <3>1 DEF ClientStates, ClientRecords
  <2> QED  BY <2>1 DEF InitDataReady
<1>5. TypeOK'
  BY <1>1, <1>3, <1>4 DEF IInv, InitDataReady, TypeOK
<1>6. BoundInv'
  BY <1>1, <1>3, <1>4 DEF InitDataReady, IInv, BoundInv, Preparing, InLoop, ServerAt
<1>7. WakeInv'
  BY <1>1, <1>3, <1>4 DEF InitDataReady, IInv, WakeInv, Tends, Serves, InLoop, ServerAt, On
<1>8. StopInv'
  BY <1>1, <1>3, <1>4 DEF InitDataReady, IInv, StopInv, InLoop, ServerAt
<1> QED  BY <1>5, <1>6, <1>7, <1>8 DEF IInv

(* and no message: from here on WakeInv speaks of it. *)
LEMMA InitFlagsInvariant ==
  ASSUME OneServer, IInv, NEW s \in Servers, InitFlags(s)
  PROVE  IInv'
<1>1. /\ server' \in [Servers -> ServerStates]
      /\ \A t \in Servers : /\ t = s
                            /\ server'[t].pc = "publish"
                            /\ server'[t].fd = server[t].fd
                            /\ server'[t].shared_data = server[t].shared_data
                            /\ server'[t].running = server[t].running
  BY ServerGoes DEF InitFlags, ServerPcs
<1>2. server[s].fd \in Segments
  BY ServersSegment DEF InitFlags, Preparing, ServerAt
<1>3. /\ segment' \in [Segments -> SegmentStates]
      /\ \A h \in Segments : segment'[h].has_message =>
           segment[h].has_message /\ h # server[s].fd
  BY <1>2, HasMessageSet DEF InitFlags, IInv
<1>4. TypeOK'
  BY <1>1, <1>3 DEF IInv, InitFlags, TypeOK
<1>5. BoundInv'
  BY <1>1, <1>3 DEF InitFlags, IInv, BoundInv, Preparing, InLoop, ServerAt
<1>6. WakeInv'
  BY <1>1, <1>3 DEF InitFlags, IInv, WakeInv, Tends, Serves, InLoop, ServerAt, On
<1>7. StopInv'
  BY <1>1, <1>3 DEF InitFlags, IInv, StopInv, InLoop, ServerAt
<1> QED  BY <1>4, <1>5, <1>6, <1>7 DEF IInv

(* initialize publishes it, *)
LEMMA PublishInvariant ==
  ASSUME OneServer, IInv, NEW s \in Servers, Publish(s)
  PROVE  IInv'
<1>1. server[s].fd \in Segments /\ server[s].pc = "publish"
  BY ServersSegment DEF Publish, Preparing, ServerAt
<1> DEFINE r == [server[s] EXCEPT !.pc = "run", !.shared_data = server[s].fd]
<1>2. r \in ServerStates /\ r.pc = "run" /\ r.shared_data = server[s].fd
  BY <1>1 DEF IInv, TypeOK, ServerStates, ServerPcs
<1>3. server' = [server EXCEPT ![s] = r]
  BY DEF Publish
<1> HIDE DEF r
<1>4. /\ server' \in [Servers -> ServerStates]
      /\ \A t \in Servers : /\ t = s /\ server'[t].pc = "run"
                            /\ server'[t].shared_data = server[t].fd
  BY <1>2, <1>3, ServerBecomes DEF IInv, OneServer
<1>5. TypeOK'
  BY <1>1, <1>4 DEF IInv, Publish, TypeOK
<1>6. BoundInv'
  BY <1>1, <1>4 DEF Publish, IInv, BoundInv, Preparing, InLoop, ServerAt
<1>7. WakeInv'
  BY <1>1, <1>4 DEF Publish, IInv, WakeInv, Tends, Serves, InLoop, ServerAt, On
<1>8. StopInv'
  BY <1>1, <1>4 DEF Publish, IInv, StopInv, InLoop, ServerAt
<1> QED  BY <1>5, <1>6, <1>7, <1>8 DEF IInv

(* and run enters its loop. *)
LEMMA SetRunningInvariant ==
  ASSUME OneServer, IInv, NEW s \in Servers, SetRunning(s)
  PROVE  IInv'
<1> DEFINE r == [server[s] EXCEPT !.pc = "test", !.running = TRUE]
<1>1. server[s] \in ServerStates
  BY DEF IInv, TypeOK
<1>2. r \in ServerStates /\ r.pc = "test" /\ r.shared_data = server[s].shared_data
  <2>1. /\ "test" \in ServerPcs /\ TRUE \in BOOLEAN
    BY DEF ServerPcs
  <2> QED  BY <1>1, <2>1 DEF ServerStates
<1>3. server' = [server EXCEPT ![s] = r]
  BY DEF SetRunning
<1> HIDE DEF r
<1>4. /\ server' \in [Servers -> ServerStates]
      /\ \A t \in Servers : /\ t = s /\ server'[t].pc = "test"
                            /\ server'[t].shared_data = server[t].shared_data
  BY <1>2, <1>3, ServerBecomes DEF IInv, OneServer
<1>5. TypeOK'
  BY <1>4 DEF IInv, SetRunning, TypeOK
<1>6. BoundInv'
  BY <1>4 DEF SetRunning, IInv, BoundInv, Preparing, InLoop, ServerAt
<1>7. WakeInv'
  BY <1>4 DEF SetRunning, IInv, WakeInv, Tends, Serves, InLoop, ServerAt, On
<1>8. StopInv'
  BY <1>4 DEF SetRunning, IInv, StopInv, InLoop, ServerAt
<1> QED  BY <1>5, <1>6, <1>7, <1>8 DEF IInv

(* The loop goes round as long as running holds: *)
LEMMA TestRunningInvariant ==
  ASSUME OneServer, IInv, NEW s \in Servers, TestRunning(s)
  PROVE  IInv'
<1>1. /\ server' \in [Servers -> ServerStates]
      /\ \A t \in Servers : /\ t = s
                            /\ server'[t].pc = IF server[t].running THEN "sleep" ELSE "unmap"
                            /\ server'[t].fd = server[t].fd
                            /\ server'[t].shared_data = server[t].shared_data
                            /\ server'[t].running = server[t].running
  BY ServerGoes DEF TestRunning, ServerPcs
<1>2. TypeOK'
  BY <1>1 DEF IInv, TestRunning, TypeOK
<1>3. BoundInv'
  BY <1>1 DEF TestRunning, IInv, BoundInv, Preparing, InLoop, ServerAt
<1>4. WakeInv'
  BY <1>1 DEF TestRunning, IInv, WakeInv, Tends, Serves, InLoop, ServerAt, On
<1>5. StopInv'
  BY <1>1 DEF TestRunning, IInv, StopInv, InLoop, ServerAt
<1> QED  BY <1>2, <1>3, <1>4, <1>5 DEF IInv

(* a wakeup is taken, *)
LEMMA WakeInvariant ==
  ASSUME OneServer, IInv, NEW s \in Servers, Wake(s)
  PROVE  IInv'
<1>1. /\ server' \in [Servers -> ServerStates]
      /\ \A t \in Servers : /\ t = s
                            /\ server'[t].pc = "woken"
                            /\ server'[t].fd = server[t].fd
                            /\ server'[t].shared_data = server[t].shared_data
                            /\ server'[t].running = server[t].running
  BY ServerGoes DEF Wake, ServerPcs
<1>2. server[s].shared_data \in Segments
  BY ServersSegment DEF Wake, InLoop, ServerAt
<1>3. segment[server[s].shared_data].data_ready - 1 \in Nat
  BY <1>2, SegmentFields DEF Wake, IInv
<1>4. /\ segment' \in [Segments -> SegmentStates]
      /\ \A h \in Segments : h # server[s].shared_data =>
           segment'[h].data_ready = segment[h].data_ready
  BY <1>2, <1>3, DataReadySet DEF Wake, IInv
<1>5. TypeOK'
  BY <1>1, <1>4 DEF IInv, Wake, TypeOK
<1>6. BoundInv'
  BY <1>1, <1>4 DEF Wake, IInv, BoundInv, Preparing, InLoop, ServerAt
<1>7. WakeInv'
  BY <1>1, <1>4 DEF Wake, IInv, WakeInv, Tends, Serves, InLoop, ServerAt, On
<1>8. StopInv'
  BY <1>1, <1>4 DEF Wake, IInv, StopInv, InLoop, ServerAt
<1> QED  BY <1>5, <1>6, <1>7, <1>8 DEF IInv

(* the flag is read, *)
LEMMA LookInvariant ==
  ASSUME OneServer, IInv, NEW s \in Servers, Look(s)
  PROVE  IInv'
<1>1. /\ server' \in [Servers -> ServerStates]
      /\ \A t \in Servers : /\ t = s
                            /\ server'[t].pc = CASE ~server[t].running -> "unmap"
                                 [] server[t].running
                                    /\ segment[server[t].shared_data].has_message -> "clear"
                                 [] OTHER -> "release"
                            /\ server'[t].fd = server[t].fd
                            /\ server'[t].shared_data = server[t].shared_data
                            /\ server'[t].running = server[t].running
  BY ServerGoes DEF Look, ServerPcs
<1>2. TypeOK'
  BY <1>1 DEF IInv, Look, TypeOK
<1>3. BoundInv'
  BY <1>1 DEF Look, IInv, BoundInv, Preparing, InLoop, ServerAt
<1>4. WakeInv'
  BY <1>1 DEF Look, IInv, WakeInv, Tends, Serves, InLoop, ServerAt, On
<1>5. StopInv'
  BY <1>1 DEF Look, IInv, StopInv, InLoop, ServerAt
<1> QED  BY <1>2, <1>3, <1>4, <1>5 DEF IInv

(* and cleared, *)
LEMMA ClearFlagInvariant ==
  ASSUME OneServer, IInv, NEW s \in Servers, ClearFlag(s)
  PROVE  IInv'
<1>1. /\ server' \in [Servers -> ServerStates]
      /\ \A t \in Servers : /\ t = s
                            /\ server'[t].pc = "release"
                            /\ server'[t].fd = server[t].fd
                            /\ server'[t].shared_data = server[t].shared_data
                            /\ server'[t].running = server[t].running
  BY ServerGoes DEF ClearFlag, ServerPcs
<1>2. server[s].shared_data \in Segments
  BY ServersSegment DEF ClearFlag, InLoop, ServerAt
<1>3. /\ segment' \in [Segments -> SegmentStates]
      /\ \A h \in Segments : segment'[h].has_message =>
           segment[h].has_message /\ h # server[s].shared_data
  BY <1>2, HasMessageSet DEF ClearFlag, IInv
<1>4. TypeOK'
  BY <1>1, <1>3 DEF IInv, ClearFlag, TypeOK
<1>5. BoundInv'
  BY <1>1, <1>3 DEF ClearFlag, IInv, BoundInv, Preparing, InLoop, ServerAt
<1>6. WakeInv'
  BY <1>1, <1>3 DEF ClearFlag, IInv, WakeInv, Tends, Serves, InLoop, ServerAt, On
<1>7. StopInv'
  BY <1>1, <1>3 DEF ClearFlag, IInv, StopInv, InLoop, ServerAt
<1> QED  BY <1>4, <1>5, <1>6, <1>7 DEF IInv

(* and the mutex gets its token. *)
LEMMA ReleaseInvariant ==
  ASSUME OneServer, IInv, NEW s \in Servers, Release(s)
  PROVE  IInv'
<1>1. /\ server' \in [Servers -> ServerStates]
      /\ \A t \in Servers : /\ t = s
                            /\ server'[t].pc = "test"
                            /\ server'[t].fd = server[t].fd
                            /\ server'[t].shared_data = server[t].shared_data
                            /\ server'[t].running = server[t].running
  BY ServerGoes DEF Release, ServerPcs
<1>2. server[s].shared_data \in Segments
  BY ServersSegment DEF Release, InLoop, ServerAt
<1>3. /\ segment' \in [Segments -> SegmentStates]
      /\ \A h \in Segments : /\ segment'[h].data_ready = segment[h].data_ready
                             /\ segment'[h].has_message = segment[h].has_message
  BY <1>2, SegmentFields, MutexSet DEF Release, IInv
<1>4. TypeOK'
  BY <1>1, <1>3 DEF IInv, Release, TypeOK
<1>5. BoundInv'
  BY <1>1, <1>3 DEF Release, IInv, BoundInv, Preparing, InLoop, ServerAt
<1>6. WakeInv'
  BY <1>1, <1>3 DEF Release, IInv, WakeInv, Tends, Serves, InLoop, ServerAt, On
<1>7. StopInv'
  BY <1>1, <1>3 DEF Release, IInv, StopInv, InLoop, ServerAt
<1> QED  BY <1>4, <1>5, <1>6, <1>7 DEF IInv

(* The destructor leaves the segment. *)
LEMMA UnmapInvariant ==
  ASSUME OneServer, IInv, NEW s \in Servers, Unmap(s)
  PROVE  IInv'
<1>1. /\ server' \in [Servers -> ServerStates]
      /\ \A t \in Servers : /\ t = s
                            /\ server'[t].pc = "unlink"
                            /\ server'[t].fd = server[t].fd
                            /\ server'[t].shared_data = server[t].shared_data
                            /\ server'[t].running = server[t].running
  BY ServerGoes DEF Unmap, ServerPcs
<1>2. TypeOK'
  BY <1>1 DEF IInv, Unmap, TypeOK
<1>3. BoundInv'
  BY <1>1 DEF Unmap, IInv, BoundInv, Preparing, InLoop, ServerAt
<1>4. WakeInv'
  BY <1>1 DEF Unmap, IInv, WakeInv, Tends, Serves, InLoop, ServerAt, On
<1>5. StopInv'
  BY <1>1 DEF Unmap, IInv, StopInv, InLoop, ServerAt
<1> QED  BY <1>2, <1>3, <1>4, <1>5 DEF IInv

(* A signal posts the wakeup it needs, or ends the process. *)
LEMMA SignalInvariant ==
  ASSUME OneServer, IInv, NEW s \in Servers, Signal(s)
  PROVE  IInv'
<1>1. signals' \in 0 .. MaxSignals
  BY LifecycleAssumption DEF IInv, TypeOK, Signal
<1>2. CASE Maps(s)
  <2> DEFINE g == server[s].shared_data
             r == [server[s] EXCEPT !.running = FALSE, !.signalled = TRUE]
  <2>1. server[s] \in ServerStates
    BY DEF IInv, TypeOK
  <2>2. g \in Segments
    BY <1>2, <2>1 DEF Maps, ServerStates
  <2>3. segment[g].data_ready + 1 \in Nat
    BY <2>2, SegmentFields DEF IInv
  <2>4. /\ segment' \in [Segments -> SegmentStates]
        /\ \A h \in Segments :
             /\ segment'[h].data_ready = IF h = g THEN segment[g].data_ready + 1
                                                  ELSE segment[h].data_ready
             /\ segment'[h].has_message = segment[h].has_message
    BY <1>2, <2>2, <2>3, DataReadySet DEF Signal, IInv
  <2>5. r \in ServerStates /\ r.pc = server[s].pc /\ r.fd = server[s].fd
        /\ r.shared_data = server[s].shared_data
    BY <2>1 DEF ServerStates
  <2>6. server' = [server EXCEPT ![s] = r]
    BY <1>2 DEF Signal
  <2> HIDE DEF r
  <2>7. /\ server' \in [Servers -> ServerStates]
        /\ \A t \in Servers : /\ t = s
                              /\ server'[t].pc = server[t].pc
                              /\ server'[t].fd = server[t].fd
                              /\ server'[t].shared_data = server[t].shared_data
    BY <2>5, <2>6, ServerBecomes DEF IInv, OneServer
  <2>8. TypeOK'
    BY <1>1, <2>4, <2>7 DEF IInv, Signal, TypeOK
  <2>9. BoundInv'
    BY <2>7 DEF Signal, IInv, BoundInv, Preparing, InLoop, ServerAt
  <2>10. \A h \in Segments : segment[h].data_ready > 0 => segment'[h].data_ready > 0
    BY <2>3, <2>4, SegmentFields DEF IInv
  <2>11. WakeInv'
    BY <2>4, <2>7, <2>10 DEF Signal, IInv, WakeInv, Tends, Serves, InLoop, ServerAt, On
  <2>12. StopInv'
    BY <2>2, <2>3, <2>4, <2>7, SegmentFields DEF IInv, StopInv, ServerAt
  <2> QED  BY <2>8, <2>9, <2>11, <2>12 DEF IInv
<1>3. CASE ~Maps(s)
  <2> DEFINE r == [Down EXCEPT !.faulted = TRUE]
  <2>1. r \in ServerStates /\ r.pc = "down"
    BY DEF Down, ServerStates, ServerPcs, NoSegment
  <2>2. server' = [server EXCEPT ![s] = r] /\ UNCHANGED <<name, made, segment, client>>
    BY <1>3 DEF Signal
  <2> HIDE DEF r
  <2>3. server' \in [Servers -> ServerStates] /\ server'[s] = r
    BY <2>1, <2>2, ServerBecomes DEF IInv
  <2>4. TypeOK'
    BY <1>1, <2>2, <2>3 DEF IInv, TypeOK
  <2> QED  BY <2>1, <2>3, <2>4, ServerIsDown DEF IInv
<1> QED  BY <1>2, <1>3

(* A client connects and disconnects, *)
LEMMA ConnectInvariant ==
  ASSUME IInv, NEW c \in Clients, Connect(c)
  PROVE  IInv'
<1>1. client' \in [Clients -> ClientStates]
  <2> DEFINE r == [client[c] EXCEPT !.pc = "idle", !.seg = name]
  <2>1. client[c] \in ClientStates /\ client' = [client EXCEPT ![c] = r]
    BY DEF Connect, IInv, TypeOK
  <2>2. r \in ClientStates
    BY <2>1 DEF Connect, IInv, TypeOK, ClientStates, ClientRecords
  <2> HIDE DEF r
  <2> QED  BY <2>1, <2>2 DEF IInv, TypeOK
<1>2. \A d \in Clients, g \in Segments : On(d, g, {"announce"}) => On(d, g, {"announce"})'
  BY DEF Connect, Alive, On, IInv, TypeOK
<1>3. UNCHANGED <<name, made, segment, server, signals>>
  BY DEF Connect
<1>4. TypeOK'
  BY <1>1, <1>3 DEF IInv, TypeOK
<1>5. BoundInv' /\ WakeInv' /\ StopInv'
  BY <1>2, <1>3, SegmentFields, ClientKeeps DEF IInv
<1> QED  BY <1>4, <1>5 DEF IInv

LEMMA DisconnectInvariant ==
  ASSUME IInv, NEW c \in Clients, Disconnect(c)
  PROVE  IInv'
<1>1. client' \in [Clients -> ClientStates]
  <2> DEFINE r == [client[c] EXCEPT !.pc = "off", !.seg = NoSegment]
  <2>1. client[c] \in ClientStates /\ client' = [client EXCEPT ![c] = r]
    BY DEF Disconnect, IInv, TypeOK
  <2>2. r \in ClientStates
    BY <2>1 DEF ClientStates, ClientRecords
  <2> HIDE DEF r
  <2> QED  BY <2>1, <2>2 DEF IInv, TypeOK
<1>2. \A d \in Clients, g \in Segments : On(d, g, {"announce"}) => On(d, g, {"announce"})'
  BY DEF Disconnect, Alive, On, IInv, TypeOK
<1>3. UNCHANGED <<name, made, segment, server, signals>>
  BY DEF Disconnect
<1>4. TypeOK'
  BY <1>1, <1>3 DEF IInv, TypeOK
<1>5. BoundInv' /\ WakeInv' /\ StopInv'
  BY <1>2, <1>3, SegmentFields, ClientKeeps DEF IInv
<1> QED  BY <1>4, <1>5 DEF IInv

(* enters the mutex or touches a segment without pages, *)
LEMMA EnterInvariant ==
  ASSUME IInv, NEW c \in Clients, Enter(c)
  PROVE  IInv'
<1> DEFINE g == client[c].seg
<1>1. client[c] \in ClientStates
  BY DEF IInv, TypeOK
<1>2. /\ client' \in [Clients -> ClientStates]
      /\ \A d \in Clients, h \in Segments : On(d, h, {"announce"}) => On(d, h, {"announce"})'
  <2>1. CASE segment[g].sized
    <3> DEFINE r == [client[c] EXCEPT !.pc = "write", !.sends = client[c].sends + 1]
    <3>1. client[c].sends + 1 \in 0 .. MaxSends
      BY <1>1, LifecycleAssumption DEF Enter, ClientStates, ClientRecords
    <3>2. r \in ClientStates
      BY <1>1, <3>1 DEF Enter, Alive, ClientStates, ClientRecords
    <3>3. client' = [client EXCEPT ![c] = r] /\ client[c].pc = "idle"
      BY <2>1 DEF Enter, Alive
    <3> HIDE DEF r
    <3> QED  BY <3>2, <3>3 DEF On, IInv, TypeOK
  <2>2. CASE ~segment[g].sized
    <3> DEFINE r == [client[c] EXCEPT !.alive = FALSE]
    <3>1. r \in ClientStates
      BY <1>1 DEF ClientStates, ClientRecords
    <3>2. client' = [client EXCEPT ![c] = r] /\ client[c].pc = "idle"
      BY <2>2 DEF Enter, Alive
    <3> HIDE DEF r
    <3> QED  BY <3>1, <3>2 DEF On, IInv, TypeOK
  <2> QED  BY <2>1, <2>2
<1>3. /\ segment' \in [Segments -> SegmentStates]
      /\ \A h \in Segments : /\ segment'[h].data_ready = segment[h].data_ready
                             /\ segment'[h].has_message = segment[h].has_message
  <2>1. CASE segment[g].sized
    <3>1. g \in Segments
      BY ClientsSegment DEF Enter, Alive, IInv
    <3>2. segment[g].mutex - 1 \in Nat
      BY <2>1, <3>1, SegmentFields DEF Enter, IInv
    <3> QED  BY <2>1, <3>1, <3>2, MutexSet DEF Enter, IInv
  <2>2. CASE ~segment[g].sized
    BY <2>2 DEF Enter, IInv, TypeOK
  <2> QED  BY <2>1, <2>2
<1>4. UNCHANGED <<name, made, server, signals>>
  BY DEF Enter
<1>5. TypeOK'
  BY <1>2, <1>3, <1>4 DEF IInv, TypeOK
<1>6. BoundInv' /\ WakeInv' /\ StopInv'
  BY <1>2, <1>3, <1>4, SegmentFields, ClientKeeps DEF IInv
<1> QED  BY <1>5, <1>6 DEF IInv

(* writes its message and has yet to announce it, *)
LEMMA WriteInvariant ==
  ASSUME IInv, NEW c \in Clients, Write(c)
  PROVE  IInv'
<1>1. /\ client[c].pc = "write" /\ client' = [client EXCEPT ![c].pc = "announce"]
      /\ UNCHANGED <<name, made, server, signals>>
  BY DEF Write, Alive, ClientGoto
<1>2. client' \in [Clients -> ClientStates]
  BY <1>1, ClientMoves DEF Write, IInv
<1>3. /\ \A d \in Clients, g \in Segments : On(d, g, {"announce"}) => On(d, g, {"announce"})'
      /\ \A g \in Segments : g = client[c].seg => On(c, g, {"announce"})'
  BY <1>1 DEF On, IInv, TypeOK, ClientStates
<1>4. /\ segment' \in [Segments -> SegmentStates]
      /\ \A h \in Segments :
           /\ segment'[h].data_ready = segment[h].data_ready
           /\ h # client[c].seg => segment'[h].has_message = segment[h].has_message
  BY <1>1, ClientsSegment, HasMessageSet DEF Write, IInv
<1>5. TypeOK'
  BY <1>1, <1>2, <1>4 DEF IInv, TypeOK
<1>6. BoundInv' /\ WakeInv' /\ StopInv'
  BY <1>1, <1>3, <1>4, SegmentFields, ClientKeeps DEF IInv
<1> QED  BY <1>5, <1>6 DEF IInv

(* announces it, *)
LEMMA AnnounceInvariant ==
  ASSUME IInv, NEW c \in Clients, Announce(c)
  PROVE  IInv'
<1>1. /\ client[c].pc = "announce" /\ client' = [client EXCEPT ![c].pc = "leave"]
      /\ UNCHANGED <<name, made, server, signals>>
  BY DEF Announce, Alive, ClientGoto
<1>2. client' \in [Clients -> ClientStates]
  BY <1>1, ClientMoves DEF Announce, IInv
<1>3. \A d \in Clients, g \in Segments :
        On(d, g, {"announce"}) => On(d, g, {"announce"})' \/ g = client[c].seg
  BY <1>1 DEF On, IInv, TypeOK
<1>4. /\ segment' \in [Segments -> SegmentStates]
      /\ \A h \in Segments :
           /\ segment'[h].data_ready = IF h = client[c].seg THEN segment[h].data_ready + 1
                                                            ELSE segment[h].data_ready
           /\ segment'[h].has_message = segment[h].has_message
  <2>1. client[c].seg \in Segments
    BY <1>1, ClientsSegment DEF IInv
  <2>2. segment[client[c].seg].data_ready + 1 \in Nat
    BY <2>1, SegmentFields DEF IInv
  <2> QED  BY <2>1, <2>2, DataReadySet DEF Announce, IInv
<1>5. TypeOK'
  BY <1>1, <1>2, <1>4 DEF IInv, TypeOK
<1>6. BoundInv' /\ WakeInv' /\ StopInv'
  <2>1. \A h \in Segments : segment[h].data_ready \in Nat
    BY SegmentFields DEF IInv
  <2>2. \A h \in Segments : /\ segment'[h].data_ready \in Nat
                            /\ segment'[h].data_ready >= segment[h].data_ready
                            /\ h = client[c].seg => segment'[h].data_ready > 0
    BY <1>4, <2>1
  <2> QED  BY <1>1, <1>3, <1>4, <2>2, ClientKeeps
<1> QED  BY <1>5, <1>6 DEF IInv

(* leaves the mutex, *)
LEMMA LeaveInvariant ==
  ASSUME IInv, NEW c \in Clients, Leave(c)
  PROVE  IInv'
<1>1. client' \in [Clients -> ClientStates]
  <2> DEFINE r == [client[c] EXCEPT !.pc = "idle", !.unheard = FALSE]
  <2>1. client[c] \in ClientStates /\ client[c].pc = "leave"
    BY DEF Leave, Alive, IInv, TypeOK
  <2>2. r \in ClientStates
    BY <2>1 DEF ClientStates, ClientRecords
  <2>3. client' = [client EXCEPT ![c] = r]
    BY DEF Leave
  <2> HIDE DEF r
  <2> QED  BY <2>2, <2>3 DEF IInv, TypeOK
<1>2. \A d \in Clients, g \in Segments : On(d, g, {"announce"}) => On(d, g, {"announce"})'
  BY DEF Leave, Alive, On, IInv, TypeOK
<1>3. /\ segment' \in [Segments -> SegmentStates]
      /\ \A h \in Segments : /\ segment'[h].data_ready = segment[h].data_ready
                             /\ segment'[h].has_message = segment[h].has_message
  <2>1. client[c].seg \in Segments
    BY ClientsSegment DEF Leave, Alive, IInv
  <2>2. segment[client[c].seg].mutex + 1 \in Nat
    BY <2>1, SegmentFields DEF IInv
  <2> QED  BY <2>1, <2>2, MutexSet DEF Leave, IInv
<1>4. UNCHANGED <<name, made, server, signals>>
  BY DEF Leave
<1>5. TypeOK'
  BY <1>1, <1>3, <1>4 DEF IInv, TypeOK
<1>6. BoundInv' /\ WakeInv' /\ StopInv'
  BY <1>2, <1>3, <1>4, SegmentFields, ClientKeeps DEF IInv
<1> QED  BY <1>5, <1>6 DEF IInv

(* or dies: a dead client's announcement is still missing. *)
LEMMA DieInvariant ==
  ASSUME IInv, NEW c \in Clients, Die(c)
  PROVE  IInv'
<1>1. client' \in [Clients -> ClientStates]
  <2> DEFINE r == [client[c] EXCEPT !.alive = FALSE]
  <2>1. client[c] \in ClientStates /\ client' = [client EXCEPT ![c] = r]
    BY DEF Die, IInv, TypeOK
  <2>2. r \in ClientStates
    BY <2>1 DEF ClientStates, ClientRecords
  <2> HIDE DEF r
  <2> QED  BY <2>1, <2>2 DEF IInv, TypeOK
<1>2. \A d \in Clients, g \in Segments : On(d, g, {"announce"}) => On(d, g, {"announce"})'
  BY DEF Die, On, IInv, TypeOK
<1>3. UNCHANGED <<name, made, segment, server, signals>>
  BY DEF Die
<1>4. TypeOK'
  BY <1>1, <1>3 DEF IInv, TypeOK
<1>5. BoundInv' /\ WakeInv' /\ StopInv'
  BY <1>2, <1>3, SegmentFields, ClientKeeps DEF IInv
<1> QED  BY <1>4, <1>5 DEF IInv

LEMMA StutterInvariant ==
  ASSUME IInv, UNCHANGED vars
  PROVE  IInv'
<1> USE DEF vars
<1>1. TypeOK' /\ BoundInv'
  BY DEF IInv, TypeOK, BoundInv, Preparing, InLoop, ServerAt
<1>2. WakeInv' /\ StopInv'
  BY DEF IInv, WakeInv, StopInv, Tends, Serves, InLoop, ServerAt, On
<1> QED  BY <1>1, <1>2 DEF IInv

(* Every step of the servers and the clients preserves the invariant. *)
LEMMA NextInvariant ==
  ASSUME OneServer, IInv, [Next]_vars
  PROVE  IInv'
<1>1. ASSUME NEW s \in Servers, Start(s) \/ RestartScript(s) \/ InitFails(s) \/ Kill(s)
      PROVE  IInv'
  BY <1>1, StartInvariant, RestartScriptInvariant, InitFailsInvariant, KillInvariant
<1>2. ASSUME NEW s \in Servers, Signal(s)
      PROVE  IInv'
  BY <1>2, SignalInvariant
<1>3. ASSUME NEW s \in Servers, ServerStep(s)
      PROVE  IInv'
  BY <1>3, OpenSegmentInvariant, SizeSegmentInvariant, InitMutexInvariant,
     InitDataReadyInvariant, InitFlagsInvariant, PublishInvariant, SetRunningInvariant,
     TestRunningInvariant, WakeInvariant, LookInvariant, ClearFlagInvariant,
     ReleaseInvariant, UnmapInvariant, UnlinkInvariant DEF ServerStep
<1>4. ASSUME NEW c \in Clients, Connect(c) \/ Disconnect(c) \/ Enter(c) \/ Die(c)
      PROVE  IInv'
  BY <1>4, ConnectInvariant, DisconnectInvariant, EnterInvariant, DieInvariant
<1>5. ASSUME NEW c \in Clients, InsideStep(c)
      PROVE  IInv'
  BY <1>5, WriteInvariant, AnnounceInvariant, LeaveInvariant DEF InsideStep
<1> QED  BY <1>1, <1>2, <1>3, <1>4, <1>5, StutterInvariant DEF Next
-----------------------------------------------------------------------------
(* The theorems *)

(* IInv is an invariant of the segment's life. *)
THEOREM Invariance ==
  ASSUME OneServer
  PROVE  Spec => []IInv
<1>1. Init => IInv
  BY InitInvariant
<1>2. IInv /\ [Next]_vars => IInv'
  BY NextInvariant
<1> QED  BY <1>1, <1>2, PTL DEF Spec

(* The variables keep their types: no semaphore goes below zero, whoever is connected
   has mapped a segment, no segment is created beyond the bound. *)
THEOREM TypeCorrect ==
  ASSUME OneServer
  PROVE  Spec => []TypeOK
<1>1. IInv => TypeOK
  BY DEF IInv
<1> QED  BY <1>1, Invariance, PTL

(* No server goes to sleep on a message it could see, also on one that was there
   before it started, or whose sender was half way when the server before died. *)
THEOREM WakeupsSurvive ==
  ASSUME OneServer
  PROVE  Spec => []WakeupSurvivesRestart
<1>1. IInv => WakeupSurvivesRestart
  BY DEF IInv, WakeInv, WakeupSurvivesRestart, Tends
<1> QED  BY <1>1, Invariance, PTL

(* The safety half of StopEnds: a server that sleeps after it has been told to stop
   has a wakeup waiting for it, because stop posts after it has set the flag and
   the server takes the post only on its way to the test of the flag. *)
THEOREM StopReachesSleeper ==
  ASSUME OneServer
  PROVE  Spec => []StopInv
<1>1. IInv => StopInv
  BY DEF IInv
<1> QED  BY <1>1, Invariance, PTL
===============================================================================
