--------------------------- MODULE ServerLifecycle ---------------------------
(***************************************************************************)
(* How the shared segment comes and goes: IPCServer's start, run, stop and *)
(* destructor (src/src/server/cache_server.cpp), the signal handler of     *)
(* server_main.cpp, restart_server.sh, and clients that connect at any     *)
(* time, outlive the server or die inside send_message                     *)
(* (src/src/client/client_test.cpp).                                       *)
(*                                                                         *)
(* The name SHARED_MEM_NAME is bound to a segment or to none; a process    *)
(* that has mapped a segment keeps it after the name is gone.  Of a        *)
(* request only its flag, its token and the mutex are kept here: what is   *)
(* inside it, and the response, are IPCChannel's.  A waiter that sem_init  *)
(* or sem_destroy makes the system forget is a waiter that is never let    *)
(* in, which no fairness assumption here excludes.                         *)
(***************************************************************************)
EXTENDS Integers, FiniteSets

CONSTANTS
  Servers,      \* the server processes
  Clients,      \* the client processes
  MaxSegments,  \* bound: segments ever created
  MaxSends,     \* bound: messages of one client process
  MaxSignals    \* bound: SIGINT and SIGTERM delivered to servers

ASSUME LifecycleAssumption ==
  /\ Servers \cap Clients = {}
  /\ MaxSegments \in Nat /\ MaxSends \in Nat /\ MaxSignals \in Nat

VARIABLES
  name,      \* the segment SHARED_MEM_NAME is bound to
  made,      \* how many segments have been created
  segment,   \* the segments: size set, mutex, data_ready, has_message
  server,    \* IPCServer's shared_data and running, the segment being set up,
             \* whether stop has returned since the start, and whether the last
             \* process ended by touching memory it does not map
  client,    \* where each client is, its segment, whether it is alive, and
             \* whether a starting server has wiped out its announcement
  signals    \* how many signals were delivered

vars == <<name, made, segment, server, client, signals>>

NoSegment == 0
Segments  == 1 .. MaxSegments

Fresh   == [sized |-> FALSE, mutex |-> 0, data_ready |-> 0, has_message |-> FALSE]
Down    == [pc |-> "down", fd |-> NoSegment, shared_data |-> NoSegment,
            running |-> FALSE, signalled |-> FALSE, faulted |-> FALSE]
Off     == [pc |-> "off", seg |-> NoSegment, alive |-> TRUE, unheard |-> FALSE,
            sends |-> 0]

Init ==
  /\ name = NoSegment
  /\ made = 0
  /\ segment = [g \in Segments |-> Fresh]
  /\ server = [s \in Servers |-> Down]
  /\ client = [c \in Clients |-> Off]
  /\ signals = 0

ServerAt(s, pc) == server[s].pc = pc
ServerGoto(s, pc) == server' = [server EXCEPT ![s].pc = pc]
ClientGoto(c, pc) == client' = [client EXCEPT ![c].pc = pc]

On(c, g, pcs) == client[c].seg = g /\ client[c].pc \in pcs

(* One field of a segment takes a new value *)
SetField(g, field, value) == segment' = [segment EXCEPT ![g][field] = value]

-----------------------------------------------------------------------------
(* main, up to the loop of run *)

Start(s) ==
  /\ ServerAt(s, "down")
  /\ server' = [server EXCEPT ![s] = [Down EXCEPT !.pc = "open"]]
  /\ UNCHANGED <<name, made, segment, client, signals>>

(* shm_open with O_CREAT and without O_EXCL or O_TRUNC: a segment that is
   already there is taken over as it is                                      *)
OpenSegment(s) ==
  /\ ServerAt(s, "open")
  /\ IF name = NoSegment
       THEN made < MaxSegments /\ made' = made + 1 /\ name' = made'
       ELSE UNCHANGED <<name, made>>
  /\ server' = [server EXCEPT ![s].pc = "size", ![s].fd = name']
  /\ UNCHANGED <<segment, client, signals>>

SizeSegment(s) ==
  /\ ServerAt(s, "size")
  /\ SetField(server[s].fd, "sized", TRUE)
  /\ ServerGoto(s, "mutex")
  /\ UNCHANGED <<name, made, client, signals>>

InitMutex(s) ==
  /\ ServerAt(s, "mutex")
  /\ SetField(server[s].fd, "mutex", 1)
  /\ ServerGoto(s, "data")
  /\ UNCHANGED <<name, made, client, signals>>

InitDataReady(s) ==
  /\ ServerAt(s, "data")
  /\ SetField(server[s].fd, "data_ready", 0)
  /\ ServerGoto(s, "flags")
  /\ client' = [c \in Clients |-> IF On(c, server[s].fd, {"leave"})
                  THEN [client[c] EXCEPT !.unheard = TRUE] ELSE client[c]]
  /\ UNCHANGED <<name, made, signals>>

(* mutant: the flag is left as the last server left it *)
KeepFlags(s) ==
  /\ ServerAt(s, "flags")
  /\ ServerGoto(s, "publish")
  /\ UNCHANGED <<name, made, segment, client, signals>>

InitFlags(s) ==
  /\ ServerAt(s, "flags")
  /\ SetField(server[s].fd, "has_message", FALSE)
  /\ ServerGoto(s, "publish")
  /\ UNCHANGED <<name, made, client, signals>>

(* create_shared_memory fails: run returns, the destructor finds a null
   pointer, and the name stays bound once shm_open has succeeded             *)
InitFails(s) ==
  /\ server[s].pc \in {"open", "size", "mutex", "data", "flags"}
  /\ server' = [server EXCEPT ![s] = Down]
  /\ UNCHANGED <<name, made, segment, client, signals>>

(* initialize: until here the signal handler finds shared_data null *)
Publish(s) ==
  /\ ServerAt(s, "publish")
  /\ server' = [server EXCEPT ![s].pc = "run", ![s].shared_data = server[s].fd]
  /\ UNCHANGED <<name, made, segment, client, signals>>

SetRunning(s) ==
  /\ ServerAt(s, "run")
  /\ server' = [server EXCEPT ![s].pc = "test", ![s].running = TRUE]
  /\ UNCHANGED <<name, made, segment, client, signals>>

-----------------------------------------------------------------------------
(* The loop of run *)

TestRunning(s) ==
  /\ ServerAt(s, "test")
  /\ ServerGoto(s, IF server[s].running THEN "sleep" ELSE "unmap")
  /\ UNCHANGED <<name, made, segment, client, signals>>

Wake(s) ==
  LET g == server[s].shared_data
  IN
  /\ ServerAt(s, "sleep")
  /\ segment[g].data_ready > 0
  /\ SetField(g, "data_ready", segment[g].data_ready - 1)
  /\ ServerGoto(s, "woken")
  /\ UNCHANGED <<name, made, client, signals>>

Look(s) ==
  /\ ServerAt(s, "woken")
  /\ ServerGoto(s, CASE ~server[s].running -> "unmap"
                     [] server[s].running
                        /\ segment[server[s].shared_data].has_message -> "clear"
                     [] OTHER -> "release")
  /\ UNCHANGED <<name, made, segment, client, signals>>

(* dispatch_message, and the message is marked as treated *)
ClearFlag(s) ==
  /\ ServerAt(s, "clear")
  /\ SetField(server[s].shared_data, "has_message", FALSE)
  /\ ServerGoto(s, "release")
  /\ UNCHANGED <<name, made, client, signals>>

(* mutant: the client's own post is taken to be enough *)
ReleaseNot(s) ==
  /\ ServerAt(s, "release")
  /\ ServerGoto(s, "test")
  /\ UNCHANGED <<name, made, segment, client, signals>>

Release(s) ==
  LET g == server[s].shared_data
  IN
  /\ ServerAt(s, "release")
  /\ SetField(g, "mutex", segment[g].mutex + 1)
  /\ ServerGoto(s, "test")
  /\ UNCHANGED <<name, made, client, signals>>

(* ~IPCServer: munmap, then shm_unlink of whatever the name is bound to;
   shared_data keeps its value                                               *)
Unmap(s) ==
  /\ ServerAt(s, "unmap")
  /\ ServerGoto(s, "unlink")
  /\ UNCHANGED <<name, made, segment, client, signals>>

Unlink(s) ==
  /\ ServerAt(s, "unlink")
  /\ name' = NoSegment
  /\ server' = [server EXCEPT ![s] = Down]
  /\ UNCHANGED <<made, segment, client, signals>>

-----------------------------------------------------------------------------
(* signal_handler and stop, at any point of the main thread.  A handler that
   dereferences a null or unmapped shared_data ends the process.             *)
Maps(s) == server[s].shared_data # NoSegment /\ server[s].pc # "unlink"

(* mutant: stop without the post that unblocks the main loop *)
SignalQuietly(s) ==
  /\ ~ServerAt(s, "down")
  /\ signals < MaxSignals
  /\ signals' = signals + 1
  /\ server' = [server EXCEPT ![s].running = FALSE, ![s].signalled = TRUE]
  /\ UNCHANGED <<name, made, segment, client>>

Signal(s) ==
  LET g == server[s].shared_data
  IN
  /\ ~ServerAt(s, "down")
  /\ signals < MaxSignals
  /\ signals' = signals + 1
  /\ IF Maps(s)
       THEN /\ server' = [server EXCEPT ![s].running = FALSE, ![s].signalled = TRUE]
            /\ SetField(g, "data_ready", segment[g].data_ready + 1)
       ELSE /\ server' = [server EXCEPT ![s] = [Down EXCEPT !.faulted = TRUE]]
            /\ UNCHANGED segment
  /\ UNCHANGED <<name, made, client>>

(* SIGKILL: nothing is cleaned up *)
Kill(s) ==
  /\ ~ServerAt(s, "down")
  /\ server' = [server EXCEPT ![s] = Down]
  /\ UNCHANGED <<name, made, segment, client, signals>>

(* restart_server.sh: the name is removed, in use or not, and a server started *)
RestartScript(s) ==
  /\ ServerAt(s, "down")
  /\ name' = NoSegment
  /\ server' = [server EXCEPT ![s] = [Down EXCEPT !.pc = "open"]]
  /\ UNCHANGED <<made, segment, client, signals>>

-----------------------------------------------------------------------------
(* Clients *)

(* A client that has sent its MaxSends messages does nothing more.            *)
Alive(c, pc) == client[c].alive /\ client[c].pc = pc

(* mutant: the result of shm_open is not looked at *)
ConnectUnchecked(c) ==
  /\ Alive(c, "off")
  /\ client[c].sends < MaxSends
  /\ client' = [client EXCEPT ![c].pc = "idle", ![c].seg = name]
  /\ UNCHANGED <<name, made, segment, server, signals>>

(* shm_open fails while the name is not bound: the client does not connect *)
Connect(c) ==
  /\ Alive(c, "off")
  /\ client[c].sends < MaxSends
  /\ name # NoSegment
  /\ client' = [client EXCEPT ![c].pc = "idle", ![c].seg = name]
  /\ UNCHANGED <<name, made, segment, server, signals>>

Disconnect(c) ==
  /\ Alive(c, "idle")
  /\ client[c].sends < MaxSends
  /\ client' = [client EXCEPT ![c].pc = "off", ![c].seg = NoSegment]
  /\ UNCHANGED <<name, made, segment, server, signals>>

(* send_message up to sem_wait; a segment without its size has no page behind
   the mapping                                                               *)
Enter(c) ==
  LET g == client[c].seg
  IN
  /\ Alive(c, "idle")
  /\ client[c].sends < MaxSends
  /\ IF segment[g].sized
       THEN /\ segment[g].mutex > 0
            /\ SetField(g, "mutex", segment[g].mutex - 1)
            /\ client' = [client EXCEPT ![c].pc = "write", ![c].sends = @ + 1]
       ELSE /\ client' = [client EXCEPT ![c].alive = FALSE]
            /\ UNCHANGED segment
  /\ UNCHANGED <<name, made, server, signals>>

Write(c) ==
  /\ Alive(c, "write")
  /\ SetField(client[c].seg, "has_message", TRUE)
  /\ ClientGoto(c, "announce")
  /\ UNCHANGED <<name, made, server, signals>>

Announce(c) ==
  LET g == client[c].seg
  IN
  /\ Alive(c, "announce")
  /\ SetField(g, "data_ready", segment[g].data_ready + 1)
  /\ ClientGoto(c, "leave")
  /\ UNCHANGED <<name, made, server, signals>>

Leave(c) ==
  LET g == client[c].seg
  IN
  /\ Alive(c, "leave")
  /\ SetField(g, "mutex", segment[g].mutex + 1)
  /\ client' = [client EXCEPT ![c].pc = "idle", ![c].unheard = FALSE]
  /\ UNCHANGED <<name, made, server, signals>>

Die(c) ==
  /\ client[c].alive
  /\ client[c].pc \in {"write", "announce", "leave"}
  /\ client' = [client EXCEPT ![c].alive = FALSE]
  /\ UNCHANGED <<name, made, segment, server, signals>>

-----------------------------------------------------------------------------
ServerStep(s) ==
  \/ OpenSegment(s) \/ SizeSegment(s) \/ InitMutex(s) \/ InitDataReady(s)
  \/ InitFlags(s) \/ Publish(s) \/ SetRunning(s)
  \/ TestRunning(s) \/ Wake(s) \/ Look(s) \/ ClearFlag(s) \/ Release(s)
  \/ Unmap(s) \/ Unlink(s)

InsideStep(c) == Write(c) \/ Announce(c) \/ Leave(c)

Next ==
  \/ \E s \in Servers : \/ Start(s) \/ RestartScript(s) \/ InitFails(s)
                        \/ ServerStep(s) \/ Signal(s) \/ Kill(s)
  \/ \E c \in Clients : \/ Connect(c) \/ Disconnect(c)
                        \/ Enter(c) \/ InsideStep(c) \/ Die(c)

Spec == Init /\ [][Next]_vars

(* A server that has been started keeps running, and so does a live client
   inside send_message.  Nobody has to start, connect, send, signal or die.  *)
FairSpec ==
  /\ Spec
  /\ \A s \in Servers : WF_vars(ServerStep(s))
  /\ \A c \in Clients : WF_vars(InsideStep(c))

-----------------------------------------------------------------------------
SegmentStates == [sized : BOOLEAN, mutex : Nat, data_ready : Nat,
                  has_message : BOOLEAN]

ServerPcs == {"down", "open", "size", "mutex", "data", "flags", "publish", "run",
              "test", "sleep", "woken", "clear", "release", "unmap", "unlink"}

ServerStates == [pc : ServerPcs, fd : Segments \cup {NoSegment},
                 shared_data : Segments \cup {NoSegment}, running : BOOLEAN,
                 signalled : BOOLEAN, faulted : BOOLEAN]

ClientRecords == [pc : {"off", "idle", "write", "announce", "leave"},
                  seg : Segments \cup {NoSegment}, alive : BOOLEAN,
                  unheard : BOOLEAN, sends : 0 .. MaxSends]

(* Whoever is connected has a segment *)
ClientStates == {r \in ClientRecords : r.pc # "off" => r.seg # NoSegment}

TypeOK ==
  /\ name \in Segments \cup {NoSegment}
  /\ made \in 0 .. MaxSegments
  /\ segment \in [Segments -> SegmentStates]
  /\ server \in [Servers -> ServerStates]
  /\ client \in [Clients -> ClientStates]
  /\ signals \in 0 .. MaxSignals

InLoop(s)   == server[s].pc \in {"test", "sleep", "woken", "clear", "release"}
Serves(s, g) == InLoop(s) /\ server[s].shared_data = g

(* A server that finds a message in the segment it takes over, or that gets one
   from a client that is half way through send_message during the restart, is
   never left asleep beside it: there is a token, or a client that has yet to
   announce the message (or died before it could).                           *)
WakeupSurvivesRestart ==
  \A s \in Servers, g \in Segments :
    Serves(s, g) /\ segment[g].has_message =>
      \/ segment[g].data_ready > 0
      \/ server[s].pc \in {"woken", "clear"}
      \/ \E c \in Clients : On(c, g, {"announce"})

(* stop, once the loop is running, ends the process, also when the server sleeps
   or is in the middle of a message.                                         *)
StopEnds ==
  \A s \in Servers : (InLoop(s) /\ ~server[s].running) ~> ServerAt(s, "down")

(* The mutex comes back: when it is taken, it is released again by its holder or
   by the server's round for the holder's message, also if the holder dies
   after announcing it.  Only a client that dies earlier, or whose announcement
   a starting server has wiped out, takes the token with it.                 *)
MutexReturns ==
  \A g \in Segments :
    (segment[g].mutex = 0 /\ \E s \in Servers : Serves(s, g)) ~>
      \/ segment[g].mutex > 0
      \/ ~ \E s \in Servers : Serves(s, g)
      \/ \E c \in Clients :
           /\ ~client[c].alive
           /\ On(c, g, {"write", "announce"}) \/ client[c].unheard

(* Once a server has been started a client can connect: with every server either
   in its loop or down, and one in its loop, the name is bound.              *)
Connectable ==
  /\ \A s \in Servers : InLoop(s) \/ ServerAt(s, "down")
  /\ \E s \in Servers : InLoop(s)
  => name # NoSegment

(* Ctrl+C stops the server: a process whose stop has returned ends.          *)
SignalEnds ==
  \A s \in Servers : server[s].signalled ~> ServerAt(s, "down")

(* Ctrl+C never ends the server by a memory fault.                           *)
SignalIsClean == \A s \in Servers : ~server[s].faulted
=============================================================================
