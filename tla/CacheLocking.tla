---------------------------- MODULE CacheLocking ----------------------------
(***************************************************************************)
(* The locking of m_cache::SharedCache's public methods                    *)
(* (src/src/m_cache/m_v8_shared_cache.{h,cc}): each first calls            *)
(* EnsureInitialized, which takes and drops mutex_, then reads             *)
(* initialized_ without it, then takes mutex_ for its body.  mutex_ is a   *)
(* std::mutex of the one SharedCache object of a process; the file is      *)
(* shared by every process that maps it.                                   *)
(*                                                                         *)
(* What a body does to the file is SharedCache's; here a body that writes  *)
(* gives the file a new version.  A Get that succeeds hands out a pointer  *)
(* into the mapping, which the caller reads after the method has returned. *)
(***************************************************************************)
EXTENDS Integers, FiniteSets

CONSTANTS
  Processes,
  Threads,
  ProcessOf,  \* the process of each thread
  Methods,    \* the methods threads call
  MaxCalls,   \* bound: how many calls one thread makes
  Nobody      \* the owner of a free mutex

Writing == {"Put", "Remove", "Clear"}
Reading == {"Get", "GetEntryCount", "GetUsedSpace", "GetFreeSpace", "IsValid"}

ASSUME LockingAssumption ==
  /\ ProcessOf \in [Threads -> Processes]
  /\ Methods \subseteq Writing \cup Reading
  /\ MaxCalls \in Nat
  /\ Nobody \notin Threads

VARIABLES
  mutex,        \* who owns mutex_, by process
  initialized,  \* initialized_, by process
  mappings,     \* how often InitMmap has succeeded, by process
  version,      \* how often the file has been written
  thread        \* where each thread is, in which method, whether that call is
                \* made by another method, the version its pointer is for

vars == <<mutex, initialized, mappings, version, thread>>

Init ==
  /\ mutex = [p \in Processes |-> Nobody]
  /\ initialized = [p \in Processes |-> FALSE]
  /\ mappings = [p \in Processes |-> 0]
  /\ version = 0
  /\ thread = [t \in Threads |-> [pc |-> "idle", method |-> "", nested |-> FALSE,
                                  got |-> 0, calls |-> 0]]

At(t, pc)   == thread[t].pc = pc
Goto(t, pc) == thread' = [thread EXCEPT ![t].pc = pc]

Free(t)    == mutex[ProcessOf[t]] = Nobody
Acquire(t) == Free(t) /\ mutex' = [mutex EXCEPT ![ProcessOf[t]] = t]
Release(t) == mutex' = [mutex EXCEPT ![ProcessOf[t]] = Nobody]

Call(t, m) ==
  /\ At(t, "idle")
  /\ thread[t].calls < MaxCalls
  /\ thread' = [thread EXCEPT ![t].pc = "ensure", ![t].method = m, ![t].calls = @ + 1]
  /\ UNCHANGED <<mutex, initialized, mappings, version>>

(* mutant: a return between lock() and unlock() *)
EnsureLocked(t) ==
  /\ At(t, "ensure")
  /\ Acquire(t)
  /\ Goto(t, IF initialized[ProcessOf[t]] THEN "test" ELSE "init")
  /\ UNCHANGED <<initialized, mappings, version>>

(* EnsureInitialized: the lock, and the test under it *)
Ensure(t) ==
  /\ At(t, "ensure")
  /\ Acquire(t)
  /\ Goto(t, IF initialized[ProcessOf[t]] THEN "leave" ELSE "init")
  /\ UNCHANGED <<initialized, mappings, version>>

(* mutant: initialized_ is not set *)
InitMmapForgetting(t) ==
  /\ At(t, "init")
  /\ Goto(t, "leave")
  /\ mappings' = [mappings EXCEPT ![ProcessOf[t]] = @ + 1]
  /\ UNCHANGED <<mutex, initialized, version>>

(* InitMmap maps the file, or fails and leaves the next call to try again *)
InitMmap(t) ==
  LET p == ProcessOf[t]
  IN
  /\ At(t, "init")
  /\ Goto(t, "leave")
  /\ \/ /\ initialized' = [initialized EXCEPT ![p] = TRUE]
        /\ mappings' = [mappings EXCEPT ![p] = @ + 1]
     \/ UNCHANGED <<initialized, mappings>>
  /\ UNCHANGED <<mutex, version>>

LeaveEnsure(t) ==
  /\ At(t, "leave")
  /\ Release(t)
  /\ Goto(t, "test")
  /\ UNCHANGED <<initialized, mappings, version>>

(* mutant: the outcome of EnsureInitialized is not looked at *)
TestNot(t) ==
  /\ At(t, "test")
  /\ Goto(t, "lock")
  /\ UNCHANGED <<mutex, initialized, mappings, version>>

(* if (!initialized_) return, outside the lock *)
Test(t) ==
  /\ At(t, "test")
  /\ Goto(t, IF initialized[ProcessOf[t]] THEN "lock" ELSE "idle")
  /\ UNCHANGED <<mutex, initialized, mappings, version>>

(* mutant: a method that trusts EnsureInitialized's lock *)
LockNot(t) ==
  /\ At(t, "lock")
  /\ Goto(t, "body")
  /\ UNCHANGED <<mutex, initialized, mappings, version>>

Lock(t) ==
  /\ At(t, "lock")
  /\ Acquire(t)
  /\ Goto(t, "body")
  /\ UNCHANGED <<initialized, mappings, version>>

(* GetFreeSpace calls GetUsedSpace while it holds mutex_.  A std::mutex that its
   own thread locks again blocks it, as the default pthread mutex does.      *)
CallUsedSpace(t) ==
  /\ At(t, "body")
  /\ thread[t].method = "GetFreeSpace"
  /\ thread' = [thread EXCEPT ![t].pc = "ensure", ![t].method = "GetUsedSpace",
                              ![t].nested = TRUE]
  /\ UNCHANGED <<mutex, initialized, mappings, version>>

(* mutant: a path out of a method without its lock_guard *)
ReturnLocked(t) ==
  /\ At(t, "body")
  /\ thread[t].method # "GetFreeSpace"
  /\ Goto(t, "idle")
  /\ UNCHANGED <<mutex, initialized, mappings, version>>

(* The end of a body and of its lock.  A Get may have found its key.         *)
Return(t) ==
  /\ At(t, "body")
  /\ thread[t].method # "GetFreeSpace"
  /\ Release(t)
  /\ version' = IF thread[t].method \in Writing THEN version + 1 ELSE version
  /\ \/ Goto(t, "idle")
     \/ /\ thread[t].method = "Get"
        /\ thread' = [thread EXCEPT ![t].pc = "use", ![t].got = version]
  /\ UNCHANGED <<initialized, mappings>>

(* The caller reads the bytes behind the pointer *)
Use(t) ==
  /\ At(t, "use")
  /\ Goto(t, "idle")
  /\ UNCHANGED <<mutex, initialized, mappings, version>>

Step(t) ==
  \/ Ensure(t) \/ InitMmap(t) \/ LeaveEnsure(t) \/ Test(t)
  \/ Lock(t) \/ CallUsedSpace(t) \/ Return(t) \/ Use(t)

Next == \E t \in Threads : (\E m \in Methods : Call(t, m)) \/ Step(t)

Spec == Init /\ [][Next]_vars

(* A thread inside a method runs whenever it can.  As each thread makes a bounded
   number of calls nothing has to be assumed of who gets a contended lock.   *)
FairSpec == Spec /\ \A t \in Threads : WF_vars(Step(t))

-----------------------------------------------------------------------------
ThreadStates ==
  [pc : {"idle", "ensure", "init", "leave", "test", "lock", "body", "use"},
   method : Methods \cup {"", "GetUsedSpace"}, nested : BOOLEAN, got : Nat,
   calls : 0 .. MaxCalls]

TypeOK ==
  /\ mutex \in [Processes -> Threads \cup {Nobody}]
  /\ initialized \in [Processes -> BOOLEAN]
  /\ mappings \in [Processes -> Nat]
  /\ version \in Nat
  /\ thread \in [Threads -> ThreadStates]

(* Between a lock and its end, or in GetFreeSpace at its second lock *)
Inside(t) == thread[t].pc \in {"init", "leave", "body"} \/ thread[t].nested

(* Nobody keeps mutex_: whoever owns it is a thread of that process on its way to the
   release, on every path through EnsureInitialized and the bodies, failures and
   early returns included, or the thread whose GetFreeSpace waits for itself: a
   mutex_ that is never given back is always GetFreeSpace's.                 *)
OwnersAreInside ==
  \A p \in Processes, t \in Threads :
    mutex[p] = t => ProcessOf[t] = p /\ Inside(t)

Working(t) == At(t, "body") \/ At(t, "init")
Writer(t)  == At(t, "init") \/ (At(t, "body") /\ thread[t].method \in Writing)

(* While a thread writes the file - a Put, a Remove, a Clear, or the
   InitializeCache of a first call - no other thread is in a body that reads or
   writes it.                                                                *)
FileExclusive ==
  \A t, u \in Threads : Writer(t) /\ Working(u) => t = u

(* However many threads make the first call at once, and however often InitMmap
   has failed before, a process maps the file once: a second mapping would
   leave the first, and its descriptor, behind.                              *)
MappedOnce == \A p \in Processes : mappings[p] <= 1

(* No body runs before a mapping is there: a method whose EnsureInitialized has
   failed returns, also when it reads initialized_ while another thread tries
   again.                                                                    *)
BodiesAreMapped ==
  \A t \in Threads : At(t, "body") => mappings[ProcessOf[t]] > 0

(* A process has hung: one of its threads waits for the mutex_ it owns.      *)
Hung(p) == \E t \in Threads : ProcessOf[t] = p /\ thread[t].nested

(* A call of a method returns, whatever the other threads call and however often
   InitMmap fails, unless a thread of its process has called GetFreeSpace and
   hung: no other method keeps mutex_, or waits for it while it owns it.     *)
CallsReturn ==
  \A t \in Threads : At(t, "ensure") ~> (At(t, "idle") \/ Hung(ProcessOf[t]))

(* Every call of a method returns.                                           *)
EveryCallReturns == \A t \in Threads : At(t, "ensure") ~> At(t, "idle")

(* The bytes a Get has handed out are still those when the caller reads them.*)
PointerStable == \A t \in Threads : At(t, "use") => thread[t].got = version
=============================================================================
