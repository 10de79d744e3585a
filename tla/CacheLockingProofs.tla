-------------------------- MODULE CacheLockingProofs --------------------------
(***************************************************************************)
(* Proofs about CacheLocking, for any threads, any processes they belong   *)
(* to, any methods and any number of calls, with initializations that fail *)
(* and are tried again.                                                    *)
(***************************************************************************)
EXTENDS CacheLocking, TLAPS

Pcs == {"idle", "ensure", "init", "leave", "test", "lock", "body", "use"}

(* Who is at work under mutex_ owns it, and GetFreeSpace owns it while it waits
   for it a second time                                                      *)
HoldInv ==
  \A t \in Threads :
    /\ thread[t].pc \in {"init", "leave", "body"} \/ thread[t].nested
         => mutex[ProcessOf[t]] = t
    /\ thread[t].nested => thread[t].pc = "ensure"

(* initialized_ tells whether the file is mapped *)
MapInv == \A p \in Processes : mappings[p] = IF initialized[p] THEN 1 ELSE 0

(* What a thread has read of initialized_ is still true when it acts on it *)
ReadyInv ==
  \A t \in Threads :
    /\ At(t, "init") => ~initialized[ProcessOf[t]]
    /\ thread[t].pc \in {"lock", "body"} => initialized[ProcessOf[t]]

IInv == TypeOK /\ HoldInv /\ OwnersAreInside /\ MapInv /\ ReadyInv
-----------------------------------------------------------------------------
LEMMA OwnProcess ==
  ASSUME NEW t \in Threads
  PROVE  ProcessOf[t] \in Processes /\ t # Nobody
BY LockingAssumption

(* A step of t leaves mutex_ with threads that are inside if t itself is, or has
   let it go. *)
LEMMA OwnersStay ==
  ASSUME IInv, NEW t \in Threads,
         \A u \in Threads : u # t => thread'[u] = thread[u],
         \A p \in Processes, u \in Threads :
           mutex'[p] = u => mutex[p] = u \/ (u = t /\ p = ProcessOf[t]),
         \A p \in Processes : mutex'[p] = t => Inside(t)'
  PROVE  OwnersAreInside'
BY DEF IInv, OwnersAreInside, Inside

(* Who is outside owns nothing. *)
LEMMA OutsideOwnsNothing ==
  ASSUME IInv, NEW t \in Threads, thread[t].pc \in {"idle", "test", "lock", "use"}
  PROVE  \A p \in Processes : mutex[p] # t
BY DEF IInv, OwnersAreInside, Inside, HoldInv

(* What Goto does to the control state of one thread. *)
LEMMA GotoMoves ==
  ASSUME TypeOK, NEW t \in Threads, NEW pc \in Pcs, Goto(t, pc)
  PROVE  /\ thread' \in [Threads -> ThreadStates]
         /\ thread'[t].pc = pc
         /\ thread'[t].method = thread[t].method
         /\ thread'[t].nested = thread[t].nested
         /\ \A u \in Threads : u # t => thread'[u] = thread[u]
<1>1. thread \in [Threads -> ThreadStates] /\ thread[t] \in ThreadStates
  BY DEF TypeOK
<1>2. thread'[t] = [thread[t] EXCEPT !.pc = pc]
  BY <1>1 DEF Goto
<1>3. thread'[t] \in ThreadStates
  BY <1>1, <1>2 DEF ThreadStates, Pcs
<1>4. thread' \in [Threads -> ThreadStates]
  BY <1>1, <1>2, <1>3 DEF Goto
<1>5. \A u \in Threads : u # t => thread'[u] = thread[u]
  BY <1>1 DEF Goto
<1> QED  BY <1>1, <1>2, <1>4, <1>5 DEF ThreadStates

(* The first state satisfies the inductive invariant. *)
LEMMA InitInvariant ==
  ASSUME Init
  PROVE  IInv
<1> DEFINE first == [pc |-> "idle", method |-> "", nested |-> FALSE, got |-> 0,
                    calls |-> 0]
<1>1. 0 \in 0 .. MaxCalls
  BY LockingAssumption
<1>2. first \in ThreadStates
  <2>1. "" \in Methods \cup {"", "GetUsedSpace"} /\ FALSE \in BOOLEAN /\ 0 \in Nat
    OBVIOUS
  <2> QED  BY <1>1, <2>1 DEF ThreadStates
<1>3. thread = [t \in Threads |-> first]
  BY DEF Init
<1> HIDE DEF first
<1>4. thread \in [Threads -> ThreadStates]
  BY <1>3, <1>2
<1>5. TypeOK
  BY <1>4 DEF Init, TypeOK
<1> USE DEF first
<1>6. HoldInv /\ ReadyInv /\ OwnersAreInside
  BY OwnProcess DEF Init, HoldInv, ReadyInv, OwnersAreInside, At
<1>7. MapInv
  BY DEF Init, MapInv
<1> QED  BY <1>5, <1>6, <1>7 DEF IInv

(* A call begins: no thread gains or loses the mutex. *)
LEMMA CallInvariant ==
  ASSUME IInv, NEW t \in Threads, NEW m \in Methods, Call(t, m)
  PROVE  IInv'
<1>1. thread \in [Threads -> ThreadStates] /\ thread[t] \in ThreadStates
  BY DEF IInv, TypeOK
<1>2. thread'[t] = [thread[t] EXCEPT !.pc = "ensure", !.method = m, !.calls = @ + 1]
  BY <1>1 DEF Call
<1>3. thread[t].calls + 1 \in 0 .. MaxCalls
  <2>1. thread[t].calls \in 0 .. MaxCalls
    BY <1>1 DEF ThreadStates
  <2>2. thread[t].calls < MaxCalls
    BY DEF Call
  <2> QED  BY <2>1, <2>2, LockingAssumption
<1>4. thread'[t] \in ThreadStates
  BY <1>1, <1>2, <1>3 DEF ThreadStates
<1>5. \A u \in Threads : u # t => thread'[u] = thread[u]
  BY <1>1 DEF Call
<1>6. thread'[t].pc = "ensure" /\ thread'[t].nested = thread[t].nested
  BY <1>1, <1>2 DEF ThreadStates
<1>7. TypeOK'
  BY <1>1, <1>4 DEF IInv, TypeOK, Call
<1>8. HoldInv'
  BY <1>5, <1>6 DEF IInv, HoldInv, Call
<1>9. MapInv' /\ ReadyInv'
  BY <1>5, <1>6 DEF IInv, MapInv, ReadyInv, At, Call
<1>10. OwnersAreInside'
  <2>1. \A p \in Processes : mutex[p] # t
    BY OutsideOwnsNothing DEF Call, At
  <2> QED  BY <1>5, <2>1, OwnersStay DEF Call
<1> QED  BY <1>7, <1>8, <1>9, <1>10 DEF IInv

(* EnsureInitialized takes the mutex and tests initialized_ under it. *)
LEMMA EnsureInvariant ==
  ASSUME IInv, NEW t \in Threads, Ensure(t)
  PROVE  IInv'
<1> DEFINE next == IF initialized[ProcessOf[t]] THEN "leave" ELSE "init"
<1>1. next \in Pcs /\ Goto(t, next)
  BY DEF Ensure, Pcs
<1> HIDE DEF next
<1>2. /\ thread' \in [Threads -> ThreadStates]
      /\ thread'[t].pc = next /\ thread'[t].nested = thread[t].nested
      /\ \A u \in Threads : u # t => thread'[u] = thread[u]
  BY <1>1, GotoMoves DEF IInv
<1>3. ProcessOf[t] \in Processes /\ mutex[ProcessOf[t]] = Nobody
  BY OwnProcess DEF Ensure, Acquire, Free
<1>4. mutex' = [mutex EXCEPT ![ProcessOf[t]] = t]
  BY DEF Ensure, Acquire
<1>5. TypeOK'
  BY <1>2, <1>3, <1>4 DEF IInv, TypeOK, Ensure
<1>6. ~thread[t].nested
  BY <1>3, OwnProcess DEF IInv, HoldInv
<1>7. HoldInv'
  <2> SUFFICES ASSUME NEW u \in Threads
               PROVE  /\ thread'[u].pc \in {"init", "leave", "body"} \/ thread'[u].nested
                           => mutex'[ProcessOf[u]] = u
                      /\ thread'[u].nested => thread'[u].pc = "ensure"
    BY DEF HoldInv
  <2>1. CASE u = t
    BY <2>1, <1>2, <1>3, <1>4, <1>6 DEF IInv, TypeOK
  <2>2. CASE u # t
    <3>1. thread'[u] = thread[u]
      BY <2>2, <1>2
    <3>2. mutex[ProcessOf[u]] = u => mutex'[ProcessOf[u]] = u
      BY <1>3, <1>4, OwnProcess DEF IInv, TypeOK
    <3> QED  BY <3>1, <3>2 DEF IInv, HoldInv
  <2> QED  BY <2>1, <2>2
<1>8. MapInv' /\ ReadyInv'
  BY <1>2 DEF IInv, MapInv, ReadyInv, At, Ensure, next
<1>9. OwnersAreInside'
  <2>1. \A p \in Processes, u \in Threads :
          mutex'[p] = u => mutex[p] = u \/ (u = t /\ p = ProcessOf[t])
    BY <1>4 DEF IInv, TypeOK
  <2>2. Inside(t)'
    BY <1>2 DEF Inside, next
  <2> QED  BY <1>2, <2>1, <2>2, OwnersStay
<1> QED  BY <1>5, <1>7, <1>8, <1>9 DEF IInv

(* InitMmap runs under the mutex: nobody else of the process is inside it. *)
LEMMA InitMmapInvariant ==
  ASSUME IInv, NEW t \in Threads, InitMmap(t)
  PROVE  IInv'
<1> DEFINE p == ProcessOf[t]
<1>1. Goto(t, "leave") /\ "leave" \in Pcs
  BY DEF InitMmap, Pcs
<1>2. /\ thread' \in [Threads -> ThreadStates]
      /\ thread'[t].pc = "leave" /\ thread'[t].nested = thread[t].nested
      /\ \A u \in Threads : u # t => thread'[u] = thread[u]
  BY <1>1, GotoMoves DEF IInv
<1>3. p \in Processes /\ mutex[p] = t /\ ~initialized[p] /\ thread[t].pc = "init"
  BY OwnProcess DEF IInv, HoldInv, ReadyInv, InitMmap, At
<1>4. mappings[p] = 0
  BY <1>3 DEF IInv, MapInv
<1>5. \/ /\ initialized' = [initialized EXCEPT ![p] = TRUE]
         /\ mappings' = [mappings EXCEPT ![p] = 1]
      \/ UNCHANGED <<initialized, mappings>>
  BY <1>3, <1>4 DEF InitMmap, IInv, TypeOK
<1>6. TypeOK'
  <2>3. initialized \in [Processes -> BOOLEAN] /\ mappings \in [Processes -> Nat]
    BY DEF IInv, TypeOK
  <2>4. initialized' \in [Processes -> BOOLEAN]
    <3>1. CASE initialized' = [initialized EXCEPT ![p] = TRUE]
      BY <2>3, <3>1, Zenon
    <3>2. CASE UNCHANGED initialized
      BY <2>3, <3>2
    <3> QED  BY <3>1, <3>2, <1>5
  <2>5. mappings' \in [Processes -> Nat]
    BY <1>5, <2>3
  <2>2. UNCHANGED <<mutex, version>>
    BY DEF InitMmap
  <2> QED  BY <1>2, <2>4, <2>5, <2>2 DEF IInv, TypeOK
<1>7. HoldInv'
  BY <1>2, <1>3 DEF IInv, HoldInv, InitMmap
<1>8. MapInv'
  BY <1>3, <1>5 DEF IInv, MapInv, TypeOK
<1>9. ReadyInv'
  <2> SUFFICES ASSUME NEW u \in Threads, u # t
               PROVE  /\ thread[u].pc = "init" => ~initialized'[ProcessOf[u]]
                      /\ thread[u].pc \in {"lock", "body"}
                           => initialized'[ProcessOf[u]]
    BY <1>2 DEF ReadyInv, At
  <2>1. thread[u].pc = "init" => mutex[ProcessOf[u]] = u /\ ProcessOf[u] # p
    BY <1>3 DEF IInv, HoldInv
  <2> QED  BY <2>1, <1>3, <1>5, OwnProcess DEF IInv, ReadyInv, At, TypeOK
<1>10. OwnersAreInside'
  BY <1>2, OwnersStay DEF InitMmap, Inside
<1> QED  BY <1>6, <1>7, <1>8, <1>9, <1>10 DEF IInv

(* A thread that lets the mutex go was its owner. *)
LEMMA ReleaseKeepsHolders ==
  ASSUME IInv, NEW t \in Threads, mutex[ProcessOf[t]] = t, Release(t),
         ~thread'[t].nested, thread'[t].pc \notin {"init", "leave", "body"},
         \A u \in Threads : u # t => thread'[u] = thread[u]
  PROVE  HoldInv' /\ OwnersAreInside' /\ mutex' \in [Processes -> Threads \cup {Nobody}]
<1>1. mutex' = [mutex EXCEPT ![ProcessOf[t]] = Nobody]
  BY DEF Release
<1>2. mutex' \in [Processes -> Threads \cup {Nobody}]
  BY <1>1 DEF IInv, TypeOK
<1>3. \A u \in Threads : u # t /\ mutex[ProcessOf[u]] = u => mutex'[ProcessOf[u]] = u
  BY <1>1, OwnProcess DEF IInv, TypeOK
<1>4. HoldInv'
  BY <1>3 DEF IInv, HoldInv
<1>5. \A p \in Processes, u \in Threads : mutex'[p] = u => mutex[p] = u /\ u # t
  <2>1. \A p \in Processes : mutex'[p] = IF p = ProcessOf[t] THEN Nobody ELSE mutex[p]
    BY <1>1 DEF IInv, TypeOK
  <2>2. \A p \in Processes : mutex[p] = t => p = ProcessOf[t]
    BY DEF IInv, OwnersAreInside
  <2> QED  BY <2>1, <2>2, OwnProcess
<1>6. OwnersAreInside'
  BY <1>5, OwnersStay
<1> QED  BY <1>2, <1>4, <1>6

LEMMA LeaveEnsureInvariant ==
  ASSUME IInv, NEW t \in Threads, LeaveEnsure(t)
  PROVE  IInv'
<1>1. Goto(t, "test") /\ "test" \in Pcs
  BY DEF LeaveEnsure, Pcs
<1>2. /\ thread' \in [Threads -> ThreadStates]
      /\ thread'[t].pc = "test" /\ thread'[t].nested = thread[t].nested
      /\ \A u \in Threads : u # t => thread'[u] = thread[u]
  BY <1>1, GotoMoves DEF IInv
<1>3. mutex[ProcessOf[t]] = t /\ ~thread[t].nested
  BY DEF IInv, HoldInv, LeaveEnsure, At
<1>4. HoldInv' /\ OwnersAreInside' /\ mutex' \in [Processes -> Threads \cup {Nobody}]
  BY <1>2, <1>3, ReleaseKeepsHolders DEF LeaveEnsure
<1>5. TypeOK'
  BY <1>2, <1>4 DEF IInv, TypeOK, LeaveEnsure
<1>6. MapInv' /\ ReadyInv'
  BY <1>2 DEF IInv, MapInv, ReadyInv, At, LeaveEnsure
<1> QED  BY <1>4, <1>5, <1>6 DEF IInv

(* The test outside the lock: initialized_ only ever becomes true. *)
LEMMA TestInvariant ==
  ASSUME IInv, NEW t \in Threads, Test(t)
  PROVE  IInv'
<1> DEFINE next == IF initialized[ProcessOf[t]] THEN "lock" ELSE "idle"
<1>1. next \in Pcs /\ Goto(t, next)
  BY DEF Test, Pcs
<1> HIDE DEF next
<1>2. /\ thread' \in [Threads -> ThreadStates]
      /\ thread'[t].pc = next /\ thread'[t].nested = thread[t].nested
      /\ \A u \in Threads : u # t => thread'[u] = thread[u]
  BY <1>1, GotoMoves DEF IInv
<1>3. ~thread[t].nested
  BY DEF IInv, HoldInv, Test, At
<1>4. TypeOK'
  BY <1>2 DEF IInv, TypeOK, Test
<1>5. HoldInv'
  BY <1>2, <1>3 DEF IInv, HoldInv, Test, next
<1>6. MapInv' /\ ReadyInv'
  BY <1>2 DEF IInv, MapInv, ReadyInv, At, Test, next
<1>7. OwnersAreInside'
  <2>1. \A p \in Processes : mutex[p] # t
    BY OutsideOwnsNothing DEF Test, At
  <2> QED  BY <1>2, <2>1, OwnersStay DEF Test
<1> QED  BY <1>4, <1>5, <1>6, <1>7 DEF IInv

LEMMA LockInvariant ==
  ASSUME IInv, NEW t \in Threads, Lock(t)
  PROVE  IInv'
<1>1. Goto(t, "body") /\ "body" \in Pcs
  BY DEF Lock, Pcs
<1>2. /\ thread' \in [Threads -> ThreadStates]
      /\ thread'[t].pc = "body" /\ thread'[t].nested = thread[t].nested
      /\ \A u \in Threads : u # t => thread'[u] = thread[u]
  BY <1>1, GotoMoves DEF IInv
<1>3. ProcessOf[t] \in Processes /\ mutex[ProcessOf[t]] = Nobody
  BY OwnProcess DEF Lock, Acquire, Free
<1>4. mutex' = [mutex EXCEPT ![ProcessOf[t]] = t]
  BY DEF Lock, Acquire
<1>5. TypeOK'
  BY <1>2, <1>3, <1>4 DEF IInv, TypeOK, Lock
<1>6. ~thread[t].nested
  BY <1>3, OwnProcess DEF IInv, HoldInv
<1>7. HoldInv'
  <2>1. mutex'[ProcessOf[t]] = t
    BY <1>3, <1>4 DEF IInv, TypeOK
  <2>2. \A u \in Threads : mutex[ProcessOf[u]] = u => mutex'[ProcessOf[u]] = u
    BY <1>3, <1>4, OwnProcess DEF IInv, TypeOK
  <2> QED  BY <2>1, <2>2, <1>2, <1>6 DEF IInv, HoldInv
<1>8. MapInv' /\ ReadyInv'
  BY <1>2 DEF IInv, MapInv, ReadyInv, At, Lock
<1>9. OwnersAreInside'
  <2>1. \A p \in Processes, u \in Threads :
          mutex'[p] = u => mutex[p] = u \/ (u = t /\ p = ProcessOf[t])
    BY <1>4 DEF IInv, TypeOK
  <2>2. Inside(t)'
    BY <1>2 DEF Inside
  <2> QED  BY <1>2, <2>1, <2>2, OwnersStay
<1> QED  BY <1>5, <1>7, <1>8, <1>9 DEF IInv

(* GetFreeSpace goes to wait for the mutex it holds. *)
LEMMA CallUsedSpaceInvariant ==
  ASSUME IInv, NEW t \in Threads, CallUsedSpace(t)
  PROVE  IInv'
<1>1. thread \in [Threads -> ThreadStates] /\ thread[t] \in ThreadStates
  BY DEF IInv, TypeOK
<1>2. thread'[t] = [thread[t] EXCEPT !.pc = "ensure", !.method = "GetUsedSpace",
                                     !.nested = TRUE]
  BY <1>1 DEF CallUsedSpace
<1>3. thread'[t] \in ThreadStates
  BY <1>1, <1>2 DEF ThreadStates
<1>4. \A u \in Threads : u # t => thread'[u] = thread[u]
  BY <1>1 DEF CallUsedSpace
<1>5. thread'[t].pc = "ensure" /\ thread'[t].nested
  BY <1>1, <1>2 DEF ThreadStates
<1>6. mutex[ProcessOf[t]] = t
  BY DEF IInv, HoldInv, CallUsedSpace, At
<1>7. TypeOK'
  BY <1>1, <1>3 DEF IInv, TypeOK, CallUsedSpace
<1>8. HoldInv'
  BY <1>4, <1>5, <1>6 DEF IInv, HoldInv, CallUsedSpace
<1>9. MapInv' /\ ReadyInv'
  BY <1>4, <1>5 DEF IInv, MapInv, ReadyInv, At, CallUsedSpace
<1>10. OwnersAreInside'
  BY <1>4, <1>5, OwnersStay DEF CallUsedSpace, Inside
<1> QED  BY <1>7, <1>8, <1>9, <1>10 DEF IInv

LEMMA ReturnInvariant ==
  ASSUME IInv, NEW t \in Threads, Return(t)
  PROVE  IInv'
<1>1. thread \in [Threads -> ThreadStates] /\ thread[t] \in ThreadStates
  BY DEF IInv, TypeOK
<1>2. mutex[ProcessOf[t]] = t /\ ~thread[t].nested
  BY DEF IInv, HoldInv, Return, At
<1>3. /\ thread' \in [Threads -> ThreadStates]
      /\ thread'[t].pc \in {"idle", "use"} /\ ~thread'[t].nested
      /\ \A u \in Threads : u # t => thread'[u] = thread[u]
  <2>1. CASE Goto(t, "idle")
    <3>1. "idle" \in Pcs
      BY DEF Pcs
    <3> QED  BY <2>1, <3>1, <1>2, GotoMoves DEF IInv
  <2>2. CASE thread' = [thread EXCEPT ![t].pc = "use", ![t].got = version]
    <3>1. thread'[t] = [thread[t] EXCEPT !.pc = "use", !.got = version]
      BY <2>2, <1>1
    <3>2. thread'[t] \in ThreadStates /\ thread'[t].pc = "use"
          /\ thread'[t].nested = thread[t].nested
      BY <3>1, <1>1 DEF ThreadStates, IInv, TypeOK
    <3> QED  BY <2>2, <3>2, <1>1, <1>2
  <2> QED  BY <2>1, <2>2 DEF Return
<1>4. HoldInv' /\ OwnersAreInside' /\ mutex' \in [Processes -> Threads \cup {Nobody}]
  BY <1>2, <1>3, ReleaseKeepsHolders DEF Return
<1>5. version' \in Nat
  BY DEF IInv, TypeOK, Return
<1>6. TypeOK'
  BY <1>3, <1>4, <1>5 DEF IInv, TypeOK, Return
<1>7. MapInv' /\ ReadyInv'
  BY <1>3 DEF IInv, MapInv, ReadyInv, At, Return
<1> QED  BY <1>4, <1>6, <1>7 DEF IInv

LEMMA UseInvariant ==
  ASSUME IInv, NEW t \in Threads, Use(t)
  PROVE  IInv'
<1>1. Goto(t, "idle") /\ "idle" \in Pcs
  BY DEF Use, Pcs
<1>2. /\ thread' \in [Threads -> ThreadStates]
      /\ thread'[t].pc = "idle" /\ thread'[t].nested = thread[t].nested
      /\ \A u \in Threads : u # t => thread'[u] = thread[u]
  BY <1>1, GotoMoves DEF IInv
<1>3. ~thread[t].nested
  BY DEF IInv, HoldInv, Use, At
<1>4. TypeOK'
  BY <1>2 DEF IInv, TypeOK, Use
<1>5. HoldInv' /\ MapInv' /\ ReadyInv'
  BY <1>2, <1>3 DEF IInv, HoldInv, MapInv, ReadyInv, At, Use
<1>6. OwnersAreInside'
  <2>1. \A p \in Processes : mutex[p] # t
    BY OutsideOwnsNothing DEF Use, At
  <2> QED  BY <1>2, <2>1, OwnersStay DEF Use
<1> QED  BY <1>4, <1>5, <1>6 DEF IInv

LEMMA StutterInvariant ==
  ASSUME IInv, UNCHANGED vars
  PROVE  IInv'
BY DEF IInv, TypeOK, HoldInv, OwnersAreInside, Inside, MapInv, ReadyInv, At, vars

LEMMA NextInvariant ==
  ASSUME IInv, [Next]_vars
  PROVE  IInv'
<1>1. ASSUME NEW t \in Threads, NEW m \in Methods, Call(t, m)  PROVE IInv'
  BY <1>1, CallInvariant
<1>2. ASSUME NEW t \in Threads, Step(t)  PROVE IInv'
  BY <1>2, EnsureInvariant, InitMmapInvariant, LeaveEnsureInvariant, TestInvariant,
     LockInvariant, CallUsedSpaceInvariant, ReturnInvariant, UseInvariant DEF Step
<1>3. ASSUME UNCHANGED vars  PROVE IInv'
  BY <1>3, StutterInvariant
<1> QED  BY <1>1, <1>2, <1>3 DEF Next
-----------------------------------------------------------------------------
(* The locking keeps its inductive invariant: owners of mutex_ are where the code
   holds it, initialized_ counts the mappings.                               *)
THEOREM Invariance == Spec => []IInv
<1>1. Init => IInv
  BY InitInvariant
<1>2. IInv /\ [Next]_vars => IInv'
  BY NextInvariant
<1> QED  BY <1>1, <1>2, PTL DEF Spec

(* Type correctness; a mutex is owned by a thread or by nobody.              *)
THEOREM TypeCorrect == Spec => []TypeOK
<1>1. IInv => TypeOK
  BY DEF IInv
<1> QED  BY <1>1, Invariance, PTL

(* No path through a method keeps mutex_: its owner is on its way to the release, or
   hangs in GetFreeSpace.                                                    *)
THEOREM OwnersStayInside == Spec => []OwnersAreInside
<1>1. IInv => OwnersAreInside
  BY DEF IInv
<1> QED  BY <1>1, Invariance, PTL

(* First calls of any number of threads map the file once per process, whatever
   failed before.                                                            *)
THEOREM FileIsMappedOnce == Spec => []MappedOnce
<1>1. IInv => MappedOnce
  BY DEF IInv, MapInv, MappedOnce
<1> QED  BY <1>1, Invariance, PTL

(* The test of initialized_ outside the lock is safe: a body that runs has a
   mapping.                                                                  *)
THEOREM BodiesHaveMappings == Spec => []BodiesAreMapped
<1>1. IInv => BodiesAreMapped
  BY OwnProcess DEF IInv, MapInv, ReadyInv, BodiesAreMapped, At
<1> QED  BY <1>1, Invariance, PTL

(* As long as one process uses the file, whoever writes it is alone with it.  The
   assumption is needed: mutex_ is not shared between processes.             *)
THEOREM OneProcessIsExclusive ==
  ASSUME \A t, u \in Threads : ProcessOf[t] = ProcessOf[u]
  PROVE  Spec => []FileExclusive
<1>1. IInv => FileExclusive
  BY DEF IInv, HoldInv, FileExclusive, Writer, Working, At
<1> QED  BY <1>1, Invariance, PTL
=============================================================================
