------------------------------ MODULE TestClient ------------------------------
(***************************************************************************)
(* The test program (src/src/client/client_main.cpp and the test_ methods  *)
(* of client_test.cpp) on the channel of IPCChannel: five requests in a    *)
(* fixed order, none awaited, a sleep(1) behind each, then a loop until    *)
(* Ctrl+C.  When it has closed, other clients may use the same server.     *)
(*                                                                         *)
(* A handled signal ends a sleep at once; a sem_wait is taken up again     *)
(* (signal installs its handler with SA_RESTART).                          *)
(***************************************************************************)
EXTENDS IPCChannel, Sequences

CONSTANTS
  Tester,         \* the client that runs the test program
  MaxInterrupts,  \* bound: how often Ctrl+C is pressed
  MaxLater        \* bound: the requests of one client that comes after it

Tests == << "user/create", "user/get", "user/delete",
            "function/add_ir_graph", "function/get_ir" >>

ASSUME TestAssumption ==
  /\ Tester \in Clients
  /\ MaxInterrupts \in Nat /\ MaxLater \in Nat
  /\ MaxSends >= Len(Tests)
  /\ \A i \in 1 .. Len(Tests) : Tests[i] \in Routes

VARIABLES
  stage,       \* main: the tests, the loop behind them, or closed
  asleep,      \* in a sleep(1)
  running,     \* the flag of client_main.cpp
  interrupts

program  == <<stage, asleep, running, interrupts>>
testVars == <<vars, program>>

TestInit ==
  /\ Init
  /\ stage = "tests" /\ asleep = FALSE /\ running = TRUE /\ interrupts = 0

(* A test: its request, and the sleep once send_message has returned *)
NextTest ==
  /\ stage = "tests" /\ ~asleep
  /\ sent[Tester] < Len(Tests)
  /\ Send(Tester, Tests[sent[Tester] + 1])
  /\ UNCHANGED program

SendStep ==
  /\ Enter(Tester) \/ InsideStep(Tester)
  /\ asleep' = (At(Tester, "leave") /\ At(Tester, "idle")')
  /\ UNCHANGED <<stage, running, interrupts>>

(* A second has passed; the server may have done anything in it, or nothing *)
SleepEnds ==
  /\ asleep
  /\ asleep' = FALSE
  /\ UNCHANGED <<vars, stage, running, interrupts>>

(* The tests are over, whatever the server has made of them *)
TestsEnd ==
  /\ stage = "tests" /\ ~asleep
  /\ At(Tester, "idle") /\ sent[Tester] = Len(Tests)
  /\ stage' = "loop"
  /\ UNCHANGED <<vars, asleep, running, interrupts>>

(* mutant: only a second Ctrl+C is obeyed *)
CloseOnSecond ==
  /\ stage = "loop" /\ ~running /\ interrupts > 1
  /\ stage' = "closed"
  /\ UNCHANGED <<vars, asleep, running, interrupts>>

Close ==
  /\ stage = "loop" /\ ~running
  /\ stage' = "closed"
  /\ UNCHANGED <<vars, asleep, running, interrupts>>

(* signal_handler *)
Interrupt ==
  /\ stage # "closed"
  /\ interrupts < MaxInterrupts
  /\ interrupts' = interrupts + 1
  /\ running' = FALSE /\ asleep' = FALSE
  /\ UNCHANGED <<vars, stage>>

Program == NextTest \/ SendStep \/ SleepEnds \/ TestsEnd \/ Close

Other(c) ==
  /\ stage = "closed"
  /\ \/ sent[c] < MaxLater /\ \E r \in Routes : Send(c, r)
     \/ Enter(c) \/ InsideStep(c) \/ Await(c) \/ AwaitStep(c)
  /\ UNCHANGED program

TestNext ==
  \/ Program \/ Interrupt
  \/ ServerStep /\ UNCHANGED program
  \/ \E c \in Clients \ {Tester} : Other(c)

TestSpec == TestInit /\ [][TestNext]_testVars

(* The test program and the server keep running *)
FairTestSpec ==
  TestSpec /\ WF_testVars(Program) /\ WF_testVars(ServerStep /\ UNCHANGED program)

-----------------------------------------------------------------------------
(* The test program has reported success, and nobody had interrupted it *)
Reported == stage # "tests" /\ interrupts = 0

(* When the test program reports success every one of its requests has been worked
   on: none was written over by the next, or marked as treated unseen.  It fails
   as soon as the server needs more than the second the tests sleep.         *)
AllHandled ==
  Reported => \A i \in 1 .. Len(Tests) : <<Tester, i>> \in handled

(* Ctrl+C closes the test program, whatever it is doing at that moment.      *)
InterruptCloses == ~running ~> stage = "closed"

(* A client that comes after the test program is woken by its own response: the
   request it waits for has been worked on when its wait returns.            *)
WakesForOwn ==
  \A c \in Clients \ {Tester} : At(c, "check") => <<c, sent[c]>> \in handled
=============================================================================
