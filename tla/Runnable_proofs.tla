--------------------------- MODULE Runnable_proofs ---------------------------
(***************************************************************************)
(* What Runnable guarantees for any number of runs.                        *)
(***************************************************************************)
EXTENDS Runnable, TLAPS

\* Every variable keeps its type: run_thread_ only ever stands for a thread
\* that has been started.
THEOREM TypeCorrect == Spec => []TypeOK
<1> USE MaxRunsAssumption DEF MaxRunsAssumption, TypeOK, AppPlace, ThreadPlace
<1>1. Init => TypeOK
  <2> SUFFICES ASSUME Init PROVE TypeOK
    OBVIOUS
  <2>1. thread \in [RunThread -> ThreadPlace]
    BY DEF Init
  <2>2. created \in 0 .. MaxRuns /\ run_thread_ \in 0 .. created
    BY DEF Init
  <2>3. careless \subseteq {"stops_in_callback", "destroys_running"}
    BY DEF Init
  <2> QED
    BY <2>1, <2>2, <2>3 DEF Init
<1>2. TypeOK /\ [Next]_vars => TypeOK'
  <2> SUFFICES ASSUME TypeOK, [Next]_vars PROVE TypeOK'
    OBVIOUS
  <2>1. CASE RunBegins
    BY <2>1 DEF RunBegins
  <2>2. CASE SpawnThread
    BY <2>2 DEF SpawnThread, RunThread
  <2>3. CASE AssignThread
    <3>1. run_thread_' \in 0 .. created'
      BY <2>3 DEF AssignThread
    <3>2. terminated' \in BOOLEAN
      BY <2>3 DEF AssignThread
    <3> QED
      BY <2>3, <3>1, <3>2 DEF AssignThread
  <2>4. CASE StopRunBegins
    BY <2>4 DEF StopRunBegins
  <2>5. CASE TestJoinable
    BY <2>5 DEF TestJoinable
  <2>6. CASE Join
    BY <2>6 DEF Join
  <2>7. CASE DestructorExchanges
    BY <2>7 DEF DestructorExchanges
  <2>8. CASE DestroyThread
    BY <2>8 DEF DestroyThread
  <2>9. CASE \E n \in RunThread : TestRunning(n) \/ PollReturns(n)
    BY <2>9 DEF TestRunning, PollReturns
  <2>10. CASE \E n \in RunThread : CallbackStopRun(n)
    BY <2>10 DEF CallbackStopRun
  <2>11. ASSUME NEW n \in RunThread, CallbackJoins(n) PROVE TypeOK'
    <3>1. thread' \in [RunThread -> ThreadPlace]
      BY <2>11 DEF CallbackJoins
    <3>2. run_thread_' \in 0 .. created'
      BY <2>11 DEF CallbackJoins
    <3>3. terminated' \in BOOLEAN
      BY <2>11 DEF CallbackJoins
    <3> QED
      BY <2>11, <3>1, <3>2, <3>3 DEF CallbackJoins
  <2>12. CASE UNCHANGED vars
    BY <2>12 DEF vars
  <2>13. CASE Dismantle
    BY <2>13 DEF Dismantle
  <2>14. CASE Context
    BY <2>14 DEF Context, ContextIdles, ContextWakes
  <2> QED
    BY <2>1, <2>2, <2>3, <2>4, <2>5, <2>6, <2>7, <2>8, <2>9, <2>10, <2>11, <2>12,
       <2>13, <2>14
       DEF Next, App, Loop
<1> QED
  BY <1>1, <1>2, PTL DEF Spec

-----------------------------------------------------------------------------
\* As long as the program has not been ended every thread that lives can be
\* joined, and for a careful application running_ says whether there is one.
LEMMA ThreadInvHolds == Spec => []ThreadInv
<1>1. Init => ThreadInv
  BY DEF Init, ThreadInv, OnlyCarelessTerminates, Owned, Live, FlagsAgree
<1>2. TypeOK /\ TypeOK' /\ ThreadInv /\ [Next]_vars => ThreadInv'
  <2> SUFFICES ASSUME TypeOK, TypeOK', ThreadInv, [Next]_vars PROVE ThreadInv'
    OBVIOUS
  <2> USE DEF ThreadInv, OnlyCarelessTerminates
  <2>1. CASE UNCHANGED vars
    BY <2>1 DEF vars, Owned, Live, FlagsAgree
  <2>2. ASSUME Next PROVE ~terminated /\ Owned /\ TypeOK /\ TypeOK'
    BY <2>2 DEF Next
  <2>3. CASE Next
    <3> USE <2>2, <2>3
    <3>1. CASE RunBegins
      BY <3>1 DEF RunBegins, Owned, Live, FlagsAgree
    <3>2. CASE SpawnThread
      <4>1. created' = created + 1 /\ created' \in RunThread
        BY <3>2, MaxRunsAssumption DEF SpawnThread, TypeOK, MaxRunsAssumption, RunThread
      <4>2. Owned'
        BY <3>2, <4>1 DEF SpawnThread, Owned, Live, TypeOK
      <4> QED
        BY <3>2, <4>1, <4>2 DEF SpawnThread, FlagsAgree, TypeOK
    <3>3. CASE AssignThread
      <4>1. ASSUME ~terminated' PROVE Owned'
        BY <3>3, <4>1 DEF AssignThread, Owned, Live, RunThread
      <4>2. ASSUME careless = {} PROVE FlagsAgree' /\ ~terminated'
        BY <3>3, <4>2 DEF AssignThread, FlagsAgree, TypeOK
      <4> QED
        BY <3>3, <4>1, <4>2 DEF AssignThread
    <3>4. CASE StopRunBegins
      BY <3>4 DEF StopRunBegins, Owned, Live, FlagsAgree
    <3>5. CASE TestJoinable
      BY <3>5 DEF TestJoinable, Owned, Live, FlagsAgree
    <3>6. CASE Join
      BY <3>6 DEF Join, Owned, Live, FlagsAgree
    <3>12. CASE Dismantle
      BY <3>12 DEF Dismantle, Owned, Live, FlagsAgree
    <3>13. CASE Context
      BY <3>13 DEF Context, ContextIdles, ContextWakes, Owned, Live, FlagsAgree
    <3>7. CASE DestructorExchanges
      BY <3>7 DEF DestructorExchanges, Owned, Live, FlagsAgree
    <3>8. CASE DestroyThread
      BY <3>8 DEF DestroyThread, Owned, Live, FlagsAgree
    <3>9. ASSUME NEW n \in RunThread, TestRunning(n) \/ PollReturns(n)
          PROVE  ThreadInv'
      BY <3>9 DEF TestRunning, PollReturns, Owned, Live, FlagsAgree, TypeOK
    <3>10. ASSUME NEW n \in RunThread, CallbackStopRun(n) PROVE ThreadInv'
      BY <3>10 DEF CallbackStopRun, Owned, Live, TypeOK
    <3>11. ASSUME NEW n \in RunThread, CallbackJoins(n) PROVE ThreadInv'
      <4>1. careless # {} /\ careless' # {}
        BY <3>11 DEF CallbackJoins, FlagsAgree
      <4>2. ASSUME ~terminated' PROVE Owned'
        BY <3>11, <4>2 DEF CallbackJoins, Owned, Live, TypeOK
      <4> QED
        BY <4>1, <4>2
    <3> QED
      BY <3>1, <3>2, <3>3, <3>4, <3>5, <3>6, <3>7, <3>8, <3>9, <3>10, <3>11,
         <3>12, <3>13
         DEF Next, App, Loop
  <2> QED
    BY <2>1, <2>3
<1> QED
  BY <1>1, <1>2, TypeCorrect, PTL DEF Spec

-----------------------------------------------------------------------------
\* An application that destroys what it has stopped, and stops it on its own
\* thread, is never ended by std::terminate.
THEOREM OnlyCarelessTerminatesHolds == Spec => []OnlyCarelessTerminates
BY ThreadInvHolds, PTL DEF ThreadInv

\* The websocket of such an application is polled by one thread at most.
THEOREM OnePollerHolds == Spec => []OnePoller
<1>1. ThreadInv => OnePoller
  BY DEF ThreadInv, OnlyCarelessTerminates, OnePoller, Owned, FlagsAgree, RunThread
<1> QED
  BY <1>1, ThreadInvHolds, PTL

\* ... and by none once StopRun() has returned, until it is run again or, from the
\* first member to the last, destroyed.
THEOREM StoppedMeansQuietHolds == Spec => []StoppedMeansQuiet
<1>1. ASSUME TypeOK, ThreadInv, careless = {}, ~running_,
             app \notin {"spawning", "assigning", "stopping", "joining"}
      PROVE  Quiet
  <2>1. ~terminated /\ run_thread_ = 0
    BY <1>1 DEF ThreadInv, OnlyCarelessTerminates, FlagsAgree
  <2> QED
    BY <1>1, <2>1 DEF ThreadInv, Owned, Quiet, RunThread
<1>2. TypeOK /\ ThreadInv => StoppedMeansQuiet
  BY <1>1 DEF StoppedMeansQuiet
<1> QED
  BY <1>2, TypeCorrect, ThreadInvHolds, PTL
=============================================================================
