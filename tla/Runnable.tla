------------------------------- MODULE Runnable -------------------------------
(***************************************************************************)
(* Runnable (src/utils/runnable.h): the thread that Run() starts and       *)
(* StopRun() joins, of the one Runnable that uses it, the websocket (the   *)
(* client and the transport hand Run and StopRun down to it).              *)
(*                                                                         *)
(* One thread of the application starts, stops and destroys the client.    *)
(* The run thread calls Poll() in a loop, and from within Poll() the       *)
(* observers, which may call StopRun() themselves.  A step is one atomic   *)
(* operation on running_ or run_thread_.                                   *)
(***************************************************************************)
EXTENDS Naturals

CONSTANT MaxRuns   \* bound: run threads ever started

ASSUME MaxRunsAssumption == MaxRuns \in Nat

VARIABLES
  running_,
  run_thread_,   \* the thread it stands for, 0 when it is not joinable
  app,           \* where the application's thread is
  thread,        \* where each run thread is
  created,       \* run threads started so far
  waking,        \* lws_service has a socket or a timer that lets it return
  terminated,    \* std::terminate has been called
  careless       \* what the application has done against its own interest

vars == <<running_, run_thread_, app, thread, created, waking, terminated, careless>>

RunThread == 1 .. MaxRuns

\* "spawning" and "assigning" are within Run(), "stopping" and "joining" within
\* StopRun().  When the websocket is "dismantled" its own members are destroyed
\* and its base Runnable is not; "destroying" is within ~Runnable.
AppPlace == {"idle", "spawning", "assigning", "stopping", "joining",
             "dismantled", "destroying", "destroyed"}

\* "testing" is the condition of the loop, "polling" and, within a callback
\* that called StopRun(), "stopping" its body.
ThreadPlace == {"none", "testing", "polling", "stopping", "ended"}

TypeOK ==
  /\ running_ \in BOOLEAN
  /\ run_thread_ \in 0 .. created
  /\ app \in AppPlace
  /\ thread \in [RunThread -> ThreadPlace]
  /\ created \in 0 .. MaxRuns
  /\ app = "spawning" => created < MaxRuns
  /\ app = "assigning" => created # 0
  /\ waking \in BOOLEAN
  /\ terminated \in BOOLEAN
  /\ careless \subseteq {"stops_in_callback", "destroys_running"}

Init ==
  /\ running_ = FALSE
  /\ run_thread_ = 0
  /\ app = "idle"
  /\ thread = [n \in RunThread |-> "none"]
  /\ created = 0
  /\ waking = TRUE
  /\ terminated = FALSE
  /\ careless = {}

-----------------------------------------------------------------------------
(* Run(), on the application's thread.  It does nothing while running_ is set. *)

\* Mutant: run_thread_ is assigned before there is a thread.
RunAssignsFirst ==
  /\ app = "idle" /\ created < MaxRuns
  /\ ~running_
  /\ running_' = TRUE
  /\ run_thread_' = created + 1
  /\ app' = "spawning"
  /\ UNCHANGED <<thread, created, waking, terminated, careless>>

RunBegins ==
  /\ app = "idle" /\ created < MaxRuns
  /\ ~running_
  /\ running_' = TRUE
  /\ app' = "spawning"
  /\ UNCHANGED <<run_thread_, thread, created, waking, terminated, careless>>

\* The temporary std::thread: its thread is on its way at once.
SpawnThread ==
  /\ app = "spawning"
  /\ created' = created + 1
  /\ thread' = [thread EXCEPT ![created + 1] = "testing"]
  /\ app' = "assigning"
  /\ UNCHANGED <<running_, run_thread_, waking, terminated, careless>>

\* Its move into run_thread_, which must not be joinable.
AssignThread ==
  /\ app = "assigning"
  /\ IF run_thread_ = 0
     THEN run_thread_' = created /\ UNCHANGED terminated
     ELSE terminated' = TRUE /\ UNCHANGED run_thread_
  /\ app' = "idle"
  /\ UNCHANGED <<running_, thread, created, waking, careless>>

-----------------------------------------------------------------------------
(* StopRun(), on the application's thread.  It does nothing while running_ is *)
(* not set.                                                                  *)

\* Mutant: the flag is left to the loop to see.
StopRunBeginsLate ==
  /\ app = "idle" /\ running_
  /\ app' = "stopping"
  /\ UNCHANGED <<running_, run_thread_, thread, created, waking, terminated, careless>>

StopRunBegins ==
  /\ app = "idle" /\ running_
  /\ running_' = FALSE
  /\ app' = "stopping"
  /\ UNCHANGED <<run_thread_, thread, created, waking, terminated, careless>>

\* Mutant: StopRun() does not wait for the thread.
TestNotJoinable ==
  /\ app = "stopping"
  /\ app' = IF run_thread_ = 0 THEN "joining" ELSE "idle"
  /\ UNCHANGED <<running_, run_thread_, thread, created, waking, terminated, careless>>

TestJoinable ==
  /\ app = "stopping"
  /\ app' = IF run_thread_ = 0 THEN "idle" ELSE "joining"
  /\ UNCHANGED <<running_, run_thread_, thread, created, waking, terminated, careless>>

\* Mutant: the thread is detached, not joined.
JoinDetaches ==
  /\ app = "joining"
  /\ run_thread_' = 0
  /\ app' = "idle"
  /\ UNCHANGED <<running_, thread, created, waking, terminated, careless>>

\* join() returns when the thread has ended.
Join ==
  /\ app = "joining" /\ thread[run_thread_] = "ended"
  /\ run_thread_' = 0
  /\ app' = "idle"
  /\ UNCHANGED <<running_, thread, created, waking, terminated, careless>>

-----------------------------------------------------------------------------
(* The destructors.  ~DefaultSignalingClient closes the transport, whose own  *)
(* destructor then calls StopRun() only if the close has not been reported:   *)
(* in that case it is as if the application had called StopRun().  Then the   *)
(* websocket is destroyed, and ~Runnable comes last.                          *)

\* The members of LibwebsocketsWebsocket, whose Poll() the loop calls.
Dismantle ==
  /\ app = "idle"
  /\ app' = "dismantled"
  /\ careless' = careless \union (IF running_ THEN {"destroys_running"} ELSE {})
  /\ UNCHANGED <<running_, run_thread_, thread, created, waking, terminated>>

\* The exchange clears running_, and the StopRun() that follows finds it clear.
DestructorExchanges ==
  /\ app = "dismantled"
  /\ running_' = FALSE
  /\ app' = "destroying"
  /\ UNCHANGED <<run_thread_, thread, created, waking, terminated, careless>>

\* ~std::thread
DestroyThread ==
  /\ app = "destroying"
  /\ terminated' = (run_thread_ # 0)
  /\ app' = "destroyed"
  /\ UNCHANGED <<running_, run_thread_, thread, created, waking, careless>>

-----------------------------------------------------------------------------
(* The run thread. *)

\* while (running_)
TestRunning(n) ==
  /\ thread[n] = "testing"
  /\ thread' = [thread EXCEPT ![n] = IF running_ THEN "polling" ELSE "ended"]
  /\ UNCHANGED <<running_, run_thread_, app, created, waking, terminated, careless>>

PollReturns(n) ==
  /\ thread[n] = "polling"
  /\ thread' = [thread EXCEPT ![n] = "testing"]
  /\ UNCHANGED <<running_, run_thread_, app, created, waking, terminated, careless>>

\* An observer calls StopRun() from within Poll().
CallbackStopRun(n) ==
  /\ thread[n] = "polling" /\ running_
  /\ running_' = FALSE
  /\ thread' = [thread EXCEPT ![n] = "stopping"]
  /\ careless' = careless \union {"stops_in_callback"}
  /\ UNCHANGED <<run_thread_, app, created, waking, terminated>>

\* join() on the calling thread throws, and nothing catches it.  Run() may not
\* have assigned run_thread_ yet: then there is nothing to join, or the thread
\* before.
CallbackJoins(n) ==
  /\ thread[n] = "stopping"
  /\ thread' = [thread EXCEPT ![n] = "polling"]
  /\ \/ /\ run_thread_ \in {0, n}
        /\ terminated' = (run_thread_ = n)
        /\ UNCHANGED run_thread_
     \/ /\ run_thread_ \notin {0, n} /\ thread[run_thread_] = "ended"
        /\ run_thread_' = 0
        /\ UNCHANGED terminated
  /\ UNCHANGED <<running_, app, created, waking, careless>>

-----------------------------------------------------------------------------
(* lws_service(context_, 0) of libwebsockets 4.3 (external) waits until a     *)
(* socket or a timer of the context has something to do.  An open socket has  *)
(* the timer of its pings, a connection that failed that of its retry; a      *)
(* context whose connection has ended has nothing, until the next Start().    *)

ContextIdles ==
  /\ waking
  /\ waking' = FALSE
  /\ UNCHANGED <<running_, run_thread_, app, thread, created, terminated, careless>>

ContextWakes ==
  /\ ~waking
  /\ waking' = TRUE
  /\ UNCHANGED <<running_, run_thread_, app, thread, created, terminated, careless>>

-----------------------------------------------------------------------------
App == RunBegins \/ SpawnThread \/ AssignThread
         \/ StopRunBegins \/ TestJoinable \/ Join
         \/ Dismantle \/ DestructorExchanges \/ DestroyThread

Context == ContextIdles \/ ContextWakes

Loop(n) == TestRunning(n) \/ PollReturns(n) \/ CallbackStopRun(n) \/ CallbackJoins(n)

\* Nothing runs any more after std::terminate.
Next == ~terminated /\ (App \/ Context \/ \E n \in RunThread : Loop(n))

Spec == Init /\ [][Next]_vars

(* The threads are scheduled, and Poll() returns as long as the context has    *)
(* something that wakes it.  The application need not call anything, but what *)
(* it calls goes on.                                                          *)
Fairness ==
  /\ WF_vars(~terminated /\ (SpawnThread \/ AssignThread \/ TestJoinable \/ Join
                               \/ DestructorExchanges \/ DestroyThread))
  /\ \A n \in RunThread :
       /\ WF_vars(~terminated /\ (TestRunning(n) \/ CallbackJoins(n)))
       /\ WF_vars(~terminated /\ waking /\ (PollReturns(n) \/ CallbackStopRun(n)))

FairSpec == Spec /\ Fairness

-----------------------------------------------------------------------------
(* Properties. *)

Live(n) == thread[n] \notin {"none", "ended"}
Quiet == \A n \in RunThread : ~Live(n)

\* The program is ended by its own thread handling only if an observer called
\* StopRun() or the client was destroyed while it ran.
OnlyCarelessTerminates == terminated => careless # {}

\* Two threads never poll the same websocket, however often it is run and
\* stopped.
OnePoller ==
  careless = {} => \A m, n \in RunThread : Live(m) /\ Live(n) => m = n

\* When StopRun() has returned nothing polls: the observers may go away, and
\* from the first member that is destroyed to the last no thread uses the
\* websocket.
StoppedMeansQuiet ==
  careless = {} /\ app \notin {"spawning", "assigning", "stopping", "joining"}
    /\ ~running_ => Quiet

\* StopRun() returns, unless the context has nothing that would wake Poll().
StopRunReturns == (app = "stopping") ~> (app = "idle" \/ terminated \/ ~waking)

\* OnSignalingClientStopped may call StopRun().
ObserverMayStopRun == terminated => "destroys_running" \in careless

-----------------------------------------------------------------------------
(* What makes these inductive. *)

\* Every thread that lives can still be joined.
Owned == \A n \in RunThread :
           Live(n) => \/ n = run_thread_
                      \/ app = "assigning" /\ n = created

\* For a careful application running_ and run_thread_ go together, except
\* within Run() and StopRun().
FlagsAgree ==
  /\ running_ = (app \in {"spawning", "assigning"}
                    \/ (app = "idle" /\ run_thread_ # 0))
  /\ run_thread_ = 0 => app \notin {"stopping", "joining"}
  /\ run_thread_ # 0 => app \in {"idle", "stopping", "joining"}
  /\ \A n \in RunThread : thread[n] # "stopping"

ThreadInv ==
  /\ OnlyCarelessTerminates
  /\ ~terminated => Owned
  /\ careless = {} => FlagsAgree
=============================================================================
