------------------------------ MODULE Webhookd ------------------------------
(***************************************************************************)
(* cmd/webhookd/main.go: one life of the process, from the moment it        *)
(* listens: the HTTP handlers that launch agents, the agents (AgentRunner), *)
(* SIGTERM, the bounded drain, and the deferred calls run() ends with.      *)
(*                                                                         *)
(* Abstracted: which check of the handler rejects a request; time, of which *)
(* only the expiry of the drain timeout is kept.  External: net/http (the   *)
(* state of a connection, Shutdown), sync.WaitGroup, signals, the kubelet.  *)
(***************************************************************************)
CONSTANTS
  Requests, HasDeadline, Heeds, \* as in AgentRunner
  DrainCoversRead,  \* the drain timeout is longer than srv.ReadTimeout
  ServeMayFail,     \* ListenAndServe may fail while requests are in flight
  KillMayComeFirst  \* the pod's grace period is not longer than the drain

ASSUME DaemonAssumption ==
  /\ {HasDeadline, DrainCoversRead, ServeMayFail, KillMayComeFirst}
       \subseteq BOOLEAN
  /\ Heeds \subseteq Requests

VARIABLES
  up, root, phase, ctx, bucket, ended, log, \* as in AgentRunner
  handler, \* the HTTP request that carries each webhook
  main,    \* where run() is
  sigterm, \* the context of signal.NotifyContext is done
  expired, \* the drain timeout has passed
  waiter,  \* the goroutine in wg.Wait
  pool,    \* the sessions of the MCP pool
  status   \* how the process ended

Runner == INSTANCE AgentRunner

runnerVars == <<up, root, phase, ctx, bucket, ended, log>>

vars == <<runnerVars, handler, main, sigterm, expired, waiter, pool, status>>

-----------------------------------------------------------------------------
(* Types.                                                                  *)

TypeOK ==
  /\ Runner!TypeOK
  /\ handler \in [Requests -> {"none", "reading", "launched", "answered"}]
  /\ main \in {"serving", "shutdown", "draining", "forcing", "unwinding",
               "closing", "exiting"}
  /\ sigterm \in BOOLEAN
  /\ expired \in BOOLEAN
  /\ waiter \in {"none", "waiting", "released"}
  /\ pool \in {"open", "closed"}
  /\ status \in {"none", "ok", "fatal", "crashed", "killed"}

Init ==
  /\ Runner!Init
  /\ handler = [r \in Requests |-> "none"]
  /\ main = "serving"
  /\ sigterm = FALSE
  /\ expired = FALSE
  /\ waiter = "none"
  /\ pool = "open"
  /\ status = "none"

-----------------------------------------------------------------------------
(* The HTTP side: Router, invokeHandler, BackgroundLauncher.Launch.         *)

Handler(r, from, to) ==
  /\ up
  /\ handler[r] = from
  /\ handler' = [handler EXCEPT ![r] = to]

\* An authorized webhook arrives; its body is still to be read.  A connection
\* that was open before Shutdown may bring one in while Shutdown polls.
Arrive(r) ==
  /\ main = "serving" \/ (main = "shutdown" /\ ~expired)
  /\ Handler(r, "none", "reading")
  /\ UNCHANGED <<runnerVars, main, sigterm, expired, waiter, pool, status>>

\* The body is too long, incomplete after ReadTimeout, or not JSON.
Reject(r) ==
  /\ Handler(r, "reading", "answered")
  /\ UNCHANGED <<runnerVars, main, sigterm, expired, waiter, pool, status>>

\* The body is read and valid: launch an agent for it.  Nothing here looks at
\* whether the process is shutting down.
LaunchAgent(r) ==
  /\ Handler(r, "reading", "launched")
  /\ Runner!Launch(r)
  /\ UNCHANGED <<main, sigterm, expired, waiter, pool, status>>

\* The 202 is written, or its connection is gone.
Respond(r) ==
  /\ Handler(r, "launched", "answered")
  /\ UNCHANGED <<runnerVars, main, sigterm, expired, waiter, pool, status>>

AgentSteps(r) ==
  /\ Runner!Advance(r)
  /\ status' = IF up' THEN status ELSE "crashed"
  /\ UNCHANGED <<handler, main, sigterm, expired, waiter, pool>>

-----------------------------------------------------------------------------
(* run().                                                                  *)

\* SIGTERM or an interrupt; later ones change nothing.
SigtermCancelsAgents ==
  /\ up /\ ~sigterm
  /\ sigterm' = TRUE
  /\ Runner!CancelRoot
  /\ UNCHANGED <<handler, main, expired, waiter, pool, status>>

Sigterm ==
  /\ up /\ ~sigterm
  /\ sigterm' = TRUE
  /\ UNCHANGED <<runnerVars, handler, main, expired, waiter, pool, status>>

Step(from, to) ==
  /\ up
  /\ main = from
  /\ main' = to

\* ListenAndServe fails: run() returns the error at once.
ServeFails ==
  /\ ServeMayFail
  /\ Step("serving", "unwinding")
  /\ status' = "fatal"
  /\ UNCHANGED <<runnerVars, handler, sigterm, expired, waiter, pool>>

\* The drain timeout starts to count and Shutdown closes the listeners.
BeginShutdown ==
  /\ sigterm
  /\ Step("serving", "shutdown")
  /\ UNCHANGED <<runnerVars, handler, sigterm, expired, waiter, pool, status>>

\* The timeout passes.  If it is longer than ReadTimeout, every body was read
\* or given up before: the listeners closed when the timeout started, and
\* Shutdown closes the connections that stay silent.
TimerExpires ==
  /\ up
  /\ main \in {"shutdown", "draining"} /\ ~expired
  /\ DrainCoversRead => \A r \in Requests : handler[r] # "reading"
  /\ expired' = TRUE
  /\ UNCHANGED <<runnerVars, handler, main, sigterm, waiter, pool, status>>

Busy == {r \in Requests : handler[r] \in {"reading", "launched"}}

\* Shutdown waits for the connections, no longer than the timeout.
ShutdownReturned == Busy = {} \/ expired

EndShutdown ==
  /\ ShutdownReturned
  /\ Step("shutdown", "draining")
  /\ waiter' = "waiting"
  /\ UNCHANGED <<runnerVars, handler, sigterm, expired, pool, status>>

CountedByGoroutine == {r \in Runner!InFlight : phase[r] # "launched"}

\* wg.Go counts an agent before its goroutine starts.
Counted == Runner!InFlight

\* wg.Wait returns when the counter is zero; what is launched later is not
\* waited for.
WaitReturns ==
  /\ up
  /\ waiter = "waiting" /\ Counted = {}
  /\ waiter' = "released"
  /\ UNCHANGED <<runnerVars, handler, main, sigterm, expired, pool, status>>

\* If done is closed and the timeout has passed, select may take either.
Drained ==
  /\ waiter = "released"
  /\ Step("draining", "unwinding")
  /\ status' = "ok"
  /\ UNCHANGED <<runnerVars, handler, sigterm, expired, waiter, pool>>

ForgetsCancel ==
  /\ expired
  /\ Step("draining", "forcing")
  /\ UNCHANGED <<runnerVars, handler, sigterm, expired, waiter, pool, status>>

CancelsRootOnly ==
  /\ expired
  /\ Step("draining", "forcing")
  /\ root' = "canceled"
  /\ UNCHANGED <<up, phase, ctx, bucket, ended, log, handler, sigterm, expired,
                 waiter, pool, status>>

ForceDown ==
  /\ expired
  /\ Step("draining", "forcing")
  /\ Runner!CancelRoot
  /\ UNCHANGED <<handler, sigterm, expired, waiter, pool, status>>

ForcedDownAtOnce ==
  /\ Step("forcing", "unwinding")
  /\ status' = "ok"
  /\ UNCHANGED <<runnerVars, handler, sigterm, expired, waiter, pool>>

\* After cancelDrain, run() waits for the agents without a limit.
ForcedDown ==
  /\ waiter = "released"
  /\ Step("forcing", "unwinding")
  /\ status' = "ok"
  /\ UNCHANGED <<runnerVars, handler, sigterm, expired, waiter, pool>>

\* The deferred calls: cancelDrain, then pool.Close.
DeferredCancel ==
  /\ Step("unwinding", "closing")
  /\ Runner!CancelRoot
  /\ UNCHANGED <<handler, sigterm, expired, waiter, pool, status>>

ClosePool ==
  /\ Step("closing", "exiting")
  /\ pool' = "closed"
  /\ UNCHANGED <<runnerVars, handler, sigterm, expired, waiter, status>>

\* main returns, or calls os.Exit(1): no goroutine survives it.
Exit ==
  /\ main = "exiting"
  /\ Runner!Crash
  /\ UNCHANGED <<handler, main, sigterm, expired, waiter, pool, status>>

\* SIGKILL, when the pod's grace period is over.
Kill ==
  /\ KillMayComeFirst
  /\ sigterm
  /\ Runner!Crash
  /\ status' = "killed"
  /\ UNCHANGED <<handler, main, sigterm, expired, waiter, pool>>

\* A storage call of an agent that was under way is carried out after that.
LateEffect(r) ==
  /\ Runner!LateEffect(r)
  /\ UNCHANGED <<handler, main, sigterm, expired, waiter, pool, status>>

Ended == ~up /\ UNCHANGED vars

Next ==
  \/ \E r \in Requests : Arrive(r) \/ Reject(r) \/ LaunchAgent(r)
                         \/ Respond(r) \/ AgentSteps(r) \/ LateEffect(r)
  \/ Sigterm \/ ServeFails \/ BeginShutdown \/ TimerExpires
  \/ EndShutdown \/ WaitReturns \/ Drained \/ ForceDown \/ ForcedDown
  \/ DeferredCancel \/ ClosePool \/ Exit \/ Kill
  \/ Ended

\* What run() does by itself happens, the timeout passes, net/http ends every
\* request (ReadTimeout, WriteTimeout), and a Run ends as in AgentRunner.
Fairness ==
  /\ \A r \in Requests :
       /\ WF_vars(Reject(r)) /\ WF_vars(Respond(r))
       /\ Runner!FairRun(r)
  /\ WF_vars(BeginShutdown) /\ WF_vars(TimerExpires) /\ WF_vars(EndShutdown)
  /\ WF_vars(WaitReturns) /\ WF_vars(Drained \/ ForceDown)
  /\ WF_vars(ForcedDown) /\ WF_vars(DeferredCancel) /\ WF_vars(ClosePool)
  /\ WF_vars(Exit)

Spec == Init /\ [][Next]_vars

FairSpec == Spec /\ Fairness

-----------------------------------------------------------------------------
(* Properties.                                                             *)

\* Agents do not leak on shutdown: when run() returns without an error, every
\* agent that was launched, also by a handler still busy when SIGTERM came,
\* has ended, and the log tells of every fork it may have left.
NoAgentLost ==
  status = "ok" =>
    /\ Runner!InFlight = {}
    /\ \A r \in Requests : bucket[r] = "present" =>
         log[r] \cap {"forkFailed", "deleteFailed"} # {}

\* Once wg.Wait has returned nothing is launched: the WaitGroup is never
\* reused, and no agent starts that nobody waits for.
LaunchedIsWaitedFor == waiter = "released" => Runner!InFlight = {}

\* SIGTERM alone does not touch an agent: the root context of the agents is
\* only cancelled under a running agent after the drain timeout passed, or
\* when run() returns the error of a listener that failed.
CancelledOnlyByTimeout ==
  [][(root' # root /\ Runner!InFlight # {})
       => expired \/ status = "fatal"]_vars

\* "the caller is responsible for keeping that session alive while the
\* adapter is in use": the pool is not closed under a running agent loop.
SessionsOutliveAgents ==
  pool = "closed" => \A r \in Requests : phase[r] # "looping"

\* SIGTERM ends the process: the drain waits neither for idle connections,
\* nor for a reader, a loop or a cleanup forever.
SigtermEndsProcess == sigterm ~> ~up

\* The daemon runs its agents the way AgentRunner says: handlers, drain and
\* deferred calls launch and cancel them, and cancelling reaches all of them.
RunnerSteps == Runner!Spec

\* "if the drain deadline expires that context is cancelled to force them
\* down": an agent that SIGTERM finds running is not torn down otherwise.
ForcedByCancelOnly ==
  (~up /\ sigterm /\ Runner!InFlight # {} /\ status # "crashed")
    => root = "canceled"
=============================================================================
