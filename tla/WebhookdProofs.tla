--------------------------- MODULE WebhookdProofs ---------------------------
(***************************************************************************)
(* Proofs about Webhookd, for any set of requests: that it runs its agents  *)
(* as AgentRunner says, so that what is proved of the runner holds of the   *)
(* daemon, and that the drain loses no agent.                               *)
(***************************************************************************)
EXTENDS Webhookd, TLAPS

Proofs == INSTANCE AgentRunnerProofs

-----------------------------------------------------------------------------
(* The inductive invariant.                                                *)

\* What the proofs about the runner know about its state.
RunnerInv == Proofs!IInv

\* Where run() is: the timeout counts from Shutdown on, wg.Wait starts after
\* Shutdown, and an exit without an error comes after wg.Wait.
Staged ==
  /\ main = "serving" => waiter = "none" /\ ~expired /\ status # "ok"
  /\ main = "shutdown" => waiter = "none" /\ status # "ok"
  /\ main \in {"draining", "forcing"} => status # "ok"
  /\ main \in {"unwinding", "closing", "exiting"}
       => (waiter = "released" \/ ServeMayFail)
  /\ up /\ main \in {"unwinding", "closing", "exiting"}
       => status \in {"ok", "fatal"}
  /\ status = "ok" => waiter = "released"
  /\ pool = "closed" => main = "exiting"

\* If the timeout outlasts ReadTimeout: when it has passed, and when wg.Wait
\* is called, no handler can launch an agent any more; so none is launched
\* after wg.Wait has returned.
Drainable ==
  DrainCoversRead =>
    /\ expired \/ waiter # "none" =>
         \A r \in Requests : handler[r] # "reading"
    /\ LaunchedIsWaitedFor

IInv == TypeOK /\ RunnerInv /\ Staged /\ Drainable

-----------------------------------------------------------------------------
(* The runner's part.                                                      *)

\* The same definitions seen through the two instances.
LEMMA SameRunner ==
  /\ Runner!TypeOK <=> Proofs!TypeOK
  /\ Runner!Init <=> Proofs!Init
  /\ Runner!InFlight = Proofs!InFlight
  /\ \A r \in Requests : Runner!Launch(r) <=> Proofs!Launch(r)
  /\ Runner!CancelRoot <=> Proofs!CancelRoot
  /\ Runner!Crash <=> Proofs!Crash
  /\ \A r \in Requests : Runner!LateEffect(r) <=> Proofs!LateEffect(r)
  /\ Runner!vars = Proofs!vars
<1>1. /\ Runner!TypeOK <=> Proofs!TypeOK
      /\ Runner!Init <=> Proofs!Init
      /\ Runner!InFlight = Proofs!InFlight
      /\ Runner!vars = Proofs!vars
  BY DEF Runner!TypeOK, Proofs!TypeOK, Runner!Init, Proofs!Init,
     Runner!InFlight, Proofs!InFlight, Runner!vars, Proofs!vars,
     Runner!Phases, Proofs!Phases, Runner!Ctx, Proofs!Ctx, Runner!Endings,
     Proofs!Endings, Runner!Records, Proofs!Records, Runner!Verdicts,
     Proofs!Verdicts
<1>2. ASSUME NEW r \in Requests
      PROVE  Runner!Launch(r) <=> Proofs!Launch(r)
  BY DEF Runner!Launch, Proofs!Launch, Runner!At, Proofs!At, Runner!Goto,
     Proofs!Goto
<1>3. Runner!CancelRoot <=> Proofs!CancelRoot
  BY DEF Runner!CancelRoot, Proofs!CancelRoot, Runner!Canceled,
     Proofs!Canceled
<1>4. Runner!Crash <=> Proofs!Crash
  BY DEF Runner!Crash, Proofs!Crash
<1>5. ASSUME NEW r \in Requests
      PROVE  Runner!LateEffect(r) <=> Proofs!LateEffect(r)
  BY DEF Runner!LateEffect, Proofs!LateEffect
<1> QED
  BY <1>1, <1>2, <1>3, <1>4, <1>5

\* A step of a Run is the same seen through the two instances.
LEMMA SameAdvance ==
  ASSUME NEW r \in Requests
  PROVE  Runner!Advance(r) <=> Proofs!Advance(r)
<1>1. /\ Runner!CallFork(r) <=> Proofs!CallFork(r)
      /\ Runner!ForkCreated(r) <=> Proofs!ForkCreated(r)
      /\ Runner!ForkFails(r) <=> Proofs!ForkFails(r)
  BY DEF Runner!CallFork, Proofs!CallFork, Runner!ForkCreated,
     Proofs!ForkCreated, Runner!ForkFails, Proofs!ForkFails, Runner!At,
     Proofs!At, Runner!Goto, Proofs!Goto, Runner!Write, Proofs!Write,
     Runner!AfterForkFailed, Proofs!AfterForkFailed
<1>2. /\ Runner!MountFork(r) <=> Proofs!MountFork(r)
      /\ Runner!MountFails(r) <=> Proofs!MountFails(r)
      /\ Runner!DeadlinePasses(r) <=> Proofs!DeadlinePasses(r)
      /\ Runner!LoopReturns(r) <=> Proofs!LoopReturns(r)
      /\ Runner!LoopPanics(r) <=> Proofs!LoopPanics(r)
  BY DEF Runner!MountFork, Proofs!MountFork, Runner!MountFails,
     Proofs!MountFails, Runner!DeadlinePasses, Proofs!DeadlinePasses,
     Runner!LoopReturns, Proofs!LoopReturns, Runner!LoopPanics,
     Proofs!LoopPanics, Runner!At, Proofs!At, Runner!Goto, Proofs!Goto,
     Runner!Write, Proofs!Write, Runner!Endings, Proofs!Endings
<1>3. /\ Runner!LogVerdict(r) <=> Proofs!LogVerdict(r)
      /\ Runner!ForkDeleted(r) <=> Proofs!ForkDeleted(r)
      /\ Runner!DeleteFails(r) <=> Proofs!DeleteFails(r)
  BY DEF Runner!LogVerdict, Proofs!LogVerdict, Runner!ForkDeleted,
     Proofs!ForkDeleted, Runner!DeleteFails, Proofs!DeleteFails, Runner!At,
     Proofs!At, Runner!Goto, Proofs!Goto, Runner!Write, Proofs!Write,
     Runner!Verdict, Proofs!Verdict, Runner!AfterDelete, Proofs!AfterDelete
<1> QED
  BY <1>1, <1>2, <1>3 DEF Runner!Advance, Proofs!Advance

\* The daemon's constants meet AgentRunner's assumption.
LEMMA RunnerAssumed == Proofs!RunnerAssumption
  BY DaemonAssumption DEF Proofs!RunnerAssumption

\* Steps that leave the runner alone keep what is known of it.
LEMMA RunnerRests ==
  ASSUME RunnerInv, UNCHANGED runnerVars
  PROVE  RunnerInv' /\ Runner!InFlight' = Runner!InFlight
<1>1. RunnerInv'
  BY RunnerAssumed, Proofs!Stutter DEF RunnerInv, runnerVars, Proofs!vars
<1>2. Runner!InFlight' = Runner!InFlight
  BY DEF runnerVars, Runner!InFlight
<1> QED
  BY <1>1, <1>2

\* A step of a Run keeps the runner's invariant.
LEMMA AgentKeepsRunner ==
  ASSUME RunnerInv, NEW r \in Requests,
         Runner!Launch(r) \/ Runner!Advance(r)
  PROVE  RunnerInv'
  BY RunnerAssumed, SameRunner, SameAdvance, Proofs!LaunchStep,
     Proofs!AdvanceStep DEF RunnerInv

\* Cancelling keeps it too, and changes nothing the second time.
LEMMA CancelKeepsRunner ==
  ASSUME RunnerInv, Runner!CancelRoot
  PROVE  /\ RunnerInv' /\ Runner!InFlight' = Runner!InFlight
         /\ root = "canceled" => UNCHANGED Runner!vars
<1>1. RunnerInv'
  BY RunnerAssumed, SameRunner, Proofs!CancelRootStep DEF RunnerInv
<1>2. Runner!InFlight' = Runner!InFlight
  BY DEF Runner!CancelRoot, Runner!InFlight
<1>3. ASSUME root = "canceled" PROVE UNCHANGED Runner!vars
  <2>1. /\ ctx \in [Requests -> Proofs!Ctx]
        /\ \A r \in Requests :
             phase[r] \in {"looping", "returned"} => ctx[r] # "live"
    BY <1>3 DEF RunnerInv, Proofs!IInv, Proofs!TypeOK, Proofs!Good,
                Proofs!CauseKept
  <2>2. Runner!Canceled = ctx
    BY <2>1 DEF Runner!Canceled
  <2> QED
    BY <1>3, <2>2 DEF Runner!CancelRoot, Runner!vars
<1> QED
  BY <1>1, <1>2, <1>3

\* The end of the process keeps the runner's invariant.
LEMMA CrashKeepsRunner ==
  ASSUME RunnerInv, Runner!Crash
  PROVE  RunnerInv' /\ Runner!InFlight' = Runner!InFlight
<1>1. RunnerInv'
  BY RunnerAssumed, SameRunner, Proofs!CrashStep DEF RunnerInv
<1>2. Runner!InFlight' = Runner!InFlight
  BY DEF Runner!Crash, Runner!InFlight
<1> QED
  BY <1>1, <1>2

\* So does a storage call that outlives it.
LEMMA LateEffectKeepsRunner ==
  ASSUME RunnerInv, NEW r \in Requests, Runner!LateEffect(r)
  PROVE  RunnerInv' /\ Runner!InFlight' = Runner!InFlight
<1>1. RunnerInv'
  BY RunnerAssumed, SameRunner, Proofs!LateEffectStep DEF RunnerInv
<1>2. Runner!InFlight' = Runner!InFlight
  BY DEF Runner!LateEffect, Runner!InFlight
<1> QED
  BY <1>1, <1>2

\* Every step of the daemon keeps the runner's invariant.
LEMMA RunnerKept == RunnerInv /\ [Next]_vars => RunnerInv'
<1> SUFFICES ASSUME RunnerInv, [Next]_vars PROVE RunnerInv'
  OBVIOUS
<1>1. CASE UNCHANGED runnerVars
  BY <1>1, RunnerRests
<1>2. ASSUME NEW r \in Requests, LaunchAgent(r) \/ AgentSteps(r)
      PROVE  RunnerInv'
  BY <1>2, AgentKeepsRunner DEF LaunchAgent, AgentSteps
<1>3. CASE ForceDown \/ DeferredCancel
  BY <1>3, CancelKeepsRunner DEF ForceDown, DeferredCancel
<1>4. CASE Exit \/ Kill
  BY <1>4, CrashKeepsRunner DEF Exit, Kill
<1>5. ASSUME NEW r \in Requests, LateEffect(r)
      PROVE  RunnerInv'
  BY <1>5, LateEffectKeepsRunner DEF LateEffect
<1> QED
  BY <1>1, <1>2, <1>3, <1>4, <1>5
     DEF Next, Arrive, Reject, Respond, Sigterm, ServeFails, BeginShutdown,
         TimerExpires, EndShutdown, WaitReturns, Drained, ForcedDown,
         ClosePool, Ended, vars

-----------------------------------------------------------------------------
(* The daemon implements the runner.                                       *)

\* Every step of the daemon is one of AgentRunner or a stutter there.
LEMMA NextRunner ==
  RunnerInv /\ [Next]_vars => [Runner!Next]_(Runner!vars)
<1> SUFFICES ASSUME RunnerInv, [Next]_vars
             PROVE  Runner!Next \/ UNCHANGED Runner!vars
  OBVIOUS
<1>1. CASE UNCHANGED runnerVars
  BY <1>1 DEF runnerVars, Runner!vars
<1>2. ASSUME NEW r \in Requests, LaunchAgent(r) \/ AgentSteps(r)
      PROVE  Runner!Next
  BY <1>2 DEF LaunchAgent, AgentSteps, Runner!Next
<1>3. CASE ForceDown \/ DeferredCancel
  <2>1. root \in {"live", "canceled"} /\ Runner!CancelRoot
    BY <1>3 DEF ForceDown, DeferredCancel, RunnerInv, Proofs!IInv,
                Proofs!TypeOK
  <2> QED
    BY <2>1, CancelKeepsRunner DEF Runner!Next
<1>4. CASE Exit \/ Kill
  BY <1>4 DEF Exit, Kill, Runner!Next
<1>5. ASSUME NEW r \in Requests, LateEffect(r)
      PROVE  Runner!Next
  BY <1>5 DEF LateEffect, Runner!Next
<1> QED
  BY <1>1, <1>2, <1>3, <1>4, <1>5
     DEF Next, Arrive, Reject, Respond, Sigterm, ServeFails, BeginShutdown,
         TimerExpires, EndShutdown, WaitReturns, Drained, ForcedDown,
         ClosePool, Ended, vars

\* The daemon starts where the runner's invariant holds.
LEMMA InitRunnerInv == Init => RunnerInv
  BY RunnerAssumed, SameRunner, Proofs!InitIInv DEF Init, RunnerInv

\* The inductive invariant of AgentRunner also holds of the requests the
\* daemon runs: Launch, the drain and Crash are all it does to them.
THEOREM RunnerInvariance == Spec => []RunnerInv
  BY InitRunnerInv, RunnerKept, PTL DEF Spec

\* The daemon does to its agents nothing that AgentRunner does not allow, so
\* every safety property of the runner holds in the daemon.
THEOREM DaemonRunsRunner == Spec => RunnerSteps
<1>1. Init => Runner!Init
  BY DEF Init
<1>2. RunnerInv /\ [Next]_vars => [Runner!Next]_(Runner!vars)
  BY NextRunner
<1> QED
  BY <1>1, <1>2, RunnerInvariance, PTL DEF Spec, RunnerSteps, Runner!Spec

-----------------------------------------------------------------------------
(* The drain.                                                              *)

\* The daemon serves, with nothing in flight.
LEMMA InitIInv == Init => IInv
<1> SUFFICES ASSUME Init PROVE IInv
  OBVIOUS
<1>1. RunnerInv
  BY InitRunnerInv
<1>2. TypeOK
  BY <1>1, SameRunner DEF RunnerInv, Proofs!IInv, TypeOK, Init
<1>3. Staged /\ Drainable
  BY DEF Init, Staged, Drainable, LaunchedIsWaitedFor
<1> QED
  BY <1>1, <1>2, <1>3 DEF IInv

\* The state of the runner stays well typed by what is known of it.
LEMMA RunnerTyped == RunnerInv' => Runner!TypeOK'
  BY DEF RunnerInv, Proofs!IInv, Runner!TypeOK, Proofs!TypeOK,
     Runner!Phases, Proofs!Phases, Runner!Ctx, Proofs!Ctx, Runner!Endings,
     Proofs!Endings, Runner!Records, Proofs!Records, Runner!Verdicts,
     Proofs!Verdicts

\* Every step of the daemon keeps the types.
LEMMA NextTyped == IInv /\ [Next]_vars => TypeOK'
<1> SUFFICES ASSUME IInv, [Next]_vars PROVE TypeOK'
  OBVIOUS
<1>1. Runner!TypeOK'
  BY RunnerKept, RunnerTyped DEF IInv
<1>2. ASSUME NEW r \in Requests,
             Arrive(r) \/ Reject(r) \/ LaunchAgent(r) \/ Respond(r)
      PROVE  TypeOK'
  BY <1>1, <1>2 DEF IInv, TypeOK, Arrive, Reject, LaunchAgent, Respond,
                    Handler
<1>3. ASSUME NEW r \in Requests, AgentSteps(r) \/ LateEffect(r)
      PROVE  TypeOK'
  BY <1>1, <1>3 DEF IInv, TypeOK, AgentSteps, LateEffect
<1>4. CASE Sigterm \/ ServeFails \/ BeginShutdown \/ TimerExpires
           \/ EndShutdown \/ WaitReturns
  BY <1>1, <1>4 DEF IInv, TypeOK, Sigterm, ServeFails, BeginShutdown,
                    TimerExpires, EndShutdown, WaitReturns, Step
<1>5. CASE Drained \/ ForceDown \/ ForcedDown \/ DeferredCancel \/ ClosePool
           \/ Exit \/ Kill
  BY <1>1, <1>5 DEF IInv, TypeOK, Drained, ForceDown, ForcedDown,
                    DeferredCancel, ClosePool, Exit, Kill, Step
<1>6. CASE UNCHANGED vars
  BY <1>1, <1>6 DEF IInv, TypeOK, vars
<1> QED
  BY <1>2, <1>3, <1>4, <1>5, <1>6 DEF Next, Ended

\* The steps of the agents and their handlers.
LEMMA RequestStep ==
  ASSUME IInv, NEW r \in Requests,
         \/ Arrive(r) \/ Reject(r) \/ LaunchAgent(r) \/ Respond(r)
         \/ AgentSteps(r) \/ LateEffect(r)
  PROVE  Staged' /\ Drainable'
<1>1. CASE Arrive(r)
  BY <1>1 DEF IInv, TypeOK, Staged, Drainable, LaunchedIsWaitedFor, Arrive,
              Handler, runnerVars, Runner!InFlight
<1>2. CASE Reject(r) \/ Respond(r)
  BY <1>2 DEF IInv, TypeOK, Staged, Drainable, LaunchedIsWaitedFor, Reject,
              Respond, Handler, runnerVars, Runner!InFlight
<1>3. CASE LaunchAgent(r)
  <2>1. Staged'
    BY <1>3 DEF IInv, TypeOK, Staged, LaunchAgent, Runner!Launch
  <2>2. DrainCoversRead => waiter = "none" /\ ~expired
    BY <1>3 DEF IInv, Drainable, LaunchAgent, Handler
  <2>3. Drainable'
    BY <1>3, <2>2 DEF Drainable, LaunchedIsWaitedFor, LaunchAgent
  <2> QED
    BY <2>1, <2>3
<1>4. CASE AgentSteps(r)
  <2>1. Runner!Advance(r) /\ UNCHANGED <<handler, main, expired, waiter, pool>>
        /\ status' \in {status, "crashed"} /\ (up' => status' = status) /\ up
    BY <1>4 DEF AgentSteps, Runner!Advance, Runner!CallFork, Runner!At,
       Runner!ForkCreated, Runner!ForkFails, Runner!MountFork,
       Runner!MountFails, Runner!DeadlinePasses, Runner!LoopReturns,
       Runner!LoopPanics, Runner!LogVerdict, Runner!ForkDeleted,
       Runner!DeleteFails
  <2>2. Staged'
    BY <2>1 DEF IInv, Staged
  <2>3. r \in Runner!InFlight
    BY <2>1 DEF Runner!Advance, Runner!CallFork, Runner!At,
       Runner!ForkCreated, Runner!ForkFails, Runner!MountFork,
       Runner!MountFails, Runner!DeadlinePasses, Runner!LoopReturns,
       Runner!LoopPanics, Runner!LogVerdict, Runner!ForkDeleted,
       Runner!DeleteFails, Runner!InFlight
  <2>4. Drainable'
    BY <2>1, <2>3 DEF IInv, Drainable, LaunchedIsWaitedFor
  <2> QED
    BY <2>2, <2>4
<1>5. CASE LateEffect(r)
  <2>1. Runner!InFlight' = Runner!InFlight /\ up' = up
    BY <1>5, LateEffectKeepsRunner DEF IInv, LateEffect, Runner!LateEffect
  <2> QED
    BY <1>5, <2>1 DEF IInv, Staged, Drainable, LaunchedIsWaitedFor, LateEffect
<1> QED
  BY <1>1, <1>2, <1>3, <1>4, <1>5

\* The steps of run() and of what happens to it.
LEMMA RunStep ==
  ASSUME IInv,
         \/ Sigterm \/ ServeFails \/ BeginShutdown \/ TimerExpires
         \/ EndShutdown \/ WaitReturns \/ Drained \/ ForceDown \/ ForcedDown
         \/ DeferredCancel \/ ClosePool \/ Exit \/ Kill
  PROVE  Staged' /\ Drainable'
<1>1. CASE Sigterm \/ ServeFails \/ BeginShutdown
  BY <1>1 DEF IInv, TypeOK, Staged, Drainable, LaunchedIsWaitedFor, Sigterm,
     ServeFails, BeginShutdown, Step, runnerVars, Runner!InFlight
<1>2. CASE TimerExpires
  BY <1>2 DEF IInv, TypeOK, Staged, Drainable, LaunchedIsWaitedFor,
     TimerExpires, runnerVars, Runner!InFlight
<1>3. CASE EndShutdown
  <2>1. DrainCoversRead => \A r \in Requests : handler[r] # "reading"
    BY <1>3 DEF IInv, Drainable, EndShutdown, ShutdownReturned, Busy
  <2> QED
    BY <1>3, <2>1 DEF IInv, Staged, Drainable, LaunchedIsWaitedFor,
       EndShutdown, Step, runnerVars
<1>4. CASE WaitReturns
  BY <1>4 DEF IInv, Staged, Drainable, LaunchedIsWaitedFor, WaitReturns,
     Counted, runnerVars, Runner!InFlight
<1>5. CASE Drained \/ ForcedDown \/ ClosePool
  BY <1>5 DEF IInv, TypeOK, Staged, Drainable, LaunchedIsWaitedFor, Drained,
     ForcedDown, ClosePool, Step, runnerVars, Runner!InFlight
<1>6. CASE ForceDown \/ DeferredCancel
  <2>1. Runner!InFlight' = Runner!InFlight /\ up' = up
    BY <1>6, CancelKeepsRunner
       DEF IInv, ForceDown, DeferredCancel, Runner!CancelRoot
  <2> QED
    BY <1>6, <2>1 DEF IInv, TypeOK, Staged, Drainable, LaunchedIsWaitedFor,
       ForceDown, DeferredCancel, Step
<1>7. CASE Exit \/ Kill
  <2>1. Runner!InFlight' = Runner!InFlight /\ ~up'
    BY <1>7, CrashKeepsRunner DEF IInv, Exit, Kill, Runner!Crash
  <2> QED
    BY <1>7, <2>1 DEF IInv, TypeOK, Staged, Drainable, LaunchedIsWaitedFor,
       Exit, Kill
<1> QED
  BY <1>1, <1>2, <1>3, <1>4, <1>5, <1>6, <1>7

\* Every step keeps the inductive invariant.
LEMMA NextIInv == IInv /\ [Next]_vars => IInv'
<1> SUFFICES ASSUME IInv, [Next]_vars PROVE IInv'
  OBVIOUS
<1>1. TypeOK' /\ RunnerInv'
  BY NextTyped, RunnerKept DEF IInv
<1>2. CASE UNCHANGED vars
  BY <1>1, <1>2 DEF IInv, Staged, Drainable, LaunchedIsWaitedFor, vars,
                    runnerVars, Runner!InFlight
<1>3. (Staged' /\ Drainable') \/ UNCHANGED vars
  BY RequestStep, RunStep DEF Next, Ended
<1> QED
  BY <1>1, <1>2, <1>3 DEF IInv

\* The inductive invariant holds in every reachable state of the daemon: what
\* the stage of run(), wg.Wait and the handlers say of each other.
THEOREM Invariance == Spec => []IInv
  BY InitIInv, NextIInv, PTL DEF Spec

\* The state of the daemon is always well typed.
THEOREM TypeCorrect == Spec => []TypeOK
<1>1. IInv => TypeOK
  BY DEF IInv
<1> QED
  BY <1>1, Invariance, PTL

\* With a drain timeout longer than ReadTimeout, nothing is launched once
\* wg.Wait has returned, whatever handlers were busy when SIGTERM came.
THEOREM NoLateLaunch == Spec => [](DrainCoversRead => LaunchedIsWaitedFor)
<1>1. IInv => (DrainCoversRead => LaunchedIsWaitedFor)
  BY DEF IInv, Drainable
<1> QED
  BY <1>1, Invariance, PTL

\* With such a timeout, a process that exits without an error has seen every
\* agent end, and has logged every fork that is left.
THEOREM DrainLosesNoAgent == Spec => [](DrainCoversRead => NoAgentLost)
<1>1. IInv => (DrainCoversRead => NoAgentLost)
  <2> SUFFICES ASSUME IInv, DrainCoversRead, status = "ok"
               PROVE  /\ Runner!InFlight = {}
                      /\ \A r \in Requests : bucket[r] = "present" =>
                           log[r] \cap {"forkFailed", "deleteFailed"} # {}
    BY DEF NoAgentLost
  <2>1. Runner!InFlight = {}
    BY DEF IInv, Staged, Drainable, LaunchedIsWaitedFor
  <2>2. \A r \in Requests : phase[r] \in {"idle", "done"}
    BY <2>1 DEF Runner!InFlight
  <2> QED
    BY <2>1, <2>2 DEF IInv, RunnerInv, Proofs!IInv, Proofs!Good,
                      Proofs!ForkKept
<1> QED
  BY <1>1, Invariance, PTL

\* If moreover the listener does not fail, the MCP pool is only closed when
\* no agent loop is left to call its tools.
THEOREM PoolClosesLast ==
  Spec => [](DrainCoversRead /\ ~ServeMayFail => SessionsOutliveAgents)
<1>1. IInv => (DrainCoversRead /\ ~ServeMayFail => SessionsOutliveAgents)
  BY DEF IInv, Staged, Drainable, LaunchedIsWaitedFor, SessionsOutliveAgents,
         Runner!InFlight
<1> QED
  BY <1>1, Invariance, PTL

\* SIGTERM itself cancels no agent; only the timeout, or the error of a
\* listener, cancels the context of an agent that is running.
THEOREM SigtermSparesAgents ==
  ASSUME DrainCoversRead PROVE Spec => CancelledOnlyByTimeout
<1>1. IInv /\ [Next]_vars =>
        [(root' # root /\ Runner!InFlight # {})
           => expired \/ status = "fatal"]_vars
  <2> SUFFICES ASSUME IInv, [Next]_vars, root' # root, Runner!InFlight # {}
               PROVE  expired \/ status = "fatal"
    OBVIOUS
  <2>1. CASE ForceDown
    BY <2>1 DEF ForceDown
  <2>2. CASE DeferredCancel
    BY <2>2 DEF IInv, Staged, Drainable, LaunchedIsWaitedFor, DeferredCancel,
                Step
  <2>3. CASE UNCHANGED root
    BY <2>3
  <2>4. ASSUME NEW r \in Requests, Runner!Launch(r) \/ Runner!Advance(r)
        PROVE  UNCHANGED root
    BY <2>4 DEF Runner!Launch, Runner!Advance, Runner!CallFork,
       Runner!ForkCreated, Runner!ForkFails, Runner!MountFork,
       Runner!MountFails, Runner!DeadlinePasses, Runner!LoopReturns,
       Runner!LoopPanics, Runner!LogVerdict, Runner!ForkDeleted,
       Runner!DeleteFails, Runner!AfterDelete
  <2> QED
    BY <2>1, <2>2, <2>3, <2>4
       DEF Next, Arrive, Reject, LaunchAgent, AgentSteps, Respond, Sigterm,
           ServeFails, BeginShutdown, TimerExpires, EndShutdown, WaitReturns,
           Drained, ForcedDown, ClosePool, Exit, Kill, Runner!Crash, Ended,
           LateEffect, Runner!LateEffect, vars, runnerVars
<1> QED
  BY <1>1, Invariance, PTL DEF Spec, CancelledOnlyByTimeout
=============================================================================
