-------------------------- MODULE AgentRunnerProofs --------------------------
(***************************************************************************)
(* Proofs about AgentRunner, for any set of requests: type correctness, and *)
(* that what the log of a request says about its fork and its loop is true. *)
(***************************************************************************)
EXTENDS AgentRunner, TLAPS

-----------------------------------------------------------------------------
(* The inductive invariant, request by request.                            *)

Open == {"idle", "launched", "forking", "mounting", "looping", "returned"}

Forked == {"mounting", "looping", "returned", "deleting"}

\* A request logs nothing before its loop has returned, the loop ends once,
\* and what is logged about the fork comes after everything else.
Recorded(r) ==
  /\ phase[r] \in Open => log[r] = {}
  /\ phase[r] \in Open \ {"returned"} => ended[r] = "none"
  /\ phase[r] = "returned" => ended[r] \notin {"none", "panic"}
  /\ phase[r] = "deleting"
       => log[r] \cap {"deleted", "deleteFailed", "forkFailed"} = {}
  /\ ended[r] = "panic" => log[r] \cap Verdicts = {}

\* The fork exists as long as Run relies on it, and leaks with a record.
ForkKept(r) ==
  /\ phase[r] \in {"idle", "launched"} => bucket[r] = "absent"
  /\ phase[r] = "forking" => bucket[r] # "deleted" /\ (up => bucket[r] = "absent")
  /\ phase[r] \in Forked \ {"deleting"} => bucket[r] = "present"
  /\ phase[r] = "deleting" => bucket[r] # "absent" /\ (up => bucket[r] = "present")
  /\ (phase[r] = "done" /\ bucket[r] = "present")
       => log[r] \cap {"forkFailed", "deleteFailed"} # {}
  /\ "deleted" \in log[r] => phase[r] = "done" /\ bucket[r] = "deleted"

\* A loop that its context ended keeps the cause, and the cause is real; no
\* loop misses that root was cancelled.
CauseKept(r) ==
  /\ root = "canceled" /\ phase[r] \in {"looping", "returned"}
       => ctx[r] # "live"
  /\ ended[r] = "ctx" => ctx[r] # "live"
  /\ ctx[r] = "canceled" => root = "canceled"

\* The verdict, once there is one.
Judged(r) ==
  /\ phase[r] \in {"deleting", "done"} /\ ended[r] # "panic"
       => \E v \in Verdicts : log[r] \cap Verdicts = {v}
  /\ "completed" \in log[r] <=>
       ended[r] = "stop" /\ phase[r] \in {"deleting", "done"}
  /\ ended[r] = "ctx" /\ phase[r] \in {"deleting", "done"}
       => ("timedOut" \in log[r] <=> ctx[r] = "deadline")
  /\ ended[r] = "ctx" /\ "failed" \in log[r] => root = "canceled"

Good(r) == Recorded(r) /\ ForkKept(r) /\ CauseKept(r) /\ Judged(r)

IInv == TypeOK /\ \A r \in Requests : Good(r)

-----------------------------------------------------------------------------
(* Every step preserves it.                                                *)

\* Nothing is launched, forked or logged.
LEMMA InitIInv == Init => IInv
<1> SUFFICES ASSUME Init PROVE IInv
  OBVIOUS
<1>1. TypeOK
  BY DEF Init, TypeOK, Phases, Ctx
<1>2. \A r \in Requests : Good(r)
  BY DEF Init, Good, Recorded, ForkKept, CauseKept, Judged, Open, Forked
<1> QED
  BY <1>1, <1>2 DEF IInv

\* A step of one request leaves the others as they are.
LEMMA OthersStayGood ==
  ASSUME IInv, NEW r \in Requests, UNCHANGED root, up' => up,
         \A q \in Requests \ {r} :
           /\ phase'[q] = phase[q] /\ ctx'[q] = ctx[q]
           /\ bucket'[q] = bucket[q] /\ ended'[q] = ended[q]
           /\ log'[q] = log[q]
  PROVE  \A q \in Requests \ {r} : Good(q)'
  BY DEF IInv, Good, Recorded, ForkKept, CauseKept, Judged

\* A goroutine is started.
LEMMA LaunchStep ==
  ASSUME IInv, NEW r \in Requests, Launch(r)
  PROVE  IInv'
<1>1. TypeOK'
  BY DEF IInv, TypeOK, Launch, At, Goto, Phases
<1>2. \A q \in Requests \ {r} : Good(q)'
  BY OthersStayGood DEF Launch, Goto, IInv, TypeOK
<1>3. Good(r)'
  BY DEF IInv, TypeOK, Launch, At, Goto, Good, Recorded, ForkKept, CauseKept,
         Judged, Open, Forked
<1> QED
  BY <1>1, <1>2, <1>3 DEF IInv

\* The call of CreateBucketFork begins.
LEMMA CallForkStep ==
  ASSUME IInv, NEW r \in Requests, CallFork(r)
  PROVE  IInv'
<1>1. TypeOK'
  BY DEF IInv, TypeOK, CallFork, At, Goto, Write, Phases, Records, Verdicts
<1>2. \A q \in Requests \ {r} : Good(q)'
  BY OthersStayGood DEF CallFork, Goto, Write, IInv, TypeOK
<1>3. Good(r)'
  BY DEF IInv, TypeOK, CallFork, At, Goto, Write, Good, Recorded, ForkKept,
         CauseKept, Judged, Open, Forked, Verdicts
<1> QED
  BY <1>1, <1>2, <1>3 DEF IInv

\* The fork is there and its delete is deferred.
LEMMA ForkCreatedStep ==
  ASSUME IInv, NEW r \in Requests, ForkCreated(r)
  PROVE  IInv'
<1>1. TypeOK'
  BY DEF IInv, TypeOK, ForkCreated, At, Goto, Phases
<1>2. \A q \in Requests \ {r} : Good(q)'
  BY OthersStayGood DEF ForkCreated, Goto, IInv, TypeOK
<1>3. Good(r)'
  BY DEF IInv, TypeOK, ForkCreated, At, Goto, Good, Recorded, ForkKept,
         CauseKept, Judged, Open, Forked
<1> QED
  BY <1>1, <1>2, <1>3 DEF IInv

\* The call fails: there may be a fork, and there is a record.
LEMMA ForkFailsStep ==
  ASSUME IInv, NEW r \in Requests, ForkFails(r)
  PROVE  IInv'
<1>1. TypeOK'
  BY DEF IInv, TypeOK, ForkFails, At, Goto, Write, Phases, AfterForkFailed,
         Records, Verdicts
<1>2. \A q \in Requests \ {r} : Good(q)'
  BY OthersStayGood DEF ForkFails, Goto, Write, IInv, TypeOK
<1>3. Good(r)'
  BY DEF IInv, TypeOK, ForkFails, At, Goto, Write, AfterForkFailed, Good,
         Recorded, ForkKept, CauseKept, Judged, Open, Forked, Verdicts
<1> QED
  BY <1>1, <1>2, <1>3 DEF IInv

\* The loop starts on a context derived from root.
LEMMA MountForkStep ==
  ASSUME IInv, NEW r \in Requests, MountFork(r)
  PROVE  IInv'
<1>1. TypeOK'
  BY DEF IInv, TypeOK, MountFork, At, Goto, Phases, Ctx, Endings
<1>2. \A q \in Requests \ {r} : Good(q)'
  BY OthersStayGood DEF MountFork, Goto, IInv, TypeOK
<1>3. Good(r)'
  BY DEF IInv, TypeOK, MountFork, At, Goto, Good, Recorded, ForkKept,
         CauseKept, Judged, Open, Forked
<1> QED
  BY <1>1, <1>2, <1>3 DEF IInv

\* The fork cannot be mounted and is going to be deleted.
LEMMA MountFailsStep ==
  ASSUME IInv, NEW r \in Requests, MountFails(r)
  PROVE  IInv'
<1>1. TypeOK'
  BY DEF IInv, TypeOK, MountFails, At, Goto, Write, Phases, Records, Verdicts
<1>2. \A q \in Requests \ {r} : Good(q)'
  BY OthersStayGood DEF MountFails, Goto, Write, IInv, TypeOK
<1>3. Good(r)'
  BY DEF IInv, TypeOK, MountFails, At, Goto, Write, Good, Recorded, ForkKept,
         CauseKept, Judged, Open, Forked, Verdicts
<1> QED
  BY <1>1, <1>2, <1>3 DEF IInv

\* The deadline ends a context that is still live.
LEMMA DeadlinePassesStep ==
  ASSUME IInv, NEW r \in Requests, DeadlinePasses(r)
  PROVE  IInv'
<1>1. TypeOK'
  BY DEF IInv, TypeOK, DeadlinePasses, Ctx
<1>2. \A q \in Requests \ {r} : Good(q)'
  BY OthersStayGood DEF DeadlinePasses, IInv, TypeOK
<1>3. Good(r)'
  BY DEF IInv, TypeOK, DeadlinePasses, Good, Recorded, ForkKept, CauseKept,
         Judged, Open, Forked
<1> QED
  BY <1>1, <1>2, <1>3 DEF IInv

\* The loop returns, as cancelled only if its context is done.
LEMMA LoopReturnsStep ==
  ASSUME IInv, NEW r \in Requests, LoopReturns(r)
  PROVE  IInv'
<1> PICK e \in Endings \ {"panic"} :
      (e = "ctx" => ctx[r] # "live") /\ ended' = [ended EXCEPT ![r] = e]
  BY DEF LoopReturns
<1>1. TypeOK'
  BY DEF IInv, TypeOK, LoopReturns, At, Goto, Phases
<1>2. \A q \in Requests \ {r} : Good(q)'
  BY OthersStayGood DEF LoopReturns, Goto, IInv, TypeOK
<1>3. Good(r)'
  BY DEF IInv, TypeOK, LoopReturns, At, Goto, Good, Recorded, ForkKept,
         CauseKept, Judged, Open, Forked, Endings
<1> QED
  BY <1>1, <1>2, <1>3 DEF IInv

\* The loop panics: no verdict, but the deferred delete.
LEMMA LoopPanicsStep ==
  ASSUME IInv, NEW r \in Requests, LoopPanics(r)
  PROVE  IInv'
<1>1. TypeOK'
  BY DEF IInv, TypeOK, LoopPanics, At, Goto, Phases, Endings
<1>2. \A q \in Requests \ {r} : Good(q)'
  BY OthersStayGood DEF LoopPanics, Goto, IInv, TypeOK
<1>3. Good(r)'
  BY DEF IInv, TypeOK, LoopPanics, At, Goto, Good, Recorded, ForkKept,
         CauseKept, Judged, Open, Forked
<1> QED
  BY <1>1, <1>2, <1>3 DEF IInv

\* The one verdict is written, from the ending and the context.
LEMMA LogVerdictStep ==
  ASSUME IInv, NEW r \in Requests, LogVerdict(r)
  PROVE  IInv'
<1>1. Verdict(r) \in {"completed", "timedOut", "failed"}
  BY DEF Verdict
<1>2. TypeOK'
  BY <1>1 DEF IInv, TypeOK, LogVerdict, At, Goto, Write, Phases, Records,
              Verdicts
<1>3. \A q \in Requests \ {r} : Good(q)'
  BY OthersStayGood DEF LogVerdict, Goto, Write, IInv, TypeOK
<1>4. /\ phase[r] = "returned" /\ phase'[r] = "deleting"
      /\ log[r] = {} /\ log'[r] = {Verdict(r)} /\ bucket[r] = "present"
      /\ ended[r] \notin {"none", "panic"}
      /\ UNCHANGED <<root, ctx, bucket, ended>>
  BY DEF IInv, TypeOK, LogVerdict, At, Goto, Write, Good, Recorded, ForkKept,
         Open, Forked
<1>5. Recorded(r)' /\ ForkKept(r)'
  BY <1>1, <1>4 DEF Recorded, ForkKept, Open, Forked
<1>6. CauseKept(r)' /\ CauseKept(r) /\ ctx[r] \in Ctx
  BY <1>4 DEF IInv, TypeOK, Good, CauseKept
<1>7. Judged(r)'
  BY <1>1, <1>4, <1>6 DEF Judged, Verdict, Verdicts, CauseKept, Ctx
<1> QED
  BY <1>2, <1>3, <1>5, <1>6, <1>7 DEF IInv, Good

\* Both ends of the delete.
LEMMA DeleteStep ==
  ASSUME IInv, NEW r \in Requests, ForkDeleted(r) \/ DeleteFails(r)
  PROVE  IInv'
<1> PICK record \in {"deleted", "deleteFailed"} :
      /\ Write(r, record)
      /\ bucket' \in {bucket, [bucket EXCEPT ![r] = "deleted"]}
      /\ record = "deleted" => bucket' = [bucket EXCEPT ![r] = "deleted"]
  BY DEF ForkDeleted, DeleteFails
<1>1. /\ up /\ phase[r] = "deleting" /\ phase' = [phase EXCEPT ![r] = "done"]
      /\ up' \in BOOLEAN /\ UNCHANGED <<root, ctx, ended>>
  BY DEF ForkDeleted, DeleteFails, AfterDelete, At, Goto
<1>2. TypeOK'
  BY <1>1 DEF IInv, TypeOK, Write, Phases, Records
<1>3. \A q \in Requests \ {r} : Good(q)'
  BY <1>1, OthersStayGood DEF Write, IInv, TypeOK
<1>4. /\ phase'[r] = "done" /\ log'[r] = log[r] \cup {record}
      /\ bucket'[r] \in {bucket[r], "deleted"}
      /\ record = "deleted" => bucket'[r] = "deleted"
  BY <1>1 DEF IInv, TypeOK, Write
<1>5. log'[r] \cap Verdicts = log[r] \cap Verdicts
  BY <1>4 DEF Verdicts
<1>6. Recorded(r)' /\ ForkKept(r)' /\ CauseKept(r)'
  BY <1>1, <1>4, <1>5 DEF IInv, Good, Recorded, ForkKept, CauseKept, Open,
                          Forked
<1>7. Judged(r)'
  BY <1>1, <1>4, <1>5 DEF IInv, Good, Judged
<1> QED
  BY <1>2, <1>3, <1>6, <1>7 DEF IInv, Good

\* Every step of a Run, the two outcomes of the delete included.
LEMMA AdvanceStep ==
  ASSUME IInv, NEW r \in Requests, Advance(r)
  PROVE  IInv'
  BY CallForkStep, ForkCreatedStep, ForkFailsStep, MountForkStep,
     MountFailsStep, DeadlinePassesStep, LoopReturnsStep, LoopPanicsStep,
     LogVerdictStep, DeleteStep DEF Advance

\* Cancelling root reaches every context that is live.
LEMMA CancelRootStep ==
  ASSUME IInv, CancelRoot
  PROVE  IInv'
<1>1. TypeOK'
  BY DEF IInv, TypeOK, CancelRoot, Canceled, Ctx
<1>2. ASSUME NEW r \in Requests PROVE Good(r)'
  BY DEF IInv, TypeOK, CancelRoot, Canceled, Good, Recorded, ForkKept,
         CauseKept, Judged
<1> QED
  BY <1>1, <1>2 DEF IInv

\* The end of the process changes no record and no bucket.
LEMMA CrashStep ==
  ASSUME IInv, Crash
  PROVE  IInv'
  BY DEF IInv, TypeOK, Crash, Good, Recorded, ForkKept, CauseKept, Judged

\* What a call does after the end of the process.
LEMMA LateEffectStep ==
  ASSUME IInv, NEW r \in Requests, LateEffect(r)
  PROVE  IInv'
<1>1. TypeOK'
  BY DEF IInv, TypeOK, LateEffect
<1>2. \A q \in Requests \ {r} : Good(q)'
  BY OthersStayGood DEF LateEffect, IInv, TypeOK
<1>3. Good(r)'
  BY DEF IInv, TypeOK, LateEffect, Good, Recorded, ForkKept, CauseKept, Judged,
         Open, Forked
<1> QED
  BY <1>1, <1>2, <1>3 DEF IInv

\* Stuttering.
LEMMA Stutter ==
  ASSUME IInv, UNCHANGED vars
  PROVE  IInv'
  BY DEF IInv, TypeOK, vars, Good, Recorded, ForkKept, CauseKept, Judged

\* Every step keeps the inductive invariant.
LEMMA NextIInv == IInv /\ [Next]_vars => IInv'
  BY LaunchStep, AdvanceStep, CancelRootStep, CrashStep, LateEffectStep, Stutter
     DEF Next, Quiet

-----------------------------------------------------------------------------
(* The theorems.                                                           *)

\* The inductive invariant holds in every reachable state of the runner: what
\* phase, bucket, loop ending and log of a request say of each other.
THEOREM Invariance == Spec => []IInv
  BY InitIInv, NextIInv, PTL DEF Spec

\* The state of the runner is always well typed.
THEOREM TypeCorrect == Spec => []TypeOK
<1>1. IInv => TypeOK
  BY DEF IInv
<1> QED
  BY <1>1, Invariance, PTL

\* No loop ever runs on a missing fork.
THEOREM ForkIsThere == Spec => []ForkOutlivesLoop
<1>1. IInv => ForkOutlivesLoop
  BY DEF IInv, Good, ForkKept, ForkOutlivesLoop, Forked
<1> QED
  BY <1>1, Invariance, PTL

\* No Run that ended leaks its fork in silence.
THEOREM NoSilentLeak == Spec => []LeakIsLogged
<1>1. IInv => LeakIsLogged
  BY DEF IInv, TypeOK, Phases, Good, ForkKept, LeakIsLogged
<1> QED
  BY <1>1, Invariance, PTL

\* Every verdict in the log is the true one, whatever races with the return
\* of the loop.
THEOREM VerdictsAreTrue == Spec => []VerdictIsTrue
<1>1. IInv => VerdictIsTrue
  BY DEF IInv, Good, Judged, VerdictIsTrue
<1> QED
  BY <1>1, Invariance, PTL
=============================================================================
