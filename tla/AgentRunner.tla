---------------------------- MODULE AgentRunner ----------------------------
(***************************************************************************)
(* internal/webhook/runner.go: AgentRunner.Run, once for each launched      *)
(* request: fork the source bucket, mount the fork, run the agent loop on   *)
(* it under a deadline, log how it went, delete the fork.  The requests run *)
(* concurrently, in one process, on contexts derived from one root.         *)
(*                                                                         *)
(* Abstracted: the loop, of which only the way it returns is kept           *)
(* (AgentLoop has the rest); the log, kept as the records a request wrote;  *)
(* what is in a bucket.  External: the storage service, which may have      *)
(* carried out a call it answers with an error, and the end of the process. *)
(***************************************************************************)
CONSTANTS
  Requests,    \* the webhook requests of one life of the process
  HasDeadline, \* PerRequestTimeout > 0
  Heeds        \* the requests whose model and tools stop when ctx is done

ASSUME RunnerAssumption ==
  /\ HasDeadline \in BOOLEAN
  /\ Heeds \subseteq Requests

VARIABLES
  up,     \* the process is alive
  root,   \* the context Launch hands to every request
  phase,  \* how far each Run is
  ctx,    \* Run's ctx, derived from root once the fork is mounted
  bucket, \* the session bucket of each request
  ended,  \* how agent.Run ended, "none" before that
  log     \* the records about each request in the log

vars == <<up, root, phase, ctx, bucket, ended, log>>

-----------------------------------------------------------------------------
(* Types.                                                                  *)

Phases == {"idle", "launched", "forking", "mounting", "looping", "returned",
           "deleting", "done"}

\* ctx.Err(): the first cause to end a context is the one it keeps.
Ctx == {"live", "canceled", "deadline"}

\* The outcomes of RunContract.
Endings == {"stop", "okay", "abort", "ctx", "unreachable", "panic"}

Verdicts == {"forkFailed", "fsFailed", "timedOut", "failed", "completed"}

Records == Verdicts \cup {"deleted", "deleteFailed"}

TypeOK ==
  /\ up \in BOOLEAN
  /\ root \in {"live", "canceled"}
  /\ phase \in [Requests -> Phases]
  /\ ctx \in [Requests -> Ctx]
  /\ bucket \in [Requests -> {"absent", "present", "deleted"}]
  /\ ended \in [Requests -> Endings \cup {"none"}]
  /\ log \in [Requests -> SUBSET Records]

InFlight == {r \in Requests : phase[r] \notin {"idle", "done"}}

-----------------------------------------------------------------------------
(* AgentRunner.Run.                                                        *)

Init ==
  /\ up = TRUE
  /\ root = "live"
  /\ phase = [r \in Requests |-> "idle"]
  /\ ctx = [r \in Requests |-> "live"]
  /\ bucket = [r \in Requests |-> "absent"]
  /\ ended = [r \in Requests |-> "none"]
  /\ log = [r \in Requests |-> {}]

At(r, p) == up /\ phase[r] = p

Goto(r, p) == phase' = [phase EXCEPT ![r] = p]

Write(r, record) == log' = [log EXCEPT ![r] = @ \cup {record}]

\* BackgroundLauncher.Launch: count the goroutine and start it.
Launch(r) ==
  /\ At(r, "idle")
  /\ Goto(r, "launched")
  /\ UNCHANGED <<up, root, ctx, bucket, ended, log>>

\* CreateBucketFork is called with the root context: there is no deadline
\* yet, and once root is cancelled it fails before it reaches the service.
CallFork(r) ==
  /\ At(r, "launched")
  /\ \/ root = "live" /\ Goto(r, "forking") /\ UNCHANGED log
     \/ root = "canceled" /\ Goto(r, "done") /\ Write(r, "forkFailed")
  /\ UNCHANGED <<up, root, ctx, bucket, ended>>

ForkCreated(r) ==
  /\ At(r, "forking")
  /\ bucket' = [bucket EXCEPT ![r] = "present"]
  /\ Goto(r, "mounting")
  /\ UNCHANGED <<up, root, ctx, ended, log>>

AfterForkFailedGoOn == "mounting"

AfterForkFailed == "done"

\* The call fails, or is cancelled, or its reply is lost.  The fork may exist
\* all the same, and the delete is only deferred after this return.
ForkFails(r) ==
  /\ At(r, "forking")
  /\ \E b \in {"absent", "present"} : bucket' = [bucket EXCEPT ![r] = b]
  /\ Goto(r, AfterForkFailed)
  /\ Write(r, "forkFailed")
  /\ UNCHANGED <<up, root, ctx, ended>>

\* The loop starts on a context derived from root.  If root is cancelled the
\* loop returns from the top of its first turn.
MountFork(r) ==
  /\ At(r, "mounting")
  /\ \/ root = "live" /\ Goto(r, "looping") /\ UNCHANGED <<ctx, ended>>
     \/ /\ root = "canceled"
        /\ ctx' = [ctx EXCEPT ![r] = "canceled"]
        /\ ended' = [ended EXCEPT ![r] = "ctx"]
        /\ Goto(r, "returned")
  /\ UNCHANGED <<up, root, bucket, log>>

MountFails(r) ==
  /\ At(r, "mounting")
  /\ Goto(r, "deleting")
  /\ Write(r, "fsFailed")
  /\ UNCHANGED <<up, root, ctx, bucket, ended>>

\* The loop was given the context without the deadline.
DeadlineAfterLoop(r) ==
  /\ up /\ HasDeadline
  /\ phase[r] = "returned"
  /\ ctx[r] = "live"
  /\ ctx' = [ctx EXCEPT ![r] = "deadline"]
  /\ UNCHANGED <<up, root, phase, bucket, ended, log>>

\* The deadline counts until Run returns: it may also pass between the return
\* of the loop and the look at ctx.Err() that follows.
DeadlinePasses(r) ==
  /\ up /\ HasDeadline
  /\ phase[r] \in {"looping", "returned"}
  /\ ctx[r] = "live"
  /\ ctx' = [ctx EXCEPT ![r] = "deadline"]
  /\ UNCHANGED <<up, root, phase, bucket, ended, log>>

LoopReturns(r) ==
  /\ At(r, "looping")
  /\ \E e \in Endings \ {"panic"} :
       /\ e = "ctx" => ctx[r] # "live"
       /\ ended' = [ended EXCEPT ![r] = e]
  /\ Goto(r, "returned")
  /\ UNCHANGED <<up, root, ctx, bucket, log>>

\* A panic in the loop or a tool unwinds Run: nothing is logged about it, the
\* deferred delete runs, and no one recovers in this goroutine.
LoopPanics(r) ==
  /\ At(r, "looping")
  /\ ended' = [ended EXCEPT ![r] = "panic"]
  /\ Goto(r, "deleting")
  /\ UNCHANGED <<up, root, ctx, bucket, log>>

VerdictIsEnding(r) == ended[r]

VerdictOnRoot(r) ==
  IF ended[r] = "stop" THEN "completed" ELSE "failed"

\* Every error is a failure, a sentinel too; it is a timeout if the deadline
\* is what ended the context by now.
Verdict(r) ==
  IF ended[r] = "stop" THEN "completed"
  ELSE IF ctx[r] = "deadline" THEN "timedOut" ELSE "failed"

LogVerdict(r) ==
  /\ At(r, "returned")
  /\ Write(r, Verdict(r))
  /\ Goto(r, "deleting")
  /\ UNCHANGED <<up, root, ctx, bucket, ended>>

AfterDelete(r) ==
  /\ Goto(r, "done")
  /\ up' = (ended[r] # "panic")
  /\ UNCHANGED <<root, ctx, ended>>

\* deleteSessionBucket, on a context of its own that no cancellation reaches.
ForkDeleted(r) ==
  /\ At(r, "deleting")
  /\ bucket' = [bucket EXCEPT ![r] = "deleted"]
  /\ Write(r, "deleted")
  /\ AfterDelete(r)

DeleteFailsSilently(r) ==
  /\ At(r, "deleting")
  /\ bucket' \in {bucket, [bucket EXCEPT ![r] = "deleted"]}
  /\ UNCHANGED log
  /\ AfterDelete(r)

\* The delete fails, takes over a minute, or its reply is lost.  It is not
\* tried again.
DeleteFails(r) ==
  /\ At(r, "deleting")
  /\ bucket' \in {bucket, [bucket EXCEPT ![r] = "deleted"]}
  /\ Write(r, "deleteFailed")
  /\ AfterDelete(r)

Advance(r) ==
  \/ CallFork(r) \/ ForkCreated(r) \/ ForkFails(r)
  \/ MountFork(r) \/ MountFails(r)
  \/ DeadlinePasses(r) \/ LoopReturns(r) \/ LoopPanics(r) \/ LogVerdict(r)
  \/ ForkDeleted(r) \/ DeleteFails(r)

-----------------------------------------------------------------------------
(* The process around it.                                                  *)

\* Cancelling root cancels, in the same call, every context derived from it
\* that is still live.
Canceled ==
  [r \in Requests |->
     IF phase[r] \in {"looping", "returned"} /\ ctx[r] = "live"
     THEN "canceled" ELSE ctx[r]]

CancelRoot ==
  /\ up
  /\ root' = "canceled"
  /\ ctx' = Canceled
  /\ UNCHANGED <<up, phase, bucket, ended, log>>

\* The process is killed or runs out of memory.  The next life knows nothing
\* of the requests, nor of the forks, of this one.
Crash ==
  /\ up
  /\ up' = FALSE
  /\ UNCHANGED <<root, phase, ctx, bucket, ended, log>>

\* A call that was under way when the process ended is carried out after it.
LateEffect(r) ==
  /\ ~up
  /\ \/ /\ phase[r] = "forking"
        /\ bucket' = [bucket EXCEPT ![r] = "present"]
     \/ /\ phase[r] = "deleting"
        /\ bucket' = [bucket EXCEPT ![r] = "deleted"]
  /\ UNCHANGED <<up, root, phase, ctx, ended, log>>

Quiet ==
  /\ ~up \/ (InFlight = {} /\ root = "canceled")
  /\ UNCHANGED vars

Next ==
  \/ \E r \in Requests : Launch(r) \/ Advance(r) \/ LateEffect(r)
  \/ root = "live" /\ CancelRoot
  \/ Crash
  \/ Quiet

\* Run itself is never stuck and its timer fires.  The storage client gives
\* up once its context is done, which for the fork is root and for the delete
\* a minute; so does the loop of a request in Heeds (CancelledRunsReturn of
\* AgentLoop).
FairRun(r) ==
  /\ WF_vars(CallFork(r)) /\ WF_vars(MountFork(r)) /\ WF_vars(LogVerdict(r))
  /\ WF_vars(DeadlinePasses(r))
  /\ WF_vars(root = "canceled" /\ ForkFails(r))
  /\ r \in Heeds => WF_vars(ctx[r] # "live" /\ LoopReturns(r))
  /\ WF_vars(DeleteFails(r))

Spec == Init /\ [][Next]_vars

FairSpec == Spec /\ \A r \in Requests : FairRun(r)

-----------------------------------------------------------------------------
(* Properties.                                                             *)

\* From the moment the fork is created until the delete is called the fork
\* is there: no loop works on a bucket that failed to fork or was already
\* deleted, whatever is cancelled, times out, panics or is killed meanwhile.
ForkOutlivesLoop ==
  \A r \in Requests :
    phase[r] \in {"mounting", "looping", "returned"}
      \/ (phase[r] = "deleting" /\ up)
      => bucket[r] = "present"

\* A fork is never left behind in silence: one that exists is in the hands of
\* a Run that goes on to delete it, or the log of its request has an error
\* record about it, or the process ended while that Run was under way, also
\* if the fork was only made after that.  "session bucket deleted" is never
\* logged of a bucket that exists.
LeakIsLogged ==
  \A r \in Requests :
    /\ bucket[r] = "present" =>
         \/ log[r] \cap {"forkFailed", "deleteFailed"} # {}
         \/ phase[r] \in {"mounting", "looping", "returned", "deleting"}
         \/ phase[r] = "forking" /\ ~up
    /\ "deleted" \in log[r] => bucket[r] = "deleted"

\* Run "is expected to log the final result itself": a Run that did not panic
\* ends with exactly one verdict, which agrees with the way the loop ended
\* and with the first cause that ended its context, also when the deadline,
\* the drain and the return of the loop race.
VerdictIsTrue ==
  \A r \in Requests :
    /\ phase[r] = "done" /\ ended[r] # "panic"
         => \E v \in Verdicts : log[r] \cap Verdicts = {v}
    /\ "completed" \in log[r] <=>
         ended[r] = "stop" /\ phase[r] \in {"deleting", "done"}
    /\ ended[r] = "ctx" /\ phase[r] \in {"deleting", "done"}
         => ("timedOut" \in log[r] <=> ctx[r] = "deadline")
    /\ ended[r] = "ctx" /\ "failed" \in log[r] => root = "canceled"

\* Every request that was launched ends, unless the process does, once root
\* is cancelled, wherever it is; and one whose loop has started ends by its
\* deadline, if there is one, even if the model never stops.  Nothing of the
\* kind holds of a request whose fork is not made: that call has no deadline.
RunsEnd ==
  \A r \in Requests :
    \/ root = "canceled" /\ phase[r] # "idle"
    \/ HasDeadline /\ phase[r] = "looping"
    ~> phase[r] = "done" \/ ~up

-----------------------------------------------------------------------------
(* What the comments say and the code does not do.                         *)

\* "the fork is force-deleted after Run returns so nothing persists between
\* invocations": a Run leaves a fork behind only if its deletion failed.
ForkIsForceDeleted ==
  \A r \in Requests : (phase[r] = "done" /\ bucket[r] = "present")
    => "deleteFailed" \in log[r]

\* A tool returns ErrSentinelOkay when "the loop has reached a successful
\* terminal state": that is not logged as a failure.
OkayIsNoFailure ==
  \A r \in Requests : ended[r] = "okay" => "failed" \notin log[r]
=============================================================================
