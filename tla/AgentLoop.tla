----------------------------- MODULE AgentLoop -----------------------------
(***************************************************************************)
(* internal/agentloop: one Impl, whose conversation i.messages is shared by *)
(* the concurrent calls of Impl.Run made on it.  A call takes i.lock,       *)
(* appends its prompt and then alternates completion requests with the      *)
(* tool calls the model asks for, until it returns.                         *)
(*                                                                         *)
(* Abstracted: the text of messages, prompts, arguments and results; the    *)
(* four token counters, which are summed alike, are one count of            *)
(* completions; a tool call is kept as what the loop makes of it (an        *)
(* unknown tool, invalid arguments, a call that runs).  External: the       *)
(* model, the tools, and whoever cancels the contexts.                      *)
(***************************************************************************)
EXTENDS Naturals, Sequences, FiniteSets, FiniteSetsExt

CONSTANTS
  Runs,      \* the calls of Run made on this Impl
  NoRun,     \* not a call
  Heeds,     \* the calls whose tools stop when ctx is done
  FailMax,   \* failMax: the failed requests after which a call gives up
  MaxTurns,  \* bound: completions one call receives
  MaxCalls   \* bound: tool calls in one completion

ASSUME LoopAssumption ==
  /\ NoRun \notin Runs /\ Heeds \subseteq Runs
  /\ FailMax \in Nat \ {0}
  /\ MaxTurns \in Nat
  /\ MaxCalls \in Nat

VARIABLES
  lock,      \* i.lock: the call that holds it, or NoRun
  messages,  \* i.messages
  pc,        \* where each call is in the loop
  ctxDone,   \* the call's ctx is done
  failCount, \* failCount
  retrying,  \* history: the request before this point failed
  result,    \* the Result under construction
  nextCall,  \* the tool call of the last completion to dispatch next
  outcome    \* how the call returned

vars == <<lock, messages, pc, ctxDone, failCount, retrying, result, nextCall,
          outcome>>

-----------------------------------------------------------------------------
(* Types.                                                                  *)

Calls == {"unknown", "invalid", "valid"}

CallSeqs == UNION {[1 .. n -> Calls] : n \in 0 .. MaxCalls}

\* call: the tool call a reply is about.  A tool message carries its
\* tool_call_id; for the user messages the loop writes about a call it could
\* not make, it is history only.
Message == [role : {"system", "user", "assistant", "tool"},
            run : Runs \cup {NoRun}, calls : CallSeqs, content : BOOLEAN,
            call : Nat]

Completion == [finish : {"stop", "other"}, content : BOOLEAN,
               calls : CallSeqs]

\* messages: length of the prefix of i.messages in Result.Messages (the
\* history only grows, so a slice of it is a length); response: index of the
\* message whose content is Result.Response, 0 when it is empty;
\* completions: the completions in the token sums.
Result == [messages : Nat, response : Nat, completions : Nat]

Outcomes == {"stop", "okay", "abort", "ctx", "unreachable", "panic"}

PCs == {"lock", "top", "request", "sleep", "dispatch", "done"}

TypeOK ==
  /\ lock \in Runs \cup {NoRun}
  /\ messages \in Seq(Message)
  /\ pc \in [Runs -> PCs]
  /\ ctxDone \in [Runs -> BOOLEAN]
  /\ failCount \in [Runs -> 0 .. FailMax]
  /\ retrying \in [Runs -> BOOLEAN]
  /\ result \in [Runs -> Result]
  /\ nextCall \in [Runs -> Nat]
  /\ outcome \in [Runs -> Outcomes \cup {"none"}]

-----------------------------------------------------------------------------
(* Messages.                                                               *)

SystemMessage ==
  [role |-> "system", run |-> NoRun, calls |-> << >>, content |-> TRUE,
   call |-> 0]

UserMessage(r, k) ==
  [role |-> "user", run |-> r, calls |-> << >>, content |-> TRUE, call |-> k]

ToolMessage(r, k) ==
  [role |-> "tool", run |-> r, calls |-> << >>, content |-> TRUE, call |-> k]

AssistantMessage(r, c) ==
  [role |-> "assistant", run |-> r, calls |-> c.calls, content |-> c.content,
   call |-> 0]

Goto(r, label) == pc' = [pc EXCEPT ![r] = label]

-----------------------------------------------------------------------------
(* Impl.Run.                                                               *)

Init ==
  /\ lock = NoRun
  /\ messages = <<SystemMessage>>
  /\ pc = [r \in Runs |-> "lock"]
  /\ ctxDone = [r \in Runs |-> FALSE]
  /\ failCount = [r \in Runs |-> 0]
  /\ retrying = [r \in Runs |-> FALSE]
  /\ result = [r \in Runs |-> [messages |-> 0, response |-> 0,
                               completions |-> 0]]
  /\ nextCall = [r \in Runs |-> 1]
  /\ outcome = [r \in Runs |-> "none"]

\* Every return runs the deferred Unlock.
Return(r, o) ==
  /\ Goto(r, "done")
  /\ outcome' = [outcome EXCEPT ![r] = o]
  /\ lock' = NoRun

LockIgnored(r) == lock' = r

Lock(r) ==
  /\ lock = NoRun
  /\ lock' = r

\* Run takes the lock, however long that takes and whether or not its ctx is
\* done meanwhile, and appends the prompt.
Enter(r) ==
  /\ pc[r] = "lock"
  /\ Lock(r)
  /\ messages' = Append(messages, UserMessage(r, 0))
  /\ Goto(r, "top")
  /\ UNCHANGED <<ctxDone, failCount, retrying, result, nextCall, outcome>>

CheckCtxGoesOn(r) ==
  /\ pc[r] = "top"
  /\ IF ctxDone[r] THEN UNCHANGED pc ELSE Goto(r, "request")
  /\ UNCHANGED <<lock, messages, ctxDone, failCount, retrying, result,
                 nextCall, outcome>>

\* The top of the loop looks at ctx once before it builds the request.
CheckCtx(r) ==
  /\ pc[r] = "top"
  /\ \/ ctxDone[r] /\ Return(r, "ctx")
     \/ ~ctxDone[r] /\ Goto(r, "request") /\ UNCHANGED <<lock, outcome>>
  /\ UNCHANGED <<messages, ctxDone, failCount, retrying, result, nextCall>>

GivesUpLate(n) == n > FailMax

GivesUp(n) == n = FailMax

\* A request fails: the provider's error, or ctx done while it was in flight.
\* failCount counts the failures of the whole call: nothing resets it.
RequestFails(r) ==
  /\ pc[r] = "request"
  /\ failCount' = [failCount EXCEPT ![r] = @ + 1]
  /\ \/ GivesUp(failCount[r] + 1) /\ Return(r, "unreachable")
     \/ /\ ~GivesUp(failCount[r] + 1)
        /\ Goto(r, "sleep")
        /\ UNCHANGED <<lock, outcome>>
  /\ retrying' = [retrying EXCEPT ![r] = @ \/ ~GivesUp(failCount[r] + 1)]
  /\ UNCHANGED <<messages, ctxDone, result, nextCall>>

\* time.Sleep: linear backoff, blind to ctx.
WakeUp(r) ==
  /\ pc[r] = "sleep"
  /\ Goto(r, "top")
  /\ UNCHANGED <<lock, messages, ctxDone, failCount, retrying, result,
                 nextCall, outcome>>

CountedTurn(res, c, n) ==
  [messages |-> n, response |-> IF c.content THEN n ELSE res.response,
   completions |-> 1]

\* A completion enters the Result: its tokens are added, Messages is the
\* history up to and with the assistant message (the n-th), and Response
\* changes only if the message has content.
Counted(res, c, n) ==
  [messages |-> n, response |-> IF c.content THEN n ELSE res.response,
   completions |-> res.completions + 1]

\* A completion arrives, also when ctx became done while it was in flight.
\* Only finish reason "stop" ends the loop: any other one goes on to the tool
\* calls, and to the next request if there are none.
CompletionArrives(r) ==
  /\ pc[r] = "request"
  /\ result[r].completions < MaxTurns
  /\ \E c \in Completion :
       /\ messages' = Append(messages, AssistantMessage(r, c))
       /\ result' = [result EXCEPT ![r] =
                       Counted(result[r], c, Len(messages) + 1)]
       /\ \/ c.finish = "stop" /\ Return(r, "stop")
          \/ c.finish # "stop" /\ Goto(r, "dispatch")
             /\ UNCHANGED <<lock, outcome>>
  /\ nextCall' = [nextCall EXCEPT ![r] = 1]
  /\ retrying' = [retrying EXCEPT ![r] = FALSE]
  /\ UNCHANGED <<ctxDone, failCount>>

\* A completion without choices: Choices[0] panics.  The deferred Unlock
\* runs and the Result never reaches the caller; whether the process
\* survives is up to the goroutine that called Run.
CompletionIsEmpty(r) ==
  /\ pc[r] = "request"
  /\ Return(r, "panic")
  /\ UNCHANGED <<messages, ctxDone, failCount, retrying, result, nextCall>>

\* toolCalls: those of the completion that Result.Messages ends with.
ToolCalls(r) == messages[result[r].messages].calls

Dispatching(r, kinds) ==
  /\ pc[r] = "dispatch"
  /\ nextCall[r] <= Len(ToolCalls(r))
  /\ ToolCalls(r)[nextCall[r]] \in kinds

NextCall(r) == nextCall' = [nextCall EXCEPT ![r] = @ + 1]

TellNobody(r, k) == UNCHANGED messages

TellModel(r, k) == messages' = Append(messages, UserMessage(r, k))

\* An unknown tool or invalid arguments: the model is told in a user message,
\* and the tool does not run.
RejectCall(r) ==
  /\ Dispatching(r, {"unknown", "invalid"})
  /\ TellModel(r, nextCall[r])
  /\ NextCall(r)
  /\ UNCHANGED <<lock, pc, ctxDone, failCount, retrying, result, outcome>>

\* tool.Run returns a result, or an error that is not a sentinel: either way
\* the model gets a tool message.  ctx is not looked at between calls.
ToolReplies(r) ==
  /\ Dispatching(r, {"valid"})
  /\ messages' = Append(messages, ToolMessage(r, nextCall[r]))
  /\ NextCall(r)
  /\ UNCHANGED <<lock, pc, ctxDone, failCount, retrying, result, outcome>>

\* tool.Run returns a sentinel, and Run returns it at once, or it panics: the
\* remaining calls of the turn are dropped, and no message says so.
ToolStops(r) ==
  /\ Dispatching(r, {"valid"})
  /\ \E o \in {"okay", "abort", "panic"} : Return(r, o)
  /\ UNCHANGED <<messages, ctxDone, failCount, retrying, result, nextCall>>

EndTurn(r) ==
  /\ pc[r] = "dispatch"
  /\ nextCall[r] > Len(ToolCalls(r))
  /\ Goto(r, "top")
  /\ UNCHANGED <<lock, messages, ctxDone, failCount, retrying, result,
                 nextCall, outcome>>

-----------------------------------------------------------------------------
(* The specification.                                                      *)

\* The caller's context is cancelled or its deadline passes.
Cancel(r) ==
  /\ ~ctxDone[r]
  /\ ctxDone' = [ctxDone EXCEPT ![r] = TRUE]
  /\ UNCHANGED <<lock, messages, pc, failCount, retrying, result, nextCall,
                 outcome>>

\* Every call has returned and nothing is left to happen.
Finished ==
  /\ \A r \in Runs : pc[r] = "done" /\ ctxDone[r]
  /\ UNCHANGED vars

Next ==
  \/ \E r \in Runs :
       \/ Enter(r) \/ CheckCtx(r) \/ RequestFails(r) \/ WakeUp(r)
       \/ CompletionArrives(r) \/ CompletionIsEmpty(r)
       \/ RejectCall(r) \/ ToolReplies(r) \/ ToolStops(r) \/ EndTurn(r)
       \/ Cancel(r)
  \/ Finished

\* What the loop does by itself it gets to do.  A request is only sure to end
\* once ctx is done, and nothing makes a ctx done: the runner's deadline is
\* optional (a perRequestTimeout of 0 sets none).  A tool call is not even
\* sure to end then, as the interface Tool asks nothing of it: python runs on
\* a wazero runtime that is not told to close with its context, and a loop in
\* its code goes on.  Only the tools of the calls in Heeds end with ctx.
Fairness ==
  \A r \in Runs :
    /\ WF_vars(Enter(r)) /\ WF_vars(CheckCtx(r)) /\ WF_vars(WakeUp(r))
    /\ WF_vars(RejectCall(r)) /\ WF_vars(EndTurn(r))
    /\ WF_vars(ctxDone[r] /\ RequestFails(r))
    /\ r \in Heeds =>
         WF_vars(ctxDone[r] /\ (ToolReplies(r) \/ ToolStops(r)))

Spec == Init /\ [][Next]_vars

FairSpec == Spec /\ Fairness

-----------------------------------------------------------------------------
(* Properties.                                                             *)

\* The messages of a call are consecutive: what one call says, asks and gets
\* answered is never interleaved with another call on the same Impl ("calls
\* are serialized"), although callers race for the conversation.
Serialized ==
  \A i, j, k \in DOMAIN messages :
    (i < j /\ j < k /\ messages[i].run = messages[k].run)
      => messages[j].run = messages[k].run

\* The positions of the assistant messages of call r.
Turns(r) == {i \in DOMAIN messages : /\ messages[i].role = "assistant"
                                     /\ messages[i].run = r}

\* A request is only sent when every tool call of the call's earlier turns
\* has been answered, in the order the model made them, by exactly one
\* message each: a tool message if the tool ran, a user message if not.
AnsweredBeforeRequest ==
  \A r \in Runs : pc[r] = "request" =>
    \A i \in Turns(r) : \A k \in DOMAIN messages[i].calls :
      /\ i + k \in DOMAIN messages
      /\ messages[i + k].run = r
      /\ messages[i + k].call = k
      /\ messages[i + k].role =
           IF messages[i].calls[k] = "valid" THEN "tool" ELSE "user"

\* The Result a caller gets, also with an error ("reflects progress even when
\* an error is returned"), is about its own call and complete up to the last
\* completion: every completion of the call is in the sums once, Messages
\* ends with the last one, and Response is the latest non-empty content.
ResultIsOwnProgress ==
  \A r \in Runs :
    LET spoken == {i \in Turns(r) : messages[i].content}
    IN  /\ result[r].completions = Cardinality(Turns(r))
        /\ result[r].messages = Max(Turns(r) \cup {0})
        /\ result[r].response = Max(spoken \cup {0})

\* A call fails at most FailMax requests in all, over all its turns, and it
\* reports the provider as unreachable exactly when it has.
FailureBudget ==
  \A r \in Runs :
    /\ failCount[r] <= FailMax
    /\ outcome[r] = "unreachable" <=> failCount[r] = FailMax

\* Call r is in a tool.
InTool(r) == Dispatching(r, {"valid"})

\* Once the contexts of all callers are done, every call returns, the ones
\* still waiting for the lock included: retries and sleeps do not keep a call
\* going, and nobody is left waiting - unless a tool that does not heed its
\* ctx never ends: it alone can keep its call, and all that wait behind it.
CancelledRunsReturn ==
  <>(\A r \in Runs : ctxDone[r]) =>
    \/ <>(\A r \in Runs : pc[r] = "done")
    \/ <>[](\E r \in Runs \ Heeds : InTool(r))

\* Who said what: the call behind each message.
Speakers == [i \in DOMAIN messages |-> messages[i].run]

Contract == INSTANCE RunContract WITH running <- lock, speakers <- Speakers

\* The loop implements the contract that the comments of Impl and Run state:
\* whatever it does is a start, a word, a return or a cancellation there.
ImplementsContract == Contract!Spec

-----------------------------------------------------------------------------
(* What the comments say and the code does not do.                         *)

\* Result.Messages "is the full conversation history at the point the loop
\* returned, including the model's responses and any tool results": what the
\* tools of the call answered is in the messages its caller gets.
MessagesHaveToolResults ==
  \A r \in Runs : outcome[r] \notin {"none", "panic"} =>
    \A i \in DOMAIN messages :
      (messages[i].run = r /\ messages[i].role = "tool")
        => i <= result[r].messages

\* Result.Response "is the content of the model's final assistant message,
\* if any".
ResponseIsFinal ==
  \A r \in Runs : (outcome[r] = "stop" /\ result[r].response # 0) =>
    result[r].response = Max(Turns(r))

\* "Run retries transient completion failures up to five times": a call does
\* not give up over a request that failed and was not retried.
GivesUpAfterRetry ==
  \A r \in Runs : outcome[r] = "unreachable" => retrying[r]

\* Run goes on "until the model emits a terminal response, a tool returns
\* [a sentinel], or ctx is cancelled": a call whose ctx is done returns.
CancelEndsRun == \A r \in Runs : ctxDone[r] ~> (pc[r] = "done")
=============================================================================
