# A TLA+ development of mithras

mithras runs AI agents behind a webhook. `webhookd` accepts a POST, starts an
agent loop for it on a private fork of a Tigris bucket, and answers 202 at once;
the agent talks to an OpenAI-compatible provider and to tools (bash, python, MCP
servers) until it is done. A Kubernetes flight renders `Agent` resources into the
objects that run webhookd. This directory models the parts of that system in which
order, concurrency, failure and shutdown matter, checks them with TLC and proves
with TLAPS every invariant and every action property that the passing runs check.

    tlc -workers 2 -config AgentLoop_turns.cfg MCAgentLoop.tla
    tlapm AgentLoopProofs.tla

`PROJECT.json` lists the runs, the source lines behind every definition, the
hazards and which property is aimed at each, the mutants that break each property,
and the theorems.

## 1. The system

| component (source) | state | operations | talks to | what is hard | what makes it correct |
|---|---|---|---|---|---|
| **webhookd daemon** `cmd/webhookd/main.go` | `ctx` (SIGTERM), `drainCtx`, the `WaitGroup`, the MCP pool, the HTTP server | load, connect, build, serve, SIGTERM, `Shutdown`, wait, force, deferred calls | front-end, launcher, pool, provider, storage | handlers that outlive `Shutdown`, early returns with sessions open, two timeouts, cancellation against the end of the last agent, defers under running agents | no agent is lost or launched behind the drain's back, none is cancelled early, SIGTERM ends the process |
| **webhook front-end** `internal/webhook/{handler,middleware}.go` | per request: recorder, bytes read, launched prompt | route, authenticate, check, read, launch, answer, recover, log | net/http, launcher | body at the limit, truncated bodies, a panic between checks and answer, launch before answer | exactly the accepted webhooks are launched; client, log and launcher agree |
| **agent runner, launcher** `internal/webhook/runner.go` | per request: fork, context, verdict; the `WaitGroup` | fork, mount, run, verdict, delete | storage, agent loop | a lost reply, deadline against cancellation against return, panics, crash | the fork is there while the loop runs; leaks are logged; the verdict is true |
| **tool registry** `internal/webhook/registry.go` | none | `SelectBuiltins` | daemon | | unknown names are refused |
| **agent loop** `internal/agentloop` | `lock`, `messages`; per call: `Result`, `failCount` | `Run`: prompt, request, retry, dispatch of tool calls, return | provider, tools, callers | concurrent calls on one conversation, retries over several turns, partial results on error, cancellation while waiting | one conversation at a time, every tool call answered before the next request, a true `Result` |
| **MCP client and pool** `internal/mcp/client.go` | sessions, `clients` | `newTransport`, `NewPool`, `Connect`, `Tools`, `Close`, `ToolName` | MCP SDK, daemon | one of several servers failing at connect, list or close; SIGTERM at startup; sessions that die; names | all servers or none, each session closed once, a name reaches one tool |
| **MCP tool adapter** `internal/mcp/tool.go` | none | `Run`, `Valid` | MCP session | | |
| **python tool** `internal/tools/python`, `internal/codeinterpreter/python` | one package-level wazero runtime; per call: a directory on the host | `Valid`, `Run` | wazero, host filesystem | concurrent calls on one instance name, programs that never end | one program at a time, nothing left behind, nobody waits for a program that does not end |
| **bash tool** `internal/tools/bash`, `internal/codeinterpreter/bash` | none between calls | `Valid`, `Run` | external shell, fsys, command registry | parts of a script that run at once on one working directory and one buffer, jobs that outlive the call, scripts stopped half-way | the answer tells what happened, only jobs go on after it, the shell writes no file |
| **Agent resource, flight** `internal/k8s/agent/v1alpha1` | Agent, credentials, ConfigMap, webhook secret, Deployment, pods | decode, look up, render, apply; edits; pods start and stop | yoke, cluster | runs that are interrupted and repeated, a secret that must not churn, pods that start at any time | pods agree on the secret, the flight leaves pods able to start, the ConfigMap follows the Agent |
| **webhook configuration** `internal/webhook/webhookconfig` | none | `Load`, `Parse`, `Valid`, defaults | daemon, flight | several places that validate, one after the other; faults that hide others | what Valid accepts nobody refuses later, every faulty server is named |
| **airway**, **storage**, **build files** | | | | | |

The path of one webhook: handler (InvokeHandler) -> `BackgroundLauncher.Launch`
(Webhookd) -> `AgentRunner.Run` (AgentRunner) -> `agentloop.Impl.Run` (AgentLoop)
-> tools (PythonInterpreter, BashInterpreter; names in ToolNames; sessions in
McpPool). Startup is what happens before the first webhook, and AgentResource how the
daemon's configuration gets to it.

## 2. The modules

| module | models | uses |
|---|---|---|
| `RunContract` | what callers of `Impl.Run` may rely on; the abstract specification of the loop | |
| `AgentLoop` | `Impl.Run`, many calls on one `Impl` | implements `RunContract` |
| `AgentRunner` | `AgentRunner.Run`, many requests in one process; the storage service | loop endings of `RunContract` |
| `Webhookd` | `run()` from listening to exit, handlers, `WaitGroup` | instances `AgentRunner` and takes its actions |
| `InvokeHandler` | one request through `Router` | its `WebhookdSteps` is the handler of `Webhookd` |
| `WebhookConfig` | `Config.Valid`, and what a good configuration is | |
| `McpPool` | `newTransport`, `Connect`, `NewPool`, `Tools`, `Close`: variables and actions | |
| `Startup` | `run()` up to the point where it listens, its early returns, the deferred `Close` | extends `McpPool` and `WebhookConfig` |
| `ToolNames` | `SelectBuiltins`, `ToolName`, `sanitize`, `New`'s tool map | |
| `PythonInterpreter` | concurrent python calls on the shared runtime | |
| `BashInterpreter` | one bash call: shell, stages and jobs at the same time | |
| `AgentResource` | user, flight, cluster and pods around one Agent | |
| `MC*` | model values for TLC | the module of that name |
| `*Proofs` | theorems and proofs | the module of that name, TLAPS |
| `InterpreterProofs` | theorems and proofs | both interpreters, TLAPS |

The definitions of `BashInterpreter` that `PythonInterpreter` has too begin with `Bash`
or have another name, so that one module can extend both.

**AgentLoop.** `lock`, `messages`, `failCount` and `result` are the variables of
the code; `pc` is the place in `Run` (`lock`, `top`, `request`, `sleep`,
`dispatch`, `done`), `nextCall` the loop over tool calls. Steps are cut where
another goroutine or the context can interfere: `Enter` takes the lock and
appends the prompt; `CheckCtx` is the `select` at the top; a request ends in
`RequestFails` or `CompletionArrives` (or panics over `Choices[0]`:
`CompletionIsEmpty`); each tool call is one of `RejectCall` (unknown tool, invalid
arguments), `ToolReplies`, `ToolStops` (sentinel or panic). A return and the
deferred `Unlock` are one step. `Result.Messages` is a slice of a history that only
grows, so it is kept as a length, and `Response` as the index of the message it was
taken from: that is what lets properties say *which* message a caller sees.

**AgentRunner.** `phase` follows `Run` through its deferred calls. `ctx` is the
context of the loop; it remembers which cause ended it first, because
`ctx.Err()` is read after the loop has returned, when the deadline may have passed
meanwhile (`DeadlinePasses` also acts in phase `returned`). `ForkFails` and
`DeleteFails` leave open whether the service carried the call out. A panic unwinds
through the delete and then ends the process (`AfterDelete`), for all requests. After
a crash, a call to the storage that was under way may still be carried out
(`LateEffect`).

**Webhookd.** The variables of AgentRunner plus `handler` (the HTTP request of each
webhook), `main` (where `run()` is), `waiter` (the goroutine in `wg.Wait`), `expired`
(the drain timeout; `Shutdown` and the wait share one), `pool`, `status`. Cancelling
`drainCtx` is AgentRunner's `CancelRoot`, the end of the process its `Crash`, and
`LateEffect` goes on after it. Time is only the order of `TimerExpires` and the rest;
the constant `DrainCoversRead` says that the drain timeout (60 s by default) is longer
than `ReadTimeout` (30 s), in which case no handler still reads a body when it expires.

**InvokeHandler.** `req` is what the client sends, including whether the body is JSON
*as read*; the recorder keeps the last status, net/http sends the first. A token and the
secret have a core and, or not, white space around it, because `bearerToken` trims the
one and nobody the other.

**Startup, McpPool, WebhookConfig.** `Load` computes `report`, the errors that
`Config.Valid` joins, with the round of its loop (`CheckServer`) folded over the
servers; `FaultsOf` and `WellFormed` say independently of that loop what is wrong with a
server and a configuration, and `Shown` what is told of it: the loop says no more of a
server than that its name is missing or taken, if it is. `NewPool` then goes through the
servers in order, where `TransportFails` looks at each again; every early return is an
action, and from `Abort`, `BuildRunner` and `RunReturns` on the pool is closed client by
client. `closes` counts calls of `session.Close`; a session may die at any time
(`SessionDies`) and nothing notices. `ctxDone` is the SIGTERM context, which is the one
the pool was built with.

**ToolNames.** The only module in which a name is a sequence of characters, because
joining and replacing characters is what can go wrong.

**PythonInterpreter.** `instance` is the one module named "python" a runtime can hold;
`guest` is how far a program got.

**BashInterpreter.** `next` is the command each part of the script is at: `Top` the
shell, `Stages` what it waits for, `Jobs` what it does not. `dir` is the registry's pwd,
one for all parts; `stdout` is the buffer in the Result and `wrote` what should be in
it. A command reads from a file or is refused one (`RedirectionFails`), and may break in
the middle of what it writes and prints (`Breaks`); then, or when the context is done,
the other parts are cut off between two commands (`CutOff`), except for jobs, which only
the context stops. The answer is taken when the shell and the stages are over; jobs go
on.

**AgentResource.** The flight reads the cluster (`LookupCreds`, `LookupSecret`),
renders, and its output is applied one resource at a time in any order; `FlightFails`
ends a run anywhere; pods read ConfigMap and secret when they start, and only then. What
a ConfigMap holds (`Config`) is made of the Agent and the credentials (`MakeConfig`); a
spec is of a `Kind` that says who refuses it: AgentSpec.Valid (`bad`), the Config.Valid
that flight and webhookd share (`negative`), `SelectBuiltins` (`unknown`), or webhookd's
YAML decoder, which is not the library the flight writes with (`unread`: whether there
is such a text is left open).

Definitions with names like `GivesUpLate` or `CancelsRootOnly` stand directly
before the definition they are a wrong version of. No action uses them; they are
the mutants that show that a property can fail.

## 3. The runs

Bounds are the constants of each `.cfg`; sizes are those of TLC's search.

| run | instance | checks | distinct states |
|---|---|---|---|
| `loop_turns` | 1 call, 2 completions, 2 tool calls each, failMax 3 | AnsweredBeforeRequest, FailureBudget, ResultIsOwnProgress | 52 247 |
| `loop_callers` | 2 calls, 1 completion, 1 tool call, failMax 2, fair | TypeOK, Serialized, CancelledRunsReturn, ImplementsContract | 117 644 |
| `runner_requests` | 2 requests, deadline on, fair | TypeOK, ForkOutlivesLoop, LeakIsLogged, VerdictIsTrue, RunsEnd | 27 890 |
| `daemon_drain` | 2 webhooks, listener failure and SIGKILL allowed, fair | NoAgentLost, LaunchedIsWaitedFor, CancelledOnlyByTimeout, RunnerSteps, SigtermEndsProcess | 718 357 |
| `startup_pool` | 3 510 configurations of up to 3 servers, 2 tools, fair | TypeOK, OnlyGoodConfigConnects, FaultsAreReported, NoSessionLeft, ServesWithEveryServer, SigtermClosesAll | 57 063 |
| `names_registration` | names of 1 or 2 characters out of a letter, `_` and an illegal one; 2 offered tools | BuiltinsReachable, PlainNamesDoNotCollide | 600 935 |
| `handler_requests` | every kind of request, two secrets, bodies of 0 to 4 bytes, limit 2, fair | OnlyAcceptedIsLaunched, AnsweredTruly, WebhookdSteps, EveryRequestEnds | 6 454 |
| `python_calls` | 3 calls, one of which may never end, fair | OneProgramAtATime, ScriptsAreRemoved, ClashesAreReal, HaltingCallsReturn | 24 199 |
| `bash_script` | 1 116 scripts of a shell, a stage and a job | BashTypeOK, AnswerIsTrue, OnlyJobsOutliveTheCall | 1 657 558 |
| `resource_edits` | 2 pods, 3 secret values, 1 edit, fair | TypeOK, PodsShareSecret, PodsStayStartable, AgentIsRendered | 211 592 |
| `loop_history`, `names_collision` | | one statement of the documentation each, which the code refutes (section 6) | |

The type invariants of Webhookd, ToolNames, InvokeHandler and PythonInterpreter, and
NamesAreLegal of ToolNames, are theorems (`TypeCorrect`, `PythonTypeCorrect`,
`NamesFit`) and not part of a run.

What they show, and why the bounds are enough:

- *loop_turns.* Two turns are the first case in which a request follows a tool turn, a
  failure of one turn meets the budget of the next, and the text of one turn can be kept
  over another. Two tool calls of three kinds give every mix and both orders; failMax 3
  allows two failures in one turn and one in the next.
- *loop_callers.* Two callers are enough for any pair of calls to overlap. The tools of
  one heed their context, those of the other need not. They have one turn each:
  everything the lock protects happens within it, and a call with more turns repeats the
  same steps. (Theorems cover any number.)
- *runner_requests, daemon_drain.* A request only sees others through the root context,
  the `WaitGroup` and the end of the process, so a second request is "all the others".
  Two also give one handler still reading while another agent runs. The run includes
  SIGTERM in every state, both branches of the final `select` when both are ready, and a
  kill at any time after SIGTERM.
- *startup_pool.* Three servers: one before, at and after the one that fails, and a
  third that is the second of its name. The eight samples of a server (MCStartup) fail
  each check of `Valid` and `newTransport` alone, two of the good ones share a name, and
  one faulty server shares its name with a good one; the fields are independent of each
  other, so one of them and the bucket, which is checked twice, stand for all.
- *names_registration.* Two characters around the separator `__` are enough for names to
  run into it from both sides; a built-in list with a double and one with an unknown
  name are included.
- *handler_requests.* One byte below, at, and one and two above the limit, read in
  pieces of any size. Requests share nothing else, so there is one.
- *python_calls.* Three calls: one that has the name, one that clashes, and one that
  comes after; the third may run forever.
- *bash_script.* Two commands of the shell, so that a part can act between them; each of
  the five kinds of commands in each part, in all combinations, each of them ending
  well, badly or not at all. A second stage or job would meet the others in the same
  way.
- *resource_edits.* One edit while a run of the flight is under way, at each of its
  steps; two pods, one old and one new; an Agent of each kind; a third secret value for
  the user's change. Credentials may change without bound.

No run switches deadlock checking off: each module has a stuttering step exactly for
the states in which it is over (`Finished`, `Quiet`, `Ended`, `Over`, `Done`), so a
state in which somebody waits for ever is reported.

### Bounds in guards

`MaxTurns` and `MaxCalls` (AgentLoop: completions a call receives, tool calls in
one), `MaxSize` (InvokeHandler: bytes a client sends), `MaxServers` and `MaxTools`
(McpPool: servers in a configuration, tools one lists), `Scripts` (BashInterpreter),
`MaxEdits` (AgentResource). Nothing in the code bounds them, except that `MaxBody`
bounds what is read of a body. A call at `MaxTurns` can only fail, be cancelled or
panic, as any call can.

### Fairness

- *AgentLoop.* Weak fairness for what the goroutine does by itself (taking a free lock,
  the check of ctx, the end of a sleep, dispatch). `sync.Mutex` hands itself to the
  longest waiter after 1 ms, so a waiter is not starved; as each call takes the lock
  once, weak fairness is enough. A request is only assumed to end once its context is
  done, and a tool call only if moreover its call is in `Heeds`: nothing in `Tool`
  (tool.go:27-31) makes a tool stop, and the python tool does not, as its runtime is not
  told to close with the context (codeinterpreter/python/python.go:29, 100).
  CancelledRunsReturn therefore says "unless such a tool goes on for ever". Nothing is
  assumed to make a context done, as the deadline is optional.
- *AgentRunner.* The storage client honours its context, the delete has a minute of its
  own, and a loop whose context is done returns if the request is in `Heeds`: that set
  names the agents whose provider and tools honour cancellation. `CancelledRunsReturn`
  of AgentLoop, with the same set, is what justifies this step. The timer of
  `context.WithTimeout` fires.
- *Webhookd.* The timeout passes; net/http ends every read and write (`ReadTimeout`,
  `WriteTimeout`); `run()` executes. Neither SIGTERM nor a kill is assumed. A new
  request may arrive while `Shutdown` polls, but not for ever.
- *Startup, InvokeHandler, PythonInterpreter.* Go code runs; a call of the SDK ends when
  its context is done, and closing a session ends; `run()` returns after SIGTERM, which
  is SigtermEndsProcess of Webhookd; `ReadTimeout` ends a read; only programs in
  `Halting` end.
- *AgentResource.* yoke runs the flight again and again. Strong fairness for the steps
  of the flight means that not every single run of it is interrupted.

## 4. What is proved

For every value of the constants that meets the named assumptions (`LoopAssumption`,
`RunnerAssumption`, `DaemonAssumption`, `PoolAssumption`, `StartupAssumption`,
`NamesAssumption`, `HandlerAssumption`, `InterpreterAssumption`, `BashAssumption`,
`ResourceAssumption`, `ConfigAssumption`): they give the shape of the constants and say
nothing about behaviour, and TLC evaluates them too. Bounds that TLC needs (`MaxTurns`,
`MaxCalls`, `MaxServers`, `MaxTools`, `MaxEdits`, `Scripts`) are constants of the
theorems as well, so these hold whatever the bound. Each strengthened invariant was
checked by TLC on a small instance before it was proved.

**AgentLoopProofs** - any set of calls, any failMax. The invariant `IInv` is
TypeOK and: a call holds the lock from its prompt to its return (`LockHeld`); the
holder spoke last (`HolderSpokeLast`); who waits has not spoken
(`WaitersAreSilent`); `Serialized`; and a call that goes on has failures left
(`BudgetLeft`). `Serialized` alone is not inductive: that a call may append
depends on nobody having spoken since its own last word, and that a new one may
start depends on its silence before. Theorems: `TypeCorrect`,
`ConversationIsSerialized`, `BudgetIsKept`, and `RefinesContract`: every step of the
loop is a start, a word, a return or a cancellation of RunContract, or a stutter
there. That ctx is only reported by a call whose ctx is done, and at most one
return per call, come with it.

What a request finds in the conversation, and what a caller is told, is a second
invariant on top (`HistoryInv`). AnsweredBeforeRequest speaks of `pc = "request"` only,
so between two requests nothing would be known: `TurnsAnswered` says that every turn of
a call but its last is answered, and `OpenTurn` how far the last one is, answer by
answer, with `nextCall` as the position - that is why it is the next answer that is
missing and not some other one. ResultIsOwnProgress is kept step by step, once it is
known that other calls append nothing meanwhile (`OthersAreOut`, from the first
invariant), what the largest of some positions is after one more (`MaxIs`), and how the
turns of a longer history begin (`TurnsAfter`). Theorems: `CallsAreAnswered`,
`ResultsAreOwn`.

**AgentRunnerProofs** - any requests. `IInv` is TypeOK and, for each request, four
parts: what may be in the log in which phase (`Recorded`), what the phase says of
the fork (`ForkKept`), what the ending and root say of the context (`CauseKept`),
and the verdict (`Judged`). The parts need each other: that the verdict names the
right cause follows only because the context keeps its first cause, and because
nothing is in the log before. A step of one request does not touch the others
(`OthersStayGood`); `CancelRoot` touches all at once. Theorems: `TypeCorrect`,
`ForkIsThere`, `NoSilentLeak`, `VerdictsAreTrue`.

**WebhookdProofs** - any webhooks. The invariant of AgentRunner carries over
(`RunnerInvariance`), as the daemon only launches, cancels and ends; that is theorem
`DaemonRunsRunner`, the daemon as an implementation of AgentRunner. `Staged` ties
`main`, `waiter`, `status` and `pool` together; `Drainable` is the key: *if the drain
timeout is longer than ReadTimeout*, then once it has passed, or once `wg.Wait` is
called, no handler is reading any more, so the counter cannot rise again. Theorems:
`NoLateLaunch`, `DrainLosesNoAgent` (both under `DrainCoversRead`),
`PoolClosesLast` (under `DrainCoversRead` and no listener failure),
`SigtermSparesAgents`, `TypeCorrect`. The two hypotheses are needed: TLC refutes the
properties without them (section 6).

**ToolNamesProofs** - any alphabet, any names of any length. `IInv` says what the slice
and the map hold after each element. The argument for `BuiltinsAreSafe` is that
the names of built-in tools have no underscore, while every name of an MCP tool has
two; for `PlainNamesAreSafe`, that the first underscore of such a name ends the
server's part, so that equal names have equal parts (`PlainNamesDiffer`); `NamesFit` is
that sanitizing yields legal characters and joining keeps them.

**InvokeHandlerProofs** - any limit, any size of body. The handlers are a sequence, so
`IInv` says for each of them what the ones before it have established (`Checked`),
that nobody has been told anything yet (`AtWork`), and, once something is launched
or answered, that it all agrees (`Launched`, `Answered`). A refusal and a passed
check are each one lemma (`RefusalIsFine`, `PassIsFine`), used for every handler.
Theorems: `TypeCorrect`, `OnlyCheckedIsLaunched`, `AnswersAreTrue`, and
`HandlerOfWebhookd`: a request takes only steps that Webhookd allows its handler.

**StartupProofs** - any number of servers and tools, any configurations. Two things are
proved. First, what the folds compute, for lists of any length: `ValidIsWellFormed`, the
loop of `Config.Valid` with its set of names seen accepts a configuration exactly if it
is good by the definition that knows no loop, and otherwise names every faulty server
with its fault, or with its missing or taken name, and no other (`ScanIsRight`); and
`PoolToolsComplete`, `Tools` returns every tool of every client once, in order. Both are
inductions over a position. The library's induction rules take an operator, which the
provers cannot instantiate, so the rule used (`Numbers`) is about the *set* of positions
at which the claim holds; it follows from the well-foundedness of < on Nat. Second, the
inductive invariant: the control state says where in the pool the connecting or closing
is (`Located`), clients are the first servers in their order (`InOrder`), each session
was opened by a client and closed as often as the closing has passed it (`Ledger`),
nothing was connected under a report with a fault (`Checked`), and who serves has every
server (`Served`). NoSessionLeft alone is not inductive: it speaks of the end, and
whether the end is good is decided by what `closing` has passed. Theorems:
`ValidIsWellFormed`, `TypeCorrect`, `GoodConfigConnects`, `EveryFaultyServerIsNamed`,
`EverySessionIsClosed`, `AllServersServe`.

**InterpreterProofs**, python - any number of calls. `Named` is the key: a program that
runs has the name "python", and the name belongs to a call that is at its program
or about to close it; `Told` and `Staged` tie the answer and the directory to the
place of each call. OneProgramAtATime alone is not inductive: it says nothing of who
holds the name. Theorems: `PythonTypeCorrect`, `ProgramsTakeTurns`, `NoScriptLeft`,
`ClashesMeetACall`.

**InterpreterProofs**, bash - any stages, jobs and scripts. AnswerIsTrue is about the
moment of the answer; before it, `Printed` says that the buffer holds what each part
printed, piece by piece, unless another part is one that writes too (`PiecesAfter` counts
the pieces of a longer buffer), and `StoppedForAReason` that only the context or a command
that broke stops a part, which is why an error is never about a failed cd or a job. What
the last conjunct says of files is kept by every command that ran or broke half-way.
OnlyJobsOutliveTheCall rests on `Settled`: once there is an answer, every part that was
waited for has ended or was stopped, and such a part has no step (`OnlyJobsAct`).
Theorems: `BashTypeCorrect`, `BashAnswersAreTrue`, `OnlyJobsGoOn`.

**AgentResourceProofs** - any pods, secrets and edits, and as many runs of the flight,
interrupted anywhere, as one likes. PodsShareSecret is not inductive: two pods agree
because each agrees with the cluster, and because a run that is under way has in hand
the secret of the cluster, if there is one (`Checked`), also when an earlier run was cut
off between its writes; `PodsHaveSecret` adds that a pod that runs shows that there is
one, so that no later run makes another. Both hold until the user changes the secret
(`touched`), as the property says. For PodsStayStartable, which is about every
single step in which part of a run is applied, `Checked` says that what waits to be applied
passed the check, although Agent and credentials may have been edited since, and that a
secret comes with it. Theorems: `TypeCorrect`, `FlightIsHarmless`, `OneSecret`.

Two type invariants were not inductive, and the proof attempts showed it: leaving an
empty pool sets `closing` to 1, which PoolTypeOK did not allow when `MaxServers = 0`,
and BashTypeOK did not say that `next` is a function on the parts. Both now do.

## 5. What is only model-checked

Liveness and fairness: CancelledRunsReturn, RunsEnd, SigtermEndsProcess,
SigtermClosesAll, EveryRequestEnds, HaltingCallsReturn, AgentIsRendered, and the
fairness part of ImplementsContract (its safety part is `RefinesContract`). The prover
handles neither ENABLED nor fairness.

## 6. Where the code differs from its documentation

Two runs end in a counterexample, as they should:

- `loop_history` (MessagesHaveToolResults): a tool answers, the context is done before the
  next completion, and the `Result` lacks the answer, though agentloop.go:130 promises
  "any tool results".
- `names_collision` (NamesDoNotCollide): differently named servers can end up with the
  same tool name (server `a` with tool `_a`, server `a_` with tool `a`), and one tool
  silently replaces the other.

The modules state more sentences of the documentation that the code does not meet.
TLC refutes each of them with the constants given here (others as in the run of the
same module):

| statement | module, constants | what happens |
|---|---|---|
| ResponseIsFinal | AgentLoop, 1 call, MaxTurns 2 | `Response` keeps the text of an earlier turn if the last message is empty |
| GivesUpAfterRetry | AgentLoop, 1 call, MaxTurns 2 | `failCount` is never reset: failures of earlier turns count against a request that is then not retried |
| CancelEndsRun | AgentLoop, 2 calls, FairSpec | a call that waits for the lock does not see that its context is done |
| ForkIsForceDeleted | AgentRunner | a fork whose creation was answered with an error is never deleted: the delete is deferred after the error return (runner.go:67 says that nothing persists) |
| OkayIsNoFailure | AgentRunner | a loop that ended by `ErrSentinelOkay` is logged as failed |
| NoAgentLost | Webhookd, DrainCoversRead = FALSE | with a drain shorter than ReadTimeout a handler launches an agent after `wg.Wait` returned |
| SessionsOutliveAgents | Webhookd, ServeMayFail = TRUE | a failed listener closes the pool under running agents |
| ForcedByCancelOnly | Webhookd, KillMayComeFirst = TRUE | the Deployment sets no grace period: SIGKILL comes after 30 s, before the drain timeout |
| SigtermEndsProcess | Webhookd, Heeds = {} | after the cancellation `run()` waits without a limit |
| TracebackIsNoPlatformError | PythonInterpreter | a program that ends by an exception sets PlatformError |
| CdMovesOnlyItself | BashInterpreter | a cd in a stage or a job moves every part that still runs (bash.go:38 "executes it" as bash) |
| AgentIsRealized | AgentResource, FairSpec | pods that run keep the configuration they started with |

## 7. What is not modelled

- *MCP adapter's Run and Valid*: one SDK call and two JSON conversions; how the call
  ends is a tool reply of AgentLoop.
- *Configuration*: the expansion of `${VAR}` in a server's env and the defaults of the
  Effective functions, which nothing in the process depends on; YAML itself, of which
  is kept that a file may not decode, also one the flight has written with another library.
- *bash*: the language, the shell's variables (`$PWD` stays `/`), reading through
  statHandler and readDirHandler; stderr, which goes the way of stdout.
- *Later pages and changes of an MCP server's tools*: the code never asks for them, so
  there is no step to model; ServesWithEveryServer speaks of the answer that was read.
- *A webhook that is sent again* because its 202 was lost: there is nothing the code
  could recognise it by, so it is one more webhook.
- *Flags, /metrics, the logger*: no state, or none that anything reads.
- *Service and Ingress*: pure functions of the Agent. *airway*: prints a constant.
- *Storage, wazero, the MCP SDK, net/http, yoke and the cluster* are external and
  modelled by how this code uses them: which of their calls may fail, what may have
  happened when they do, and what ends them.
- Lengths of names (64 characters in an OpenAI function name, 63 in a bucket name),
  and the storage of a bucket's contents.

## 8. Plan

Done, in this order: RunContract, AgentLoop; AgentRunner; Webhookd; McpPool, ToolNames,
InvokeHandler; PythonInterpreter, AgentResource; proofs for the first three and
ToolNames; WebhookConfig and Startup; BashInterpreter; the crash that storage calls
outlive; proofs for InvokeHandler and PythonInterpreter; for the history of AgentLoop,
Startup, BashInterpreter and AgentResource.

1. *Composition*: AgentLoop's endings as the `LoopReturns` of AgentRunner; Startup's
   sessions under SIGTERM inside Webhookd.
2. Lengths in ToolNames; what AgentSpec.Valid accepts, field by field, against
   WebhookConfig (refining the `Kind` of AgentResource).
