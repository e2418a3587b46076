------------------------------ MODULE Startup ------------------------------
(***************************************************************************)
(* run() in cmd/webhookd/main.go up to the point where it listens, and its  *)
(* deferred calls: load the configuration, look at the environment, connect *)
(* to the MCP servers, build the runner; every one of them may end run()    *)
(* early.  What happens between listening and the return is Webhookd's.     *)
(*                                                                         *)
(* Abstracted: the file, which is unreadable, does not decode (Decode also  *)
(* refuses unknown fields), or holds one of Configs; the environment, the   *)
(* storage client and the built-in tools, which are right or wrong.         *)
(***************************************************************************)
EXTENDS McpPool, WebhookConfig

CONSTANT Configs \* the configurations that may be in the file

ASSUME StartupAssumption ==
  \A c \in Configs : /\ c.missing \subseteq Required
                     /\ c.timeout \in Int
                     /\ c.servers \in Seq(MCPServer({s.name : s \in Range(c.servers)}))
                     /\ Len(c.servers) <= MaxServers

VARIABLES
  cfg,   \* the configuration in the file
  report \* what Valid found wrong with it

vars == <<ctxDone, pc, err, specs, poolVars, adapters, cfg, report>>

\* What run()'s error is about, "none" also for a regular end.
Causes == {"none", "file", "config", "settings", "transport", "connect", "list",
           "deps", "listen"}

TypeOK ==
  /\ ctxDone \in BOOLEAN
  /\ pc \in {"load", "prepare", "connect", "list", "pooled", "serving",
             "closing", "returned"}
  /\ err \in Causes
  /\ specs \in {<< >>, cfg.servers}
  /\ PoolTypeOK
  /\ cfg \in Configs
  /\ report \in [fields : SUBSET (Required \cup {"perRequestTimeout"}),
                 servers : SUBSET (Servers \X Faults)]

NoErrors == [fields |-> {}, servers |-> {}]

Init ==
  /\ ctxDone = FALSE
  /\ pc = "load"
  /\ err = "none"
  /\ specs = << >>
  /\ PoolInit
  /\ cfg \in Configs
  /\ report = NoErrors

-----------------------------------------------------------------------------
(* run() before it listens.                                                *)

\* An early return before there is a pool: nothing is deferred but stop().
ReturnEarly(e) == err' = e /\ pc' = "returned"

\* The file cannot be read, or Decode refuses it.
LoadFails ==
  /\ pc = "load"
  /\ ReturnEarly("file")
  /\ UNCHANGED <<ctxDone, specs, poolVars, adapters, cfg, report>>

\* Load and Parse of a file that decodes.
Load ==
  /\ pc = "load"
  /\ report' = Errors(cfg)
  /\ \/ Valid(cfg) /\ pc' = "prepare" /\ UNCHANGED err
     \/ ~Valid(cfg) /\ ReturnEarly("config")
  /\ UNCHANGED <<ctxDone, specs, poolVars, adapters, cfg>>

\* OPENAI_API_KEY or WEBHOOK_SHARED_SECRET is empty, the storage client cannot
\* be built, or SelectBuiltins does not know a tool.
PrepareFails ==
  /\ pc = "prepare"
  /\ ReturnEarly("settings")
  /\ UNCHANGED <<ctxDone, specs, poolVars, adapters, cfg, report>>

\* toMCPSpecs, and into NewPool.
Prepare ==
  /\ pc = "prepare"
  /\ specs' = cfg.servers
  /\ pc' = IF cfg.servers = << >> THEN "pooled" ELSE "connect"
  /\ UNCHANGED <<ctxDone, err, poolVars, adapters, cfg, report>>

\* RunnerDeps.validate; Storage is never nil here.
DepsIncomplete == "bucket" \in cfg.missing

\* run() takes the adapters and builds the runner; Close is deferred by now.
BuildRunner ==
  /\ pc = "pooled"
  /\ adapters' = PoolTools
  /\ IF DepsIncomplete THEN err' = "deps" /\ BeginClose
                       ELSE pc' = "serving" /\ UNCHANGED <<err, closing>>
  /\ UNCHANGED <<ctxDone, specs, spec, session, closes, listed, clients, cfg,
                 report>>

\* run() returns, after SIGTERM or because listening failed.
RunReturns ==
  /\ pc = "serving"
  /\ err' = "listen" \/ (ctxDone /\ UNCHANGED err)
  /\ BeginClose
  /\ UNCHANGED <<ctxDone, specs, spec, session, closes, listed, clients,
                 adapters, cfg, report>>

Sigterm ==
  /\ ~ctxDone
  /\ ctxDone' = TRUE
  /\ UNCHANGED <<pc, err, specs, poolVars, adapters, cfg, report>>

Pool ==
  /\ \/ ConnectFails \/ Connected \/ ListFails \/ Listed \/ CloseClient
     \/ \E s \in Servers : SessionDies(s)
  /\ UNCHANGED <<cfg, report>>

Over == pc = "returned" /\ ctxDone /\ UNCHANGED vars

Next ==
  \/ LoadFails \/ Load \/ PrepareFails \/ Prepare \/ BuildRunner \/ RunReturns
  \/ Pool
  \/ Sigterm
  \/ Over

GivesUpNever == FALSE

\* Connect hands the context it was given to both calls it makes.
GivesUp == ctxDone

\* run() runs; the calls of the SDK end once their context is done, closing a
\* session ends, and run() returns after SIGTERM (SigtermEndsProcess of
\* Webhookd).
Fairness ==
  /\ WF_vars(Load) /\ WF_vars(PrepareFails \/ Prepare) /\ WF_vars(BuildRunner)
  /\ WF_vars(GivesUp /\ ConnectFails /\ UNCHANGED <<cfg, report>>)
  /\ WF_vars(GivesUp /\ ListFails /\ UNCHANGED <<cfg, report>>)
  /\ WF_vars(ctxDone /\ RunReturns)
  /\ WF_vars(CloseClient /\ UNCHANGED <<cfg, report>>)

Spec == Init /\ [][Next]_vars

FairSpec == Spec /\ Fairness

-----------------------------------------------------------------------------
(* Properties.                                                             *)

\* Valid stands between the file and the servers: nothing is connected to and
\* no tool is taken under a configuration that is not well-formed, and what
\* Valid accepts no later check refuses - neither newTransport, which looks at
\* the servers again, nor RunnerDeps.validate, which looks at the bucket.
OnlyGoodConfigConnects ==
  /\ (\E s \in Servers : session[s] # "none") \/ pc \in {"pooled", "serving"}
       => WellFormed(cfg) /\ report = NoErrors
  /\ err \notin {"transport", "deps"}

\* An operator who is refused a configuration learns of every faulty server, and
\* what is wrong with it: of one without a name, or with a name that is taken,
\* no more than that, of any other its fault, however many servers before it
\* are faulty or skipped, for their names count as taken too.  About a good
\* server nothing is said, and only a configuration with a fault is refused.
FaultsAreReported ==
  /\ err = "config" => ~WellFormed(cfg)
  /\ report # NoErrors =>
       report.servers = {e \in (DOMAIN cfg.servers) \X Faults :
                           e[2] \in Shown(FaultsOf(cfg.servers, e[1]))}

\* No session outlives the process, and none is closed twice: whatever ended
\* run(), at whichever server and call, every session that was opened has been
\* closed exactly once, although some have died and some fail to close.
NoSessionLeft ==
  pc = "returned" =>
    \A s \in Servers : /\ session[s] \in {"none", "closed"}
                       /\ session[s] = "closed" <=> closes[s] = 1
                       /\ closes[s] <= 1

\* The process only serves with all of its servers: while adapters are in use,
\* no session behind them has been closed, every configured server has one,
\* and every listed tool has exactly one adapter, in the order of the
\* configuration - also if a session died on the way.
ServesWithEveryServer ==
  pc = "serving" =>
    /\ \A s \in DOMAIN specs : /\ session[s] \in {"open", "dead"}
                               /\ \A t \in 1 .. listed[s] :
                                    \E i \in DOMAIN adapters :
                                      adapters[i] = [server |-> s, tool |-> t]
    /\ \A i, j \in DOMAIN adapters :
         i < j => \/ adapters[i].server < adapters[j].server
                  \/ /\ adapters[i].server = adapters[j].server
                     /\ adapters[i].tool < adapters[j].tool

\* SIGTERM ends the process also while it waits for a server to answer, at
\* startup, and while it closes the sessions.  That it ends the serving in
\* between is Webhookd's SigtermEndsProcess, here an assumption.
SigtermClosesAll == ctxDone ~> (pc = "returned")
=============================================================================
