--------------------------- MODULE WebhookConfig ---------------------------
(***************************************************************************)
(* internal/webhook/webhookconfig/config.go: what Valid finds wrong with a  *)
(* decoded configuration, next to a definition of a well-formed one.        *)
(*                                                                         *)
(* Abstracted: of a text, only whether it is empty; of a server's name, only *)
(* which other servers have it; of the timeout, its sign.  Of an error, what *)
(* it is about is kept.                                                     *)
(***************************************************************************)
EXTENDS Integers, Sequences, SequencesExt

CONSTANT NoName \* the empty name of an MCP server

\* The fields Valid requires.
Required == {"agentName", "model", "providerBaseURL", "systemPrompt", "bucket"}

\* An entry of mcpServers, and the ServerSpec that toMCPSpecs makes of it.
MCPServer(Names) ==
  [name : Names \cup {NoName},
   transport : {"stdio", "streamable-http", "sse", "unknown"},
   url : BOOLEAN, command : BOOLEAN]

-----------------------------------------------------------------------------
(* Valid.                                                                  *)

OnlyStreamableNeedsUrl(srv) ==
  CASE srv.transport = "stdio" -> IF srv.command THEN {} ELSE {"command"}
    [] srv.transport = "streamable-http" -> IF srv.url THEN {} ELSE {"url"}
    [] OTHER -> IF srv.transport = "sse" THEN {} ELSE {"transport"}

\* The transport-specific check, for a server that has a name of its own.
TransportErrors(srv) ==
  CASE srv.transport = "stdio" -> IF srv.command THEN {} ELSE {"command"}
    [] srv.transport \in {"streamable-http", "sse"} ->
         IF srv.url THEN {} ELSE {"url"}
    [] OTHER -> {"transport"}

RememberGood(names, srv) ==
  IF TransportErrors(srv) = {} THEN names \cup {srv.name} ELSE names

\* A name is taken whether or not the rest of its server is right.
Remember(names, srv) == names \cup {srv.name}

\* One round of the loop over mcpServers: a server without a name, or with the
\* name of an earlier one, is not looked at any further.
CheckServer(seen, i, srv) ==
  IF srv.name = NoName THEN [seen EXCEPT !.errs = @ \cup {<<i, "name">>}]
  ELSE IF srv.name \in seen.names
       THEN [seen EXCEPT !.errs = @ \cup {<<i, "duplicate">>}]
       ELSE [names |-> Remember(seen.names, srv),
             errs |-> seen.errs \cup ({i} \X TransportErrors(srv))]

\* The errors that Valid joins: about fields, and about servers by position.
Errors(cfg) ==
  [fields |-> cfg.missing \cup
                (IF cfg.timeout < 0 THEN {"perRequestTimeout"} ELSE {}),
   servers |-> FoldLeftDomain(
                 LAMBDA seen, i : CheckServer(seen, i, cfg.servers[i]),
                 [names |-> {}, errs |-> {}], cfg.servers).errs]

Valid(cfg) == Errors(cfg) = [fields |-> {}, servers |-> {}]

-----------------------------------------------------------------------------
(* What a good configuration is.                                           *)

Faults == {"name", "duplicate", "transport", "command", "url"}

\* What is wrong with the i-th server, among the others.
FaultsOf(servers, i) ==
  LET srv == servers[i]
  IN  {f \in Faults :
         \/ f = "name" /\ srv.name = NoName
         \/ /\ f = "duplicate" /\ srv.name # NoName
            /\ \E j \in 1 .. i - 1 : servers[j].name = srv.name
         \/ f = "transport" /\ srv.transport = "unknown"
         \/ f = "command" /\ srv.transport = "stdio" /\ ~srv.command
         \/ f = "url" /\ srv.transport \in {"streamable-http", "sse"} /\ ~srv.url}

\* The faults of its identity, which hide the others.
Shown(faults) ==
  IF faults \cap {"name", "duplicate"} = {} THEN faults
  ELSE faults \cap {"name", "duplicate"}

FaultyFields(cfg) ==
  cfg.missing \cup {f \in {"perRequestTimeout"} : cfg.timeout < 0}

WellFormed(cfg) ==
  /\ FaultyFields(cfg) = {}
  /\ \A i \in DOMAIN cfg.servers : FaultsOf(cfg.servers, i) = {}
=============================================================================
