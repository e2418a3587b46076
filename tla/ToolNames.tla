----------------------------- MODULE ToolNames -----------------------------
(***************************************************************************)
(* Which tool a name reaches: run() collects the selected built-in tools    *)
(* (internal/webhook/registry.go) and the adapters of the MCP servers       *)
(* (internal/mcp), in this order, and agentloop.New puts them in a map by   *)
(* the name the model sees, the later over the earlier.                     *)
(*                                                                         *)
(* A name is a sequence of characters here, because what can go wrong is    *)
(* how names are joined and sanitized; a tool is where it comes from and    *)
(* its own name there.                                                      *)
(***************************************************************************)
EXTENDS Naturals, Sequences

CONSTANTS
  Char,      \* characters
  Legal,     \* those OpenAI allows in a function name
  Underscore, \* its character "_"
  Registry,  \* the names of the built-in tools
  Wants,     \* the configured lists of built-in tools
  Offers     \* the lists of tools the configured servers may offer

Name == Seq(Char)

Offer == [server : Name, tool : Name]

ASSUME NamesAssumption ==
  /\ Underscore \in Legal
  /\ Legal \subseteq Char
  /\ Registry \subseteq Seq(Legal \ {Underscore}) \* "bash" and "python"
  /\ Wants \subseteq Seq(Name)
  /\ Offers \subseteq Seq(Offer)

VARIABLES
  pc,      \* where run(), then agentloop.New are
  want,    \* cfg.Tools
  offered, \* the tools the pool has listed, server by server
  tools,   \* the slice of tools
  next,    \* the element of the slice or of want the loop is at
  toolMap  \* i.Tools

vars == <<pc, want, offered, tools, next, toolMap>>

-----------------------------------------------------------------------------
(* Names.                                                                  *)

\* Every character OpenAI does not allow becomes an underscore.
sanitize(s) ==
  [i \in DOMAIN s |-> IF s[i] \in Legal THEN s[i] ELSE Underscore]

UnprefixedName(server, tool) == sanitize(tool)

ToolName(server, tool) ==
  sanitize(server) \o <<Underscore, Underscore>> \o sanitize(tool)

-----------------------------------------------------------------------------
(* Types.                                                                  *)

Origin == {"builtin", "mcp"}

Tool == [origin : Origin, name : Name, server : Name, tool : Name]

TypeOK ==
  /\ pc \in {"select", "pool", "new", "ready", "failed"}
  /\ want \in Seq(Name)
  /\ offered \in Seq(Offer)
  /\ tools \in Seq(Tool)
  /\ next \in Nat \ {0}
  /\ DOMAIN toolMap \subseteq Name
  /\ \A n \in DOMAIN toolMap : toolMap[n] \in Tool

Init ==
  /\ pc = "select"
  /\ want \in Wants
  /\ offered \in Offers
  /\ tools = << >>
  /\ next = 1
  /\ toolMap = << >>

-----------------------------------------------------------------------------
(* SelectBuiltins, Pool.Tools, New.                                        *)

Builtin(n) == [origin |-> "builtin", name |-> n, server |-> << >>, tool |-> n]

Adapter(o) == [origin |-> "mcp", name |-> ToolName(o.server, o.tool),
               server |-> o.server, tool |-> o.tool]

SelectBuiltin ==
  /\ pc = "select" /\ next <= Len(want)
  /\ IF want[next] \in Registry
     THEN /\ tools' = Append(tools, Builtin(want[next]))
          /\ next' = next + 1
          /\ UNCHANGED pc
     ELSE pc' = "failed" /\ UNCHANGED <<tools, next>>
  /\ UNCHANGED <<want, offered, toolMap>>

Selected ==
  /\ pc = "select" /\ next > Len(want)
  /\ pc' = "pool"
  /\ UNCHANGED <<want, offered, tools, next, toolMap>>

\* The adapters of every client follow the built-in tools.
AppendAdapters ==
  /\ pc = "pool"
  /\ tools' = tools \o [i \in DOMAIN offered |-> Adapter(offered[i])]
  /\ pc' = "new"
  /\ next' = 1
  /\ UNCHANGED <<want, offered, toolMap>>

\* toolMap[tool.Name()] = tool
Put(n, t) ==
  [m \in DOMAIN toolMap \cup {n} |-> IF m = n THEN t ELSE toolMap[m]]

Register ==
  /\ pc = "new" /\ next <= Len(tools)
  /\ toolMap' = Put(tools[next].name, tools[next])
  /\ next' = next + 1
  /\ UNCHANGED <<pc, want, offered, tools>>

Registered ==
  /\ pc = "new" /\ next > Len(tools)
  /\ pc' = "ready"
  /\ UNCHANGED <<want, offered, tools, next, toolMap>>

Over == pc \in {"ready", "failed"} /\ UNCHANGED vars

Next ==
  \/ SelectBuiltin \/ Selected \/ AppendAdapters \/ Register \/ Registered
  \/ Over

Spec == Init /\ [][Next]_vars

-----------------------------------------------------------------------------
(* Properties.                                                             *)

Reaches(t) == t.name \in DOMAIN toolMap /\ toolMap[t.name] = t

\* No MCP server can take the place of a built-in tool, whatever it and its
\* tools are called: the model's "bash" is mithras's bash.
BuiltinsReachable ==
  pc = "ready" => \A i \in DOMAIN want : Reaches(Builtin(want[i]))

\* Every name the model sees fits the OpenAI function-name charset, whatever
\* the servers call their tools.
NamesAreLegal ==
  pc = "ready" => \A n \in DOMAIN toolMap : n \in Seq(Legal)

\* Names that need no sanitizing, and have no underscore in the name of the
\* server.
Plain(o) == o.server \in Seq(Legal \ {Underscore}) /\ o.tool \in Seq(Legal)

\* Servers with plain names do not collide with each other, nor do the tools
\* of one of them: every tool they offer is called under its own name.
PlainNamesDoNotCollide ==
  (pc = "ready" /\ \A i \in DOMAIN offered : Plain(offered[i])) =>
    \A i \in DOMAIN offered : Reaches(Adapter(offered[i]))

-----------------------------------------------------------------------------
(* What the comments say and the code does not do.                         *)

\* "Names are prefixed with the server name so multiple servers can register
\* concurrently without colliding": the name of a server's tool reaches a tool
\* of that server, not one of a server with another name.
NamesDoNotCollide ==
  pc = "ready" => \A i \in DOMAIN offered :
    LET tool == Adapter(offered[i])
    IN  toolMap[tool.name].server = tool.server
=============================================================================
