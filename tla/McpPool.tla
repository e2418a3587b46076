------------------------------ MODULE McpPool ------------------------------
(***************************************************************************)
(* internal/mcp/client.go: NewPool connects to the configured MCP servers   *)
(* one after the other and lists the tools of each, Tools hands out the     *)
(* adapters of all of them, Close closes every session.  Startup calls it.  *)
(*                                                                         *)
(* Abstracted: a tool is its position in its server's list; the errors of   *)
(* Close, which are joined and logged.  External: the servers and the SDK,  *)
(* whose calls end once the context they were given is done.                *)
(***************************************************************************)
EXTENDS Naturals, Sequences, SequencesExt

CONSTANTS
  MaxServers, \* bound: servers in a configuration
  MaxTools    \* bound: tools in a server's answer to tools/list

ASSUME PoolAssumption == MaxServers \in Nat /\ MaxTools \in Nat

VARIABLES
  ctxDone,  \* SIGTERM came: the context NewPool was given is done
  pc,       \* where run(), or the call of the pool it is in, is
  err,      \* what the error is about that run() returns
  specs,    \* the servers NewPool was given
  spec,     \* the one of them it is at
  session,  \* the session with each of them
  closes,   \* history: the calls of session.Close
  listed,   \* history: how many tools each server listed
  clients,  \* p.clients: the server and the number of tools of each client
  closing,  \* the client Pool.Close is at
  adapters  \* pool.Tools(), as run() got them

poolVars == <<spec, session, closes, listed, clients, closing>>

Servers == 1 .. MaxServers

PoolTypeOK ==
  /\ spec \in 1 .. MaxServers + 1
  /\ session \in [Servers -> {"none", "open", "dead", "closed"}]
  /\ closes \in [Servers -> Nat]
  /\ listed \in [Servers -> 0 .. MaxTools]
  /\ clients \in Seq([server : Servers, tools : 0 .. MaxTools])
  /\ closing \in 0 .. MaxServers + 1
  /\ adapters \in Seq([server : Servers, tool : 1 .. MaxTools])

PoolInit ==
  /\ spec = 1
  /\ session = [s \in Servers |-> "none"]
  /\ closes = [s \in Servers |-> 0]
  /\ listed = [s \in Servers |-> 0]
  /\ clients = << >>
  /\ closing = 0
  /\ adapters = << >>

-----------------------------------------------------------------------------
(* NewPool and Connect.                                                    *)

\* newTransport's own look at the spec.
TransportFails(s) ==
  CASE s.transport = "stdio" -> ~s.command
    [] s.transport \in {"streamable-http", "sse"} -> ~s.url
    [] OTHER -> TRUE

\* Pool.Close starts at the first client; with none it is over at once.
BeginClose ==
  /\ closing' = 1
  /\ pc' = IF clients = << >> THEN "returned" ELSE "closing"

\* On to the next server, if there is one.
NextSpec ==
  /\ spec' = spec + 1
  /\ pc' = IF spec = Len(specs) THEN "pooled" ELSE "connect"

SkipFailed(e) == NextSpec /\ err' = e /\ UNCHANGED closing

\* Connect failed: NewPool closes what it has and returns the error.
Abort(e) ==
  /\ err' = e
  /\ BeginClose
  /\ UNCHANGED spec

\* newTransport or cli.Connect fails: the SDK leaves no session.
ConnectFails ==
  /\ pc = "connect"
  /\ Abort(IF TransportFails(specs[spec]) THEN "transport" ELSE "connect")
  /\ UNCHANGED <<ctxDone, specs, session, closes, listed, clients, adapters>>

Connected ==
  /\ pc = "connect" /\ ~TransportFails(specs[spec])
  /\ pc' = "list"
  /\ session' = [session EXCEPT ![spec] = "open"]
  /\ UNCHANGED <<ctxDone, err, specs, spec, closes, listed, clients, closing,
                 adapters>>

CloseSession(s) ==
  /\ session' = [session EXCEPT ![s] = "closed"]
  /\ closes' = [closes EXCEPT ![s] = @ + 1]

\* The session is not in the pool yet, so Connect closes it itself; whether
\* that fails is ignored.
ListFails ==
  /\ pc = "list"
  /\ CloseSession(spec)
  /\ Abort("list")
  /\ UNCHANGED <<ctxDone, specs, listed, clients, adapters>>

\* One tools/list request: of a server that pages its answer, the first page.
Listed ==
  /\ pc = "list" /\ session[spec] = "open"
  /\ \E n \in 0 .. MaxTools :
       /\ listed' = [listed EXCEPT ![spec] = n]
       /\ clients' = Append(clients, [server |-> spec, tools |-> n])
  /\ NextSpec
  /\ UNCHANGED <<ctxDone, err, specs, session, closes, closing, adapters>>

\* A server goes away, or the SDK ends a session with the context it was
\* opened under.  Nothing notices and nothing opens it again.
SessionDies(s) ==
  /\ session[s] = "open" /\ pc # "returned"
  /\ session' = [session EXCEPT ![s] = "dead"]
  /\ UNCHANGED <<ctxDone, pc, err, specs, spec, closes, listed, clients,
                 closing, adapters>>

-----------------------------------------------------------------------------
(* The pool in use.                                                        *)

ClientToolsFromZero(c) ==
  [i \in 1 .. c.tools |-> [server |-> c.server, tool |-> i - 1]]

ClientTools(c) ==
  [i \in 1 .. c.tools |-> [server |-> c.server, tool |-> i]]

\* Tools: the adapters of every client, in the order of the clients.
PoolTools == FlattenSeq([i \in DOMAIN clients |-> ClientTools(clients[i])])

EndsAtFailure(ok) == ~ok \/ closing = Len(clients)

EndsAtLast(ok) == closing = Len(clients)

\* Pool.Close closes one client after the other, also a dead one; a failure
\* stops nothing, and the clients are dropped when it is through.
CloseClient ==
  /\ pc = "closing"
  /\ CloseSession(clients[closing].server)
  /\ \E ok \in BOOLEAN :
       IF EndsAtLast(ok)
       THEN pc' = "returned" /\ clients' = << >> /\ UNCHANGED closing
       ELSE closing' = closing + 1 /\ UNCHANGED <<pc, clients>>
  /\ UNCHANGED <<ctxDone, err, specs, spec, listed, adapters>>
=============================================================================
