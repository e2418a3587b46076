----------------------------- MODULE MCStartup -----------------------------
(* TLC instances of Startup: two servers that share a name, and for each    *)
(* check of Valid a server or a configuration that only this check refuses. *)
EXTENDS Startup

Srv(name, transport, url, command) ==
  [name |-> name, transport |-> transport, url |-> url, command |-> command]

Samples ==
  {Srv("a", "stdio", FALSE, TRUE), Srv("a", "streamable-http", TRUE, FALSE),
   Srv("b", "streamable-http", TRUE, FALSE), Srv("c", "sse", TRUE, FALSE),
   Srv("b", "stdio", TRUE, FALSE), Srv("c", "sse", FALSE, TRUE),
   Srv("c", "unknown", TRUE, TRUE), Srv("", "stdio", FALSE, TRUE)}

MCConfigs ==
  [missing : {{}, {"model"}, {"bucket"}}, timeout : {-1, 0},
   servers : UNION {[1 .. n -> Samples] : n \in 0 .. MaxServers}]
=============================================================================
