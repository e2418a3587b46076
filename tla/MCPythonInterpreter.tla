------------------------ MODULE MCPythonInterpreter ------------------------
(* TLC instances of PythonInterpreter. *)
EXTENDS PythonInterpreter

CONSTANTS p1, p2, p3
=============================================================================
