------------------------- MODULE MCBashInterpreter -------------------------
(* The TLC instance of BashInterpreter: a shell of at most two commands, a  *)
(* stage and a job of at most one each.                                     *)
EXTENDS BashInterpreter

CONSTANTS stage, job

Upto(n) == UNION {[1 .. k -> Commands] : k \in 0 .. n}

MCScripts ==
  {[p \in Parts |-> IF p = Top THEN s ELSE IF p = stage THEN t ELSE j] :
     s \in Upto(2), t \in Upto(1), j \in Upto(1)}
=============================================================================
