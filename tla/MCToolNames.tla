---------------------------- MODULE MCToolNames ----------------------------
(* TLC instances of ToolNames: all names of one or two characters, one of    *)
(* them a letter, one the underscore and one that OpenAI does not allow.     *)
EXTENDS ToolNames, SequencesExt

ShortNames == BoundedSeq({"a", "_", "."}, 2) \ {<< >>}

Offered == [server : ShortNames, tool : ShortNames]

\* Two built-in tools, one of them wanted twice, and one that does not exist.
MCWants ==
  {<< >>, <<<<"a">>, <<"a", "a">>>>, <<<<"a">>, <<"a">>>>,
   <<<<"a">>, <<"_">>>>}

MCRegistry == {<<"a">>, <<"a", "a">>}

MCOffers == {<< >>} \cup {<<o>> : o \in Offered}
            \cup {<<o, p>> : <<o, p>> \in
                     {op \in Offered \X Offered : op[1] # op[2]}}
=============================================================================
