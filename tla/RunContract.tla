---------------------------- MODULE RunContract ----------------------------
(***************************************************************************)
(* What agentloop.Impl.Run promises to the goroutines that call it on one   *)
(* Impl (the doc comments of Impl and of Run): calls are serialized, the    *)
(* conversation only grows, and only by messages of the call that is        *)
(* running, a call returns at most once and reports a cancellation only to  *)
(* a caller whose context is done, and a running call whose context is done *)
(* returns, if the tools it runs heed that context.  How the loop gets      *)
(* there (requests, retries, tool calls) is left to AgentLoop, which        *)
(* implements this module.                                                  *)
(***************************************************************************)
EXTENDS Sequences

CONSTANTS
  Runs,     \* the calls of Run
  NoRun,    \* no call is running
  Heeds     \* the calls whose tools stop when ctx is done

VARIABLES
  running,  \* the call that is inside Run, or NoRun
  speakers, \* the call behind each message of the conversation, in order
  ctxDone,  \* [Runs -> BOOLEAN]: the caller's context is done
  outcome   \* [Runs -> Outcomes \cup {"none"}]: how the call returned

vars == <<running, speakers, ctxDone, outcome>>

Outcomes == {"stop", "okay", "abort", "ctx", "unreachable", "panic"}

Init ==
  /\ running = NoRun
  /\ speakers = <<NoRun>>
  /\ ctxDone = [r \in Runs |-> FALSE]
  /\ outcome = [r \in Runs |-> "none"]

Start(r) ==
  /\ running = NoRun
  /\ outcome[r] = "none"
  /\ running' = r
  /\ speakers' = Append(speakers, r)
  /\ UNCHANGED <<ctxDone, outcome>>

Speak(r) ==
  /\ running = r
  /\ speakers' = Append(speakers, r)
  /\ UNCHANGED <<running, ctxDone, outcome>>

\* A call may say its last word in the step in which it returns.
Return(r) ==
  /\ running = r
  /\ running' = NoRun
  /\ speakers' \in {speakers, Append(speakers, r)}
  /\ \E o \in Outcomes :
       /\ o = "ctx" => ctxDone[r]
       /\ outcome' = [outcome EXCEPT ![r] = o]
  /\ UNCHANGED ctxDone

Cancel(r) ==
  /\ ~ctxDone[r]
  /\ ctxDone' = [ctxDone EXCEPT ![r] = TRUE]
  /\ UNCHANGED <<running, speakers, outcome>>

Next == \E r \in Runs : Start(r) \/ Speak(r) \/ Return(r) \/ Cancel(r)

Safety == Init /\ [][Next]_vars

Spec ==
  /\ Safety
  /\ \A r \in Runs : WF_vars(Start(r))
  /\ \A r \in Heeds : WF_vars(ctxDone[r] /\ Return(r))
=============================================================================
