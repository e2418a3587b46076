------------------------- MODULE PythonInterpreter -------------------------
(***************************************************************************)
(* internal/tools/python and internal/codeinterpreter/python: the calls of  *)
(* the python tool that the agents of one process make, at the same time,   *)
(* on one package-level wazero runtime.                                     *)
(*                                                                         *)
(* Abstracted: the program and what it prints; the mounted filesystem; ctx, *)
(* which none of the calls into wazero heeds as the runtime is configured.  *)
(* External: the host's filesystem, and wazero, which keeps the instances   *)
(* of a runtime by name: a name in use cannot be instantiated again, and an *)
(* instance that exits by proc_exit or traps is closed before the call that *)
(* instantiated it returns.                                                 *)
(***************************************************************************)
CONSTANTS
  Calls,   \* the calls of the tool
  NoCall,  \* not a call
  Halting  \* the calls whose program ends

ASSUME InterpreterAssumption ==
  /\ NoCall \notin Calls
  /\ Halting \subseteq Calls

VARIABLES
  input,    \* the arguments the model made up
  pc,       \* where each call is
  instance, \* the call whose instance has the name "python", or NoCall
  tmpDir,   \* the host directory with the script of each call
  guest,    \* history: how far the program of each call got
  answer    \* what the tool answers

vars == <<input, pc, instance, tmpDir, guest, answer>>

-----------------------------------------------------------------------------
(* Types.                                                                  *)

Input == {"malformed", "empty", "code"}

\* platform: Result.PlatformError is set; err: the tool returns an error,
\* and the Result does not get to the model.
Answer == [platform : BOOLEAN, err : BOOLEAN]

None == [platform |-> FALSE, err |-> FALSE]

TypeOK ==
  /\ input \in [Calls -> Input]
  /\ pc \in [Calls -> {"valid", "stage", "write", "instantiate", "guest",
                       "close", "remove", "done"}]
  /\ instance \in Calls \cup {NoCall}
  /\ tmpDir \in [Calls -> {"none", "made", "removed", "stuck"}]
  /\ guest \in [Calls -> {"none", "started", "ended", "raised", "trapped",
                       "clashed"}]
  /\ answer \in [Calls -> Answer]

Init ==
  /\ input \in [Calls -> Input]
  /\ pc = [c \in Calls |-> "valid"]
  /\ instance = NoCall
  /\ tmpDir = [c \in Calls |-> "none"]
  /\ guest = [c \in Calls |-> "none"]
  /\ answer = [c \in Calls |-> None]

-----------------------------------------------------------------------------
(* Impl.Valid and Impl.Run of the tool, Run of the interpreter.             *)

At(c, label) == pc[c] = label

Goto(c, label) == pc' = [pc EXCEPT ![c] = label]

Set(f, c, v) == [f EXCEPT ![c] = v]

Fails(c, platform) ==
  answer' = Set(answer, c, [platform |-> platform, err |-> TRUE])

\* The agent loop validates the arguments before it runs the tool.
Validate(c) ==
  /\ At(c, "valid")
  /\ \/ input[c] = "code" /\ Goto(c, "stage") /\ UNCHANGED answer
     \/ input[c] # "code" /\ Goto(c, "done") /\ Fails(c, FALSE)
  /\ UNCHANGED <<input, instance, tmpDir, guest>>

MakeDir(c) ==
  /\ At(c, "stage")
  /\ \/ /\ tmpDir' = Set(tmpDir, c, "made")
        /\ Goto(c, "write")
        /\ UNCHANGED answer
     \/ Goto(c, "done") /\ Fails(c, FALSE) /\ UNCHANGED tmpDir
  /\ UNCHANGED <<input, instance, guest>>

AfterWriteFailedAtOnce == "done"

\* The removal of the directory is deferred before the script is written.
AfterWriteFailed == "remove"

WriteScript(c) ==
  /\ At(c, "write")
  /\ \/ Goto(c, "instantiate") /\ UNCHANGED answer
     \/ Goto(c, AfterWriteFailed) /\ Fails(c, FALSE)
  /\ UNCHANGED <<input, instance, tmpDir, guest>>

InstantiateUnnamed(c) ==
  /\ At(c, "instantiate")
  /\ guest' = Set(guest, c, "started")
  /\ Goto(c, "guest")
  /\ UNCHANGED <<input, instance, tmpDir, answer>>

\* InstantiateModule registers the instance and runs the program.
Instantiate(c) ==
  /\ At(c, "instantiate")
  /\ instance = NoCall
  /\ instance' = c
  /\ guest' = Set(guest, c, "started")
  /\ Goto(c, "guest")
  /\ UNCHANGED <<input, tmpDir, answer>>

NameIsWaitedFor(c) == FALSE

\* Another call's instance has the name: an error, there is no waiting.
NameTaken(c) ==
  /\ At(c, "instantiate")
  /\ instance # NoCall
  /\ guest' = Set(guest, c, "clashed")
  /\ Goto(c, "remove")
  /\ Fails(c, TRUE)
  /\ UNCHANGED <<input, instance, tmpDir>>

\* A mount cannot be opened.
InstantiateFails(c) ==
  /\ At(c, "instantiate")
  /\ Goto(c, "remove")
  /\ Fails(c, TRUE)
  /\ UNCHANGED <<input, instance, tmpDir, guest>>

\* The program ends and _start returns: the instance is still there.
GuestReturns(c) ==
  /\ At(c, "guest")
  /\ guest' = Set(guest, c, "ended")
  /\ Goto(c, "close")
  /\ UNCHANGED <<input, instance, tmpDir, answer>>

\* The program calls proc_exit(0): not an error.
GuestExits(c) ==
  /\ At(c, "guest")
  /\ guest' = Set(guest, c, "ended")
  /\ instance' = NoCall
  /\ Goto(c, "close")
  /\ UNCHANGED <<input, tmpDir, answer>>

\* The program exits with another status, as it does after the traceback of
\* an exception it does not catch, or traps: InstantiateModule returns that
\* as its error.
GuestFails(c) ==
  /\ At(c, "guest")
  /\ \E how \in {"raised", "trapped"} : guest' = Set(guest, c, how)
  /\ instance' = NoCall
  /\ Goto(c, "remove")
  /\ Fails(c, TRUE)
  /\ UNCHANGED <<input, tmpDir>>

ReleasedNever(c) == instance

\* mod.Close is no error on an instance that is already closed.
Released(c) == IF instance = c THEN NoCall ELSE instance

CloseModule(c) ==
  /\ At(c, "close")
  /\ instance' = Released(c)
  /\ Goto(c, "remove")
  /\ UNCHANGED <<input, tmpDir, guest, answer>>

\* Whether RemoveAll fails is ignored.
RemoveDir(c) ==
  /\ At(c, "remove")
  /\ \E d \in {"removed", "stuck"} : tmpDir' = Set(tmpDir, c, d)
  /\ Goto(c, "done")
  /\ UNCHANGED <<input, instance, guest, answer>>

Over ==
  /\ \A c \in Calls : pc[c] = "done" \/ (pc[c] = "guest" /\ c \notin Halting)
  /\ UNCHANGED vars

Next ==
  \/ \E c \in Calls :
       \/ Validate(c) \/ MakeDir(c) \/ WriteScript(c)
       \/ Instantiate(c) \/ NameTaken(c) \/ InstantiateFails(c)
       \/ GuestReturns(c) \/ GuestExits(c) \/ GuestFails(c)
       \/ CloseModule(c) \/ RemoveDir(c)
  \/ Over

\* Go code runs, and so do the programs, but only some of them end: nothing
\* stops the others.
Fairness ==
  \A c \in Calls :
    /\ WF_vars(Validate(c)) /\ WF_vars(MakeDir(c)) /\ WF_vars(WriteScript(c))
    /\ WF_vars(Instantiate(c) \/ NameTaken(c))
    /\ c \in Halting => WF_vars(GuestReturns(c))
    /\ WF_vars(CloseModule(c)) /\ WF_vars(RemoveDir(c))

Spec == Init /\ [][Next]_vars

FairSpec == Spec /\ Fairness

-----------------------------------------------------------------------------
(* Properties.                                                             *)

\* A call is only turned away while another call is at work: no call that has
\* returned, however it ended, keeps the name "python" from the next ones.
ClashesAreReal ==
  [][\A c \in Calls : (guest[c] # "clashed" /\ guest'[c] = "clashed") =>
       instance # NoCall /\ pc[instance] \in {"guest", "close"}]_vars

\* Each program runs by itself, and its call succeeds exactly when it ended
\* without an error: two programs never share the runtime, and the answer to
\* one call does not depend on how another call's program ends.
OneProgramAtATime ==
  /\ \A c, d \in Calls : guest[c] = "started" /\ guest[d] = "started" => c = d
  /\ \A c \in Calls : pc[c] = "done" => (~answer[c].err <=> guest[c] = "ended")

\* The script of a call that has returned is not left on the host, on no path
\* through Run, unless its removal failed.
ScriptsAreRemoved == \A c \in Calls : pc[c] = "done" => tmpDir[c] # "made"

\* A call whose program ends returns, also if the program of another call
\* runs forever: the calls do not wait for each other.
HaltingCallsReturn == \A c \in Halting : <>(pc[c] = "done")

-----------------------------------------------------------------------------
(* What the docs say and the code does not do.                             *)

\* "PlatformError is populated only when wazero itself errors (distinct from
\* Python tracebacks, which land in Stderr)".
TracebackIsNoPlatformError ==
  \A c \in Calls : guest[c] = "raised" => ~answer[c].platform
=============================================================================
