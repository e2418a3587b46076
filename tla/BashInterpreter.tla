--------------------------- MODULE BashInterpreter ---------------------------
(***************************************************************************)
(* internal/tools/bash and internal/codeinterpreter/bash: one call of the   *)
(* bash tool.  A script may have parts that run at the same time: the shell *)
(* itself, stages of a pipeline or subshells it waits for, and background   *)
(* jobs it does not wait for.  They share the registry that knows the       *)
(* working directory, the two output buffers and the filesystem.            *)
(*                                                                         *)
(* Abstracted: the text of the command, of which only is kept whether it is *)
(* empty, blank, not bash, or a script; what is in files and outputs.       *)
(* Names begin with Bash where PythonInterpreter has the same one.          *)
(* External: the shell, which runs the commands of a part in order, stops   *)
(* between two of them once its context is done, gives up at a command or a *)
(* redirection that ends by an error which is no exit status (of open, one  *)
(* that is no *os.PathError), waits for stages that still run, and then     *)
(* returns that error; the registered commands and the filesystem.          *)
(***************************************************************************)
EXTENDS Naturals, Sequences, FiniteSets

CONSTANTS
  Top,    \* the part whose exit status is the script's
  Stages, \* the parts it waits for
  Jobs,   \* the parts it does not wait for
  Scripts \* the scripts: for each part, a sequence of commands

Parts == {Top} \cup Stages \cup Jobs

\* Registered commands: as they are, with their input from a file, or with
\* output to a file; and the two builtins that callHandler intercepts.
Commands == {"run", "input", "output", "cd", "pwd"}

ASSUME BashAssumption ==
  /\ Top \notin Stages \cup Jobs /\ Stages \cap Jobs = {}
  /\ Scripts \subseteq [Parts -> Seq(Commands)]

VARIABLES
  command, \* what the model asked to run
  script,  \* its parts
  ctxDone, \* the call's context is done
  next,    \* the command each part is at
  status,  \* the exit status of the last command of each part
  stopped, \* what ended each part early: "broken", in the command it is at,
           \* by an error that is no exit status; "cut", between two commands
  dir,     \* the registry's pwd, one for all parts
  stdout,  \* the buffer Run made: who wrote each piece in it
  wrote,   \* history: how many pieces each part wrote to it
  files,   \* whether fsys was changed
  reply,   \* what the tool answered
  result   \* the Result in it

bashVars == <<command, script, ctxDone, next, status, stopped, dir, stdout,
              wrote, files, reply, result>>

Dirs == {"/", "/sub"}

NoResult == [exitCode |-> 0, stdout |-> << >>]

BashTypeOK ==
  /\ command \in {"empty", "blank", "garbled", "script"}
  /\ script \in [Parts -> Seq(Commands)]
  /\ ctxDone \in BOOLEAN
  /\ next \in [Parts -> Nat]
  /\ \A p \in Parts : next[p] \in 1 .. Len(script[p]) + 1
  /\ status \in [Parts -> {0, 1}]
  /\ stopped \in [Parts -> {"no", "broken", "cut"}]
  /\ dir \in Dirs
  /\ stdout \in Seq(Parts) /\ wrote \in [Parts -> Nat]
  /\ files \in {"given", "changed"}
  /\ reply \in {"none", "invalid", "error", "result"}
  /\ result \in [exitCode : {0, 1}, stdout : Seq(Parts)]

BashInit ==
  /\ command \in {"empty", "blank", "garbled", "script"}
  /\ script \in Scripts
  /\ ctxDone = FALSE
  /\ next = [p \in Parts |-> 1]
  /\ status = [p \in Parts |-> 0]
  /\ stopped = [p \in Parts |-> "no"]
  /\ dir = "/"
  /\ stdout = << >>
  /\ wrote = [p \in Parts |-> 0]
  /\ files = "given"
  /\ reply = "none"
  /\ result = NoResult

-----------------------------------------------------------------------------
(* The shell and its handlers.                                             *)

\* A part is at a command of its own: about to begin it, or in the middle.
IsAt(p, c) ==
  /\ command = "script" /\ stopped[p] = "no"
  /\ next[p] <= Len(script[p]) /\ script[p][next[p]] = c

\* Once the context is done, no part begins another command.
Reaches(p, c) == IsAt(p, c) /\ ~ctxDone

Done(p, s) ==
  /\ next' = [next EXCEPT ![p] = @ + 1]
  /\ status' = [status EXCEPT ![p] = s]
  /\ UNCHANGED <<command, script, ctxDone, stopped, reply, result>>

\* The commands of a part that write to the buffer: the output of a stage goes
\* into a pipe, but not that of its pwd.
Writes(p, c) == c = "pwd" \/ (c \in {"run", "input"} /\ p \notin Stages)

\* The buffer is not safe for concurrent use: a piece that is written while
\* another part writes may be lost.
Write(p) ==
  /\ wrote' = [wrote EXCEPT ![p] = @ + 1]
  /\ \/ stdout' = Append(stdout, p)
     \/ /\ \E q \in Parts \ {p}, c \in Commands :
             IsAt(q, c) /\ Writes(q, c)
        /\ UNCHANGED stdout

\* A registered command runs to its end, and may change files; openHandler
\* has opened the file its input comes from.
Run(p) ==
  \E c \in {"run", "input"} :
    /\ Reaches(p, c)
    /\ \E s \in {0, 1} : Done(p, s)
    /\ files' \in {files, "changed"}
    /\ IF Writes(p, c) THEN Write(p) ELSE UNCHANGED <<stdout, wrote>>
    /\ UNCHANGED dir

\* openHandler refuses every flag that could change a file, and has no file to
\* open for an input that is not there: the shell does not run a command whose
\* redirection failed.
RedirectionFails(p) ==
  \E c \in {"input", "output"} :
    /\ Reaches(p, c)
    /\ Done(p, 1)
    /\ UNCHANGED <<dir, stdout, wrote, files>>

CdUnchecked(p) ==
  /\ Reaches(p, "cd")
  /\ Done(p, 0)
  /\ dir' \in Dirs \cup {"/missing"}
  /\ UNCHANGED <<stdout, wrote, files>>

\* callHandler moves the registry and has the shell run `:` or, if there is no
\* such directory, `false`.  (Before: a cd that does not look for it.)
Cd(p) ==
  /\ Reaches(p, "cd")
  /\ \/ dir' \in Dirs /\ Done(p, 0)
     \/ UNCHANGED dir /\ Done(p, 1)
  /\ UNCHANGED <<stdout, wrote, files>>

\* callHandler prints to the buffer itself.
Pwd(p) ==
  /\ Reaches(p, "pwd")
  /\ Write(p)
  /\ Done(p, 0)
  /\ UNCHANGED <<dir, files>>

\* A registered command ends by an error that is no exit status: one of its
\* own, or that of the context, also when that is done in the middle of it.
\* What it wrote to files or printed until then stays.  With input from a file
\* this may be the error of open, before the command has begun.
Breaks(p) ==
  \E c \in {"run", "input"} :
    /\ IsAt(p, c)
    /\ stopped' = [stopped EXCEPT ![p] = "broken"]
    /\ files' \in {files, "changed"}
    /\ (Writes(p, c) /\ Write(p)) \/ UNCHANGED <<stdout, wrote>>
    /\ UNCHANGED <<command, script, ctxDone, next, status, dir, reply, result>>

\* A part does not go on to its next command: its context is done, or the
\* script has broken in a part that this one belongs to or waited for.  A job
\* is no such part: what breaks there only ends the job.
CutOff(p) ==
  /\ \E c \in Commands : IsAt(p, c)
  /\ ctxDone \/ (p \notin Jobs /\ \E q \in Parts \ Jobs : stopped[q] = "broken")
  /\ stopped' = [stopped EXCEPT ![p] = "cut"]
  /\ UNCHANGED <<command, script, ctxDone, next, status, dir, stdout, wrote,
                 files, reply, result>>

Cancel ==
  /\ ~ctxDone
  /\ ctxDone' = TRUE
  /\ UNCHANGED <<command, script, next, status, stopped, dir, stdout, wrote,
                 files, reply, result>>

-----------------------------------------------------------------------------
(* The tool.                                                               *)

\* Input.Valid only refuses the empty command; Run refuses a blank one and
\* one that does not parse.
Refuse ==
  /\ reply = "none" /\ command # "script"
  /\ reply' = IF command = "empty" THEN "invalid" ELSE "error"
  /\ UNCHANGED <<command, script, ctxDone, next, status, stopped, dir, stdout,
                 wrote, files, result>>

\* Not the stages.  (A wrong version, as ShellIsOver is one of ScriptIsOver.)
WaitedForTop == {Top}

WaitedFor == {Top} \cup Stages

Ended(p) == next[p] > Len(script[p])

\* The script ran to its end: its exit status is part of the Result.
ReturnResult ==
  /\ reply = "none" /\ command = "script"
  /\ \A p \in WaitedFor : Ended(p)
  /\ reply' = "result"
  /\ result' = [exitCode |-> status[Top], stdout |-> stdout]
  /\ UNCHANGED <<command, script, ctxDone, next, status, stopped, dir, stdout,
                 wrote, files>>

ShellIsOver == Ended(Top) \/ stopped[Top] # "no"

ScriptIsOver == \A p \in WaitedFor : Ended(p) \/ stopped[p] # "no"

\* It was stopped, and what it waits for is over too: Run sets PlatformError,
\* and the tool drops the Result with all output so far and answers with the
\* error.
ReturnError ==
  /\ reply = "none" /\ command = "script"
  /\ ScriptIsOver
  /\ \E p \in WaitedFor : stopped[p] # "no"
  /\ reply' = "error"
  /\ UNCHANGED <<command, script, ctxDone, next, status, stopped, dir, stdout,
                 wrote, files, result>>

Finished == reply # "none" /\ ctxDone /\ UNCHANGED bashVars

BashNext ==
  \/ \E p \in Parts : \/ Run(p) \/ RedirectionFails(p) \/ Cd(p) \/ Pwd(p)
                      \/ Breaks(p) \/ CutOff(p)
  \/ Cancel \/ Refuse \/ ReturnResult \/ ReturnError
  \/ Finished

BashSpec == BashInit /\ [][BashNext]_bashVars

-----------------------------------------------------------------------------
(* Properties.                                                             *)

Pieces(out, p) == Cardinality({i \in DOMAIN out : out[i] = p})

WritesIn(p) == \E i \in DOMAIN script[p] : Writes(p, script[p][i])

\* The files a command works with: it has run, or broke half-way.
Worked(p, i) ==
  /\ i \in DOMAIN script[p] /\ script[p][i] \in {"run", "input"}
  /\ i < next[p] \/ (i = next[p] /\ stopped[p] = "broken")

\* The answer tells what happened.  A Result comes from a script whose parts,
\* but for the jobs, ended by themselves; it has the shell's last status and
\* every piece they printed, unless two parts print at once.  A script only
\* ends in an error because it was cancelled or broke in a part it waits for,
\* not because of a failed cd, a refused redirection or a job.  And no file
\* has changed but by a registered command: what the shell does itself, also
\* when it is stopped half-way, changes none.
AnswerIsTrue ==
  /\ reply = "result" =>
       /\ command = "script" /\ result.exitCode = status[Top]
       /\ \A p \in {Top} \cup Stages :
            /\ next[p] = Len(script[p]) + 1
            /\ \/ Pieces(result.stdout, p) = wrote[p]
               \/ \E q \in Parts \ {p} : WritesIn(q)
  /\ reply = "error" /\ command = "script" =>
       ctxDone \/ \E p \in {Top} \cup Stages : stopped[p] = "broken"
  /\ files = "changed" => \E p \in Parts : \E i \in 1 .. next[p] : Worked(p, i)

\* After the answer only jobs go on.  The shell and what it waits for write no
\* file, print nothing and move nobody behind the model's back, and the answer
\* stays as it is; a job does all that, on the filesystem of the agent, until
\* it ends or its context does.
OnlyJobsOutliveTheCall ==
  [][reply # "none" =>
       /\ UNCHANGED <<reply, result>>
       /\ \/ UNCHANGED <<next, stopped, dir, stdout, files>>
          \/ \E j \in Jobs : \A p \in Parts \ {j} :
               next'[p] = next[p] /\ stopped'[p] = stopped[p]]_bashVars

-----------------------------------------------------------------------------
(* What the documentation says and the code does not do.                   *)

\* "Run parses script as bash and executes it": in bash, a cd moves the shell or
\* subshell it is in.  Here it moves all parts that still run.
CdMovesOnlyItself ==
  [][dir' # dir =>
       \E p \in Parts : /\ next'[p] # next[p]
                       /\ \A q \in Parts \ {p} : Ended(q) \/ stopped[q] # "no"
    ]_bashVars
=============================================================================
