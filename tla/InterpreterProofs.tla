------------------------- MODULE InterpreterProofs -------------------------
(***************************************************************************)
(* Proofs about the two interpreters the model's tools run programs in.     *)
(* PythonInterpreter, for any number of calls: its types, that programs run *)
(* one at a time, that scripts are removed, and that a call is only turned  *)
(* away while another is at work.  BashInterpreter, for any parts and any   *)
(* scripts: its types, that the answer is true, and that only jobs go on    *)
(* after it.                                                               *)
(***************************************************************************)
EXTENDS PythonInterpreter, BashInterpreter, FiniteSetTheorems, TLAPS

-----------------------------------------------------------------------------
(* The python interpreter.                                                 *)

\* How far the program of a call got, and what is answered, by its place.
Told(c) ==
  /\ pc[c] \in {"valid", "stage", "write", "instantiate"}
       => guest[c] = "none" /\ ~answer[c].err
  /\ pc[c] = "guest" => guest[c] = "started" /\ ~answer[c].err
  /\ pc[c] = "close" => guest[c] = "ended" /\ ~answer[c].err
  /\ pc[c] \in {"remove", "done"} => /\ guest[c] # "started"
                                     /\ ~answer[c].err <=> guest[c] = "ended"

\* The directory is made after "stage" and gone at the end.
Staged(c) ==
  /\ pc[c] \in {"valid", "stage"} => tmpDir[c] = "none"
  /\ pc[c] = "done" => tmpDir[c] # "made"

\* A program that runs has the name "python", and the name belongs to a call
\* that is at its program, or about to close what is left of it.
Named ==
  /\ \A c \in Calls : pc[c] = "guest" => instance = c
  /\ instance # NoCall => pc[instance] \in {"guest", "close"}

PyInv ==
  /\ TypeOK
  /\ \A c \in Calls : Told(c) /\ Staged(c)
  /\ Named

-----------------------------------------------------------------------------

\* A step of one call that changes no other call's entries keeps what is
\* known of the others (all actions).
LEMMA OthersStay ==
  ASSUME PyInv, NEW c \in Calls, TypeOK',
         \A d \in Calls \ {c} : /\ pc'[d] = pc[d] /\ guest'[d] = guest[d]
                                /\ answer'[d] = answer[d]
                                /\ tmpDir'[d] = tmpDir[d],
         Told(c)', Staged(c)', Named'
  PROVE  PyInv'
<1>1. ASSUME NEW d \in Calls PROVE Told(d)' /\ Staged(d)'
  <2>1. CASE d = c
    BY <2>1
  <2>2. CASE d # c
    BY <2>2 DEF PyInv, Told, Staged
  <2> QED BY <2>1, <2>2
<1> QED BY <1>1 DEF PyInv

\* An error is an answer.
LEMMA FailsIsTyped ==
  ASSUME TypeOK, NEW c \in Calls, NEW platform \in BOOLEAN, Fails(c, platform)
  PROVE  answer' \in [Calls -> Answer]
<1>1. [platform |-> platform, err |-> TRUE] \in Answer
  BY DEF Answer
<1> QED BY <1>1 DEF TypeOK, Fails, Set

\* A call that fails before its program has run tells so.
LEMMA FailureIsTold ==
  ASSUME PyInv, NEW c \in Calls, NEW label \in {"remove", "done"},
         NEW platform \in BOOLEAN, Goto(c, label), Fails(c, platform),
         guest'[c] \in {"none", "clashed"}
  PROVE  Told(c)'
<1>1. pc'[c] = label
  BY DEF PyInv, TypeOK, Goto
<1>2. answer'[c].err
  BY DEF PyInv, TypeOK, Fails, Set
<1> QED BY <1>1, <1>2 DEF Told

\* A step before and after a program's life does not touch the name.
LEMMA NameStays ==
  ASSUME PyInv, NEW c \in Calls, NEW label \in {"stage", "write",
         "instantiate", "remove", "done"},
         pc[c] \notin {"guest", "close"}, Goto(c, label), UNCHANGED instance
  PROVE  Named'
<1> USE InterpreterAssumption DEF PyInv, TypeOK
<1>1. ASSUME NEW d \in Calls, pc'[d] = "guest" PROVE instance' = d
  BY <1>1 DEF Goto, Named
<1>2. ASSUME instance' # NoCall PROVE pc'[instance'] \in {"guest", "close"}
  BY <1>2 DEF Goto, Named
<1> QED BY <1>1, <1>2 DEF Named

\* Whoever ends the program of the call that has the name leaves it free, or
\* at a call that closes it.
LEMMA NameIsLeft ==
  ASSUME PyInv, NEW c \in Calls, NEW label \in {"close", "remove"},
         pc[c] = "guest", Goto(c, label),
         instance' = NoCall \/ (label = "close" /\ instance' = instance)
  PROVE  Named'
<1> USE InterpreterAssumption DEF PyInv, TypeOK
<1>1. instance = c
  BY DEF Named
<1>2. \A d \in Calls : pc'[d] # "guest"
  BY <1>1 DEF Goto, Named
<1>3. instance' # NoCall => pc'[instance'] \in {"guest", "close"}
  BY <1>1 DEF Goto
<1> QED BY <1>2, <1>3 DEF Named

\* The invariant holds at first and is kept by every step.
LEMMA PyInvariance == Spec => []PyInv
<1>1. Init => PyInv
  BY InterpreterAssumption DEF Init, PyInv, TypeOK, Told, Staged, Named, None,
     Answer
<1>2. PyInv /\ [Next]_vars => PyInv'
  <2> SUFFICES ASSUME PyInv, [Next]_vars PROVE PyInv'
    OBVIOUS
  <2> USE InterpreterAssumption
  <2>1. ASSUME NEW c \in Calls, Validate(c) PROVE PyInv'
    <3>1. TypeOK'
      BY <2>1, FailsIsTyped DEF PyInv, TypeOK, Validate, At, Goto
    <3>2. Told(c)'
      <4>1. guest[c] = "none"
        BY <2>1 DEF PyInv, Validate, At, Told
      <4>2. CASE Goto(c, "done") /\ Fails(c, FALSE)
        BY <2>1, <4>1, <4>2, FailureIsTold DEF Validate
      <4>3. CASE Goto(c, "stage") /\ UNCHANGED answer
        BY <2>1, <4>3 DEF PyInv, TypeOK, Validate, At, Goto, Told
      <4> QED BY <2>1, <4>2, <4>3 DEF Validate
    <3>3. Staged(c)'
      BY <2>1 DEF PyInv, TypeOK, Validate, At, Goto, Staged
    <3>4. Named'
      BY <2>1, NameStays DEF Validate, At
    <3> QED BY <2>1, <3>1, <3>2, <3>3, <3>4, OthersStay
            DEF PyInv, TypeOK, Validate, Goto, Fails, Set
  <2>2. ASSUME NEW c \in Calls, MakeDir(c) PROVE PyInv'
    <3>1. TypeOK'
      BY <2>2, FailsIsTyped DEF PyInv, TypeOK, MakeDir, At, Goto, Set
    <3>2. Told(c)'
      <4>1. guest[c] = "none"
        BY <2>2 DEF PyInv, MakeDir, At, Told
      <4>2. CASE Goto(c, "done") /\ Fails(c, FALSE)
        BY <2>2, <4>1, <4>2, FailureIsTold DEF MakeDir
      <4>3. CASE Goto(c, "write") /\ UNCHANGED answer
        BY <2>2, <4>3 DEF PyInv, TypeOK, MakeDir, At, Goto, Told
      <4> QED BY <2>2, <4>2, <4>3 DEF MakeDir
    <3>3. Staged(c)'
      BY <2>2 DEF PyInv, TypeOK, MakeDir, At, Goto, Set, Staged
    <3>4. Named'
      BY <2>2, NameStays DEF MakeDir, At
    <3> QED BY <2>2, <3>1, <3>2, <3>3, <3>4, OthersStay
            DEF PyInv, TypeOK, MakeDir, Goto, Fails, Set
  <2>3. ASSUME NEW c \in Calls, WriteScript(c) PROVE PyInv'
    <3>1. TypeOK'
      BY <2>3, FailsIsTyped
         DEF PyInv, TypeOK, WriteScript, AfterWriteFailed, At, Goto
    <3>2. Told(c)'
      <4>1. guest[c] = "none"
        BY <2>3 DEF PyInv, WriteScript, At, Told
      <4>2. CASE Goto(c, "remove") /\ Fails(c, FALSE)
        BY <2>3, <4>1, <4>2, FailureIsTold DEF WriteScript
      <4>3. CASE Goto(c, "instantiate") /\ UNCHANGED answer
        BY <2>3, <4>3 DEF PyInv, TypeOK, WriteScript, At, Goto, Told
      <4> QED BY <2>3, <4>2, <4>3 DEF WriteScript, AfterWriteFailed
    <3>3. Staged(c)'
      BY <2>3 DEF PyInv, TypeOK, WriteScript, AfterWriteFailed, At, Goto, Staged
    <3>4. Named'
      BY <2>3, NameStays DEF WriteScript, AfterWriteFailed, At
    <3> QED BY <2>3, <3>1, <3>2, <3>3, <3>4, OthersStay
            DEF PyInv, TypeOK, WriteScript, Goto, Fails, Set
  <2>4. ASSUME NEW c \in Calls, Instantiate(c) PROVE PyInv'
    <3>1. TypeOK'
      BY <2>4 DEF PyInv, TypeOK, Instantiate, At, Goto, Set
    <3>2. Told(c)' /\ Staged(c)'
      BY <2>4 DEF PyInv, TypeOK, Instantiate, At, Goto, Set, Told, Staged
    <3>3. Named'
      BY <2>4 DEF PyInv, TypeOK, Instantiate, At, Goto, Named
    <3> QED BY <2>4, <3>1, <3>2, <3>3, OthersStay
            DEF PyInv, TypeOK, Instantiate, Goto, Set
  <2>5. ASSUME NEW c \in Calls, NameTaken(c) \/ InstantiateFails(c)
        PROVE  PyInv'
    <3>1. TypeOK'
      BY <2>5, FailsIsTyped
         DEF PyInv, TypeOK, NameTaken, InstantiateFails, At, Goto, Set
    <3>2. Told(c)'
      <4>1. guest'[c] \in {"none", "clashed"}
        BY <2>5 DEF PyInv, TypeOK, NameTaken, InstantiateFails, At, Set, Told
      <4> QED BY <2>5, <4>1, FailureIsTold DEF NameTaken, InstantiateFails
    <3>3. Staged(c)'
      BY <2>5 DEF PyInv, TypeOK, NameTaken, InstantiateFails, At, Goto, Staged
    <3>4. Named'
      BY <2>5, NameStays DEF NameTaken, InstantiateFails, At
    <3> QED BY <2>5, <3>1, <3>2, <3>3, <3>4, OthersStay
            DEF PyInv, TypeOK, NameTaken, InstantiateFails, Goto, Fails, Set
  <2>6. ASSUME NEW c \in Calls, GuestReturns(c) \/ GuestExits(c) PROVE PyInv'
    <3>1. TypeOK'
      BY <2>6 DEF PyInv, TypeOK, GuestReturns, GuestExits, At, Goto, Set
    <3>2. Told(c)' /\ Staged(c)'
      BY <2>6 DEF PyInv, TypeOK, GuestReturns, GuestExits, At, Goto, Set, Told,
                  Staged
    <3>3. Named'
      BY <2>6, NameIsLeft DEF GuestReturns, GuestExits, At
    <3> QED BY <2>6, <3>1, <3>2, <3>3, OthersStay
            DEF PyInv, TypeOK, GuestReturns, GuestExits, Goto, Set
  <2>7. ASSUME NEW c \in Calls, GuestFails(c) PROVE PyInv'
    <3>1. TypeOK'
      BY <2>7, FailsIsTyped DEF PyInv, TypeOK, GuestFails, At, Goto, Set
    <3>2. Told(c)' /\ Staged(c)'
      BY <2>7 DEF PyInv, TypeOK, GuestFails, At, Goto, Fails, Set, Told, Staged
    <3>3. Named'
      BY <2>7, NameIsLeft DEF GuestFails, At
    <3> QED BY <2>7, <3>1, <3>2, <3>3, OthersStay
            DEF PyInv, TypeOK, GuestFails, Goto, Fails, Set
  <2>8. ASSUME NEW c \in Calls, CloseModule(c) PROVE PyInv'
    <3>1. TypeOK'
      BY <2>8 DEF PyInv, TypeOK, CloseModule, Released, At, Goto
    <3>2. Told(c)' /\ Staged(c)'
      BY <2>8 DEF PyInv, TypeOK, CloseModule, At, Goto, Told, Staged
    <3>3. Named'
      BY <2>8 DEF PyInv, TypeOK, CloseModule, Released, At, Goto, Named
    <3> QED BY <2>8, <3>1, <3>2, <3>3, OthersStay
            DEF PyInv, TypeOK, CloseModule, Goto
  <2>9. ASSUME NEW c \in Calls, RemoveDir(c) PROVE PyInv'
    <3>1. TypeOK'
      BY <2>9 DEF PyInv, TypeOK, RemoveDir, At, Goto, Set
    <3>2. Told(c)' /\ Staged(c)'
      BY <2>9 DEF PyInv, TypeOK, RemoveDir, At, Goto, Set, Told, Staged
    <3>3. Named'
      BY <2>9, NameStays DEF RemoveDir, At
    <3> QED BY <2>9, <3>1, <3>2, <3>3, OthersStay
            DEF PyInv, TypeOK, RemoveDir, Goto, Set
  <2>10. CASE UNCHANGED vars
    BY <2>10 DEF PyInv, vars, TypeOK, Told, Staged, Named
  <2> QED BY <2>1, <2>2, <2>3, <2>4, <2>5, <2>6, <2>7, <2>8, <2>9, <2>10
          DEF Next, Over
<1> QED BY <1>1, <1>2, PTL DEF Spec

-----------------------------------------------------------------------------

\* The state of the interpreter is well typed for any calls.
THEOREM PythonTypeCorrect == Spec => []TypeOK
<1>1. PyInv => TypeOK
  BY DEF PyInv
<1> QED BY <1>1, PyInvariance, PTL

\* However many agents call python at once, one program runs at a time, and
\* each call's answer is about its own program.
THEOREM ProgramsTakeTurns == Spec => []OneProgramAtATime
<1>1. PyInv => OneProgramAtATime
  <2> SUFFICES ASSUME PyInv PROVE OneProgramAtATime
    OBVIOUS
  <2>1. ASSUME NEW c \in Calls, guest[c] = "started" PROVE instance = c
    <3>1. pc[c] = "guest"
      BY <2>1 DEF PyInv, TypeOK, Told
    <3> QED BY <3>1 DEF PyInv, Named
  <2>2. ASSUME NEW c \in Calls, pc[c] = "done"
        PROVE  ~answer[c].err <=> guest[c] = "ended"
    BY <2>2 DEF PyInv, Told
  <2> QED BY <2>1, <2>2 DEF OneProgramAtATime
<1> QED BY <1>1, PyInvariance, PTL

\* No path through Run leaves a script behind without trying to remove it.
THEOREM NoScriptLeft == Spec => []ScriptsAreRemoved
<1>1. PyInv => ScriptsAreRemoved
  BY DEF PyInv, Staged, ScriptsAreRemoved
<1> QED BY <1>1, PyInvariance, PTL

\* Only a call that is still at work can turn another one away: the name is
\* free again when the call that took it has returned.
THEOREM ClashesMeetACall == Spec => ClashesAreReal
<1> DEFINE Clash(c) ==
      (guest[c] # "clashed" /\ guest'[c] = "clashed")
        => instance # NoCall /\ pc[instance] \in {"guest", "close"}
<1>1. PyInv /\ [Next]_vars => [\A c \in Calls : Clash(c)]_vars
  <2> SUFFICES ASSUME PyInv, Next, NEW c \in Calls, guest[c] # "clashed",
                      guest'[c] = "clashed"
               PROVE  instance # NoCall
    BY DEF PyInv, Named
  <2>1. PICK d \in Calls : guest' = guest \/ NameTaken(d)
                             \/ \E g \in {"started", "ended", "raised",
                                          "trapped"} : guest' = Set(guest, d, g)
    BY DEF Next, Over, vars, Validate, MakeDir, WriteScript, Instantiate,
           InstantiateFails, GuestReturns, GuestExits, GuestFails, CloseModule,
           RemoveDir
  <2> QED BY <2>1 DEF NameTaken, PyInv, TypeOK, Set
<1> QED BY <1>1, PyInvariance, PTL DEF Spec, ClashesAreReal

-----------------------------------------------------------------------------
(* The bash interpreter: one call of the tool, with any parts and any       *)
(* scripts.                                                                *)

\* What a part printed is in the buffer, unless another one writes to it too.
Printed ==
  \A p \in Parts :
    \/ Pieces(stdout, p) = wrote[p]
    \/ \E q \in Parts \ {p} : WritesIn(q)

\* Once there is an answer, the shell and what it waits for are over.
Settled ==
  reply # "none" /\ command = "script" =>
    \A p \in {Top} \cup Stages : Ended(p) \/ stopped[p] # "no"

\* What makes the tool answer with an error.
Interrupted ==
  ctxDone \/ \E p \in {Top} \cup Stages : stopped[p] = "broken"

\* The shell and what it waits for are only stopped by an interruption.
StoppedForAReason ==
  \A p \in {Top} \cup Stages : stopped[p] # "no" => Interrupted

BashInv ==
  BashTypeOK /\ Printed /\ AnswerIsTrue /\ Settled /\ StoppedForAReason

\* The pieces of one part in a buffer, and in one that has a piece more.
LEMMA PiecesAfter ==
  ASSUME NEW S, NEW s \in Seq(S), NEW p \in S, NEW q
  PROVE  /\ Pieces(s, q) \in Nat
         /\ p = q => Pieces(Append(s, p), q) = Pieces(s, q) + 1
         /\ p # q => Pieces(Append(s, p), q) = Pieces(s, q)
<1> DEFINE n == Len(s)
           t == Append(s, p)
           In(out) == {i \in DOMAIN out : out[i] = q}
<1>1. /\ n \in Nat /\ DOMAIN s = 1 .. n /\ DOMAIN t = 1 .. n + 1
      /\ t[n + 1] = p /\ \A i \in 1 .. n : t[i] = s[i]
  OBVIOUS
<1>2. IsFiniteSet(In(s)) /\ n + 1 \notin In(s)
  <2>1. IsFiniteSet(1 .. n) /\ In(s) \subseteq 1 .. n
    BY <1>1, FS_Interval
  <2> QED
    BY <1>1, <2>1, FS_Subset
<1>3. 1 .. n + 1 = 1 .. n \cup {n + 1}
  BY <1>1
<1> HIDE DEF n, t
<1>4. Cardinality(In(s)) \in Nat
  BY <1>2, FS_CardinalityType
<1>5. CASE p = q
  <2>1. In(t) = In(s) \cup {n + 1}
    BY <1>1, <1>3, <1>5
  <2>2. Cardinality(In(t)) = Cardinality(In(s)) + 1
    BY <1>2, <2>1, FS_AddElement
  <2> QED
    BY <1>4, <1>5, <2>2 DEF Pieces, t
<1>6. CASE p # q
  <2>1. In(t) = In(s)
    BY <1>1, <1>3, <1>6
  <2> QED
    BY <1>4, <1>6, <2>1 DEF Pieces, t
<1> QED
  BY <1>5, <1>6

\* A part that is not waited for is none of those that are.
LEMMA Split ==
         /\ {Top} \cup Stages \subseteq Parts
         /\ Jobs \subseteq Parts
         /\ \A p \in {Top} \cup Stages : p \notin Jobs
         /\ \A p \in Parts : p \in Jobs \/ p \in {Top} \cup Stages
         /\ Scripts \subseteq [Parts -> Seq(Commands)]
  BY BashAssumption DEF Parts

\* A call starts in the root directory with an empty buffer.
LEMMA BashStarts ==
  ASSUME BashInit
  PROVE  BashInv
<1>1. script \in [Parts -> Seq(Commands)]
  BY Split DEF BashInit
<1>2. \A p \in Parts : 1 \in 1 .. Len(script[p]) + 1
  <2> TAKE p \in Parts
  <2>1. Len(script[p]) \in Nat
    BY <1>1
  <2> QED
    BY <2>1
<1>3. BashTypeOK
  <2>1. << >> \in Seq(Parts)
    OBVIOUS
  <2>2. result \in [exitCode : {0, 1}, stdout : Seq(Parts)]
    BY <2>1 DEF BashInit, NoResult
  <2> QED
    BY <1>1, <1>2, <2>1, <2>2 DEF BashInit, BashTypeOK, Dirs
<1>4. Printed
  <2>1. \A p : Pieces(<< >>, p) = 0
    <3> TAKE p
    <3>1. {i \in DOMAIN << >> : << >>[i] = p} = {}
      OBVIOUS
    <3> QED
      BY <3>1, FS_EmptySet DEF Pieces
  <2> QED
    BY <2>1 DEF BashInit, Printed
<1>5. AnswerIsTrue /\ Settled /\ StoppedForAReason
  BY Split DEF BashInit, AnswerIsTrue, Settled, StoppedForAReason
<1> QED
  BY <1>3, <1>4, <1>5 DEF BashInv

\* Writing a piece: it is in the buffer, or somebody else was writing.
LEMMA WriteStep ==
  ASSUME BashInv, NEW p \in Parts, Write(p), UNCHANGED script
  PROVE  /\ stdout' \in Seq(Parts) /\ wrote' \in [Parts -> Nat]
         /\ wrote' = [wrote EXCEPT ![p] = wrote[p] + 1]
         /\ Printed'
<1>1. /\ stdout \in Seq(Parts) /\ wrote \in [Parts -> Nat]
      /\ wrote' = [wrote EXCEPT ![p] = wrote[p] + 1]
  BY DEF BashInv, BashTypeOK, Write
<1>2. \A q \in Parts : WritesIn(q)' <=> WritesIn(q)
  BY DEF WritesIn
<1>3. CASE stdout' = Append(stdout, p)
  <2>1. ASSUME NEW q \in Parts, Pieces(stdout, q) = wrote[q]
        PROVE  Pieces(stdout', q) = wrote'[q]
    <3>1. CASE p = q
      BY <1>1, <1>3, <2>1, <3>1, PiecesAfter
    <3>2. CASE p # q
      BY <1>1, <1>3, <2>1, <3>2, PiecesAfter
    <3> QED
      BY <3>1, <3>2
  <2>2. Printed'
    BY <1>2, <2>1 DEF BashInv, Printed
  <2> QED
    BY <1>1, <1>3, <2>2
<1>4. ASSUME NEW r \in Parts \ {p}, NEW c \in Commands,
             IsAt(r, c), Writes(r, c), UNCHANGED stdout
      PROVE  Printed'
  <2>1. WritesIn(r)
    <3>1. next[r] \in DOMAIN script[r] /\ script[r][next[r]] = c
      BY <1>4 DEF IsAt, BashInv, BashTypeOK
    <3> QED
      BY <1>4, <3>1 DEF WritesIn
  <2>2. ASSUME NEW q \in Parts, q # p,
               Pieces(stdout, q) = wrote[q]
        PROVE  Pieces(stdout', q) = wrote'[q]
    BY <1>1, <1>4, <2>2
  <2>3. ASSUME NEW q \in Parts
        PROVE  \/ Pieces(stdout', q) = wrote'[q]
               \/ \E z \in Parts \ {q} : WritesIn(z)
    <3>1. CASE q = p
      BY <2>1, <3>1
    <3>2. CASE q # p
      BY <2>2, <3>2 DEF BashInv, Printed
    <3> QED
      BY <3>1, <3>2
  <2> QED
    BY <1>2, <2>3 DEF Printed
<1> QED
  BY <1>1, <1>3, <1>4 DEF Write

\* A part that still acts after the answer is a job.
LEMMA OnlyJobsAct ==
  ASSUME BashInv, NEW p \in Parts, NEW c, IsAt(p, c), reply # "none"
  PROVE  p \in Jobs /\ p \notin {Top} \cup Stages
<1>1. script[p] \in Seq(Commands) /\ next[p] \in Nat
  BY DEF BashInv, BashTypeOK
<1>2. Len(script[p]) \in Nat
  BY <1>1
<1>3. command = "script" /\ stopped[p] = "no" /\ ~Ended(p)
  BY <1>1, <1>2 DEF IsAt, Ended
<1>4. p \notin {Top} \cup Stages
  BY <1>3 DEF BashInv, Settled
<1> QED
  BY <1>4, Split

\* A step of one part, at its command c: it goes on to the next one, or it is
\* stopped.  What the commands do differs in the rest only.
LEMMA PartStep ==
  ASSUME BashInv, NEW p \in Parts,
         NEW c \in Commands, IsAt(p, c),
         NEW n \in {next[p], next[p] + 1}, NEW s \in {0, 1},
         NEW h \in {"no", "broken", "cut"},
         h = "cut" => p \in Jobs \/ Interrupted,
         next' = [next EXCEPT ![p] = n],
         status' = [status EXCEPT ![p] = s],
         stopped' = [stopped EXCEPT ![p] = h],
         Write(p) \/ UNCHANGED <<stdout, wrote>>,
         dir' \in Dirs,
         \/ files' = files
         \/ /\ files' = "changed" /\ c \in {"run", "input"}
            /\ n = next[p] + 1 \/ h = "broken",
         UNCHANGED <<command, script, ctxDone, reply, result>>
  PROVE  BashInv'
<1>1. /\ command = "script" /\ stopped[p] = "no"
      /\ next[p] <= Len(script[p]) /\ script[p][next[p]] = c
  BY DEF IsAt
<1>2. /\ next \in [Parts -> Nat] /\ status \in [Parts -> {0, 1}]
      /\ stopped \in [Parts -> {"no", "broken", "cut"}]
      /\ stdout \in Seq(Parts) /\ wrote \in [Parts -> Nat]
      /\ \A q \in Parts : next[q] \in 1 .. Len(script[q]) + 1
  BY DEF BashInv, BashTypeOK
<1>3. script[p] \in Seq(Commands) /\ Len(script[p]) \in Nat
  BY DEF BashInv, BashTypeOK
<1>4. /\ next' \in [Parts -> Nat] /\ next'[p] = n
      /\ status' \in [Parts -> {0, 1}]
      /\ stopped' \in [Parts -> {"no", "broken", "cut"}] /\ stopped'[p] = h
      /\ \A q \in Parts : q # p => /\ next'[q] = next[q]
                                   /\ status'[q] = status[q]
                                   /\ stopped'[q] = stopped[q]
  BY <1>2
<1>5. /\ stdout' \in Seq(Parts) /\ wrote' \in [Parts -> Nat]
      /\ \A q \in Parts : q # p => wrote'[q] = wrote[q]
      /\ Printed'
  <2>1. CASE Write(p)
    BY <1>2, <2>1, WriteStep
  <2>2. CASE UNCHANGED <<stdout, wrote>>
    BY <1>2, <2>2 DEF BashInv, Printed, WritesIn
  <2> QED
    BY <2>1, <2>2
<1>6. BashTypeOK'
  <2>1. \A q \in Parts : next'[q] \in 1 .. Len(script'[q]) + 1
    <3> TAKE q \in Parts
    <3>1. CASE q = p
      BY <1>1, <1>2, <1>3, <1>4, <3>1
    <3>2. CASE q # p
      BY <1>2, <1>4, <3>2
    <3> QED
      BY <3>1, <3>2
  <2> QED
    BY <1>4, <1>5, <2>1 DEF BashInv, BashTypeOK
<1>7. ASSUME NEW q \in Parts, reply # "none", q \in {Top} \cup Stages
      PROVE  q # p
  BY <1>7, OnlyJobsAct
<1>8. Settled'
  BY <1>4, <1>7, Split DEF BashInv, Settled, Ended
<1>9. AnswerIsTrue'
  <2>1. ASSUME reply' = "result"
        PROVE  /\ command' = "script" /\ result'.exitCode = status'[Top]
               /\ \A q \in {Top} \cup Stages :
                    /\ next'[q] = Len(script'[q]) + 1
                    /\ \/ Pieces(result'.stdout, q) = wrote'[q]
                       \/ \E z \in Parts \ {q} : WritesIn(z)'
    <3>1. \A q \in {Top} \cup Stages : q # p /\ q \in Parts
      BY <1>7, <2>1, Split
    <3>2. /\ result.exitCode = status[Top]
          /\ \A q \in {Top} \cup Stages :
               /\ next[q] = Len(script[q]) + 1
               /\ \/ Pieces(result.stdout, q) = wrote[q]
                  \/ \E z \in Parts \ {q} : WritesIn(z)
      BY <2>1 DEF BashInv, AnswerIsTrue
    <3>3. \A q : WritesIn(q)' <=> WritesIn(q)
      BY DEF WritesIn
    <3> QED
      BY <1>1, <1>4, <1>5, <3>1, <3>2, <3>3
  <2>2. ASSUME reply' = "error", command' = "script"
        PROVE  ctxDone' \/ \E q \in {Top} \cup Stages : stopped'[q] = "broken"
    <3>1. ctxDone \/ \E q \in {Top} \cup Stages : stopped[q] = "broken"
      BY <2>2 DEF BashInv, AnswerIsTrue
    <3> QED
      BY <1>4, <1>7, <2>2, <3>1, Split
  <2>3. ASSUME files' = "changed"
        PROVE  \E q \in Parts : \E i \in 1 .. next'[q] : Worked(q, i)'
    <3>1. CASE files = "changed"
      <4>1. PICK q \in Parts : \E i \in 1 .. next[q] : Worked(q, i)
        BY <3>1 DEF BashInv, AnswerIsTrue
      <4>2. PICK i \in 1 .. next[q] : Worked(q, i)
        BY <4>1
      <4>3. i \in 1 .. next'[q] /\ next[q] \in Nat /\ next'[q] >= next[q]
        BY <1>2, <1>4
      <4>4. Worked(q, i)'
        BY <1>1, <1>2, <1>4, <4>2, <4>3 DEF Worked
      <4> QED
        BY <4>3, <4>4
    <3>2. CASE /\ files' = "changed" /\ c \in {"run", "input"}
               /\ n = next[p] + 1 \/ h = "broken"
      <4>1. PICK k \in Nat : k = next[p]
        BY <1>2
      <4>2. k \in DOMAIN script'[p] /\ k \in 1 .. next'[p]
        BY <1>1, <1>2, <1>3, <1>4, <4>1
      <4>3. script'[p][k] \in {"run", "input"}
        BY <1>1, <3>2, <4>1
      <4>4. k < next'[p] \/ (k = next'[p] /\ stopped'[p] = "broken")
        BY <1>4, <3>2, <4>1
      <4>5. Worked(p, k)'
        BY <4>2, <4>3, <4>4 DEF Worked
      <4> QED
        BY <4>2, <4>5
    <3> QED
      BY <2>3, <3>1, <3>2
  <2> QED
    BY <2>1, <2>2, <2>3 DEF AnswerIsTrue
<1>10. Interrupted => Interrupted'
  BY <1>1, <1>4, Split DEF Interrupted
<1>11. StoppedForAReason'
  <2> SUFFICES ASSUME NEW q \in {Top} \cup Stages, stopped'[q] # "no"
               PROVE  Interrupted'
    BY DEF StoppedForAReason
  <2>1. CASE q = p /\ h = "broken"
    BY <1>4, <2>1 DEF Interrupted
  <2>2. CASE q = p /\ h # "broken"
    BY <1>4, <1>10, <2>2, Split
  <2>3. CASE q # p
    BY <1>4, <1>10, <2>3, Split DEF BashInv, StoppedForAReason
  <2> QED
    BY <2>1, <2>2, <2>3
<1> QED
  BY <1>5, <1>6, <1>8, <1>9, <1>11 DEF BashInv

\* A command that ran to its end is such a step.
LEMMA DoneStep ==
  ASSUME BashInv, NEW p \in Parts,
         NEW c \in Commands, Reaches(p, c),
         NEW s \in {0, 1}, Done(p, s),
         Write(p) \/ UNCHANGED <<stdout, wrote>>,
         dir' \in Dirs,
         files' = files \/ (files' = "changed" /\ c \in {"run", "input"})
  PROVE  BashInv'
<1>1. IsAt(p, c)
  BY DEF Reaches
<1>2. stopped' = [stopped EXCEPT ![p] = "no"]
  BY <1>1 DEF BashInv, BashTypeOK, IsAt, Done
<1> QED
  BY <1>1, <1>2, PartStep DEF Done

\* A part that is stopped, in a command or between two, is one too.
LEMMA StopStep ==
  ASSUME BashInv, NEW p \in Parts,
         NEW c \in Commands, IsAt(p, c),
         NEW h \in {"broken", "cut"},
         h = "cut" => p \in Jobs \/ Interrupted,
         stopped' = [stopped EXCEPT ![p] = h],
         Write(p) \/ UNCHANGED <<stdout, wrote>>,
         \/ files' = files
         \/ files' = "changed" /\ c \in {"run", "input"} /\ h = "broken",
         UNCHANGED <<command, script, ctxDone, next, status, dir, reply,
                     result>>
  PROVE  BashInv'
<1>1. /\ next' = [next EXCEPT ![p] = next[p]]
      /\ status' = [status EXCEPT ![p] = status[p]]
      /\ status[p] \in {0, 1} /\ dir' \in Dirs
  BY DEF BashInv, BashTypeOK
<1> QED
  BY <1>1, PartStep

\* A step of no part: it ends the call, or the context.
LEMMA CallStep ==
  ASSUME BashInv,
         UNCHANGED <<command, script, next, status, stopped, dir, stdout,
                     wrote, files>>,
         ctxDone' \in {ctxDone, TRUE},
         \/ UNCHANGED <<reply, result>>
         \/ /\ reply' = "invalid" /\ command # "script"
            /\ UNCHANGED result
         \/ reply' = "error" /\ command # "script" /\ UNCHANGED result
         \/ /\ reply' = "error" /\ UNCHANGED result
            /\ Interrupted
            /\ \A p \in {Top} \cup Stages : Ended(p) \/ stopped[p] # "no"
         \/ ReturnResult
  PROVE  BashInv'
<1>1. /\ stdout \in Seq(Parts) /\ status \in [Parts -> {0, 1}]
      /\ \A q \in Parts : next[q] \in 1 .. Len(script[q]) + 1
      /\ ctxDone' \in BOOLEAN
  BY DEF BashInv, BashTypeOK
<1>2. \A q : WritesIn(q)' <=> WritesIn(q)
  BY DEF WritesIn
<1>3. \A q, i : Worked(q, i)' <=> Worked(q, i)
  BY DEF Worked
<1>4. Printed' /\ StoppedForAReason'
  <2>1. Printed'
    BY <1>2 DEF BashInv, Printed
  <2>2. ctxDone => ctxDone'
    OBVIOUS
  <2>3. Interrupted => Interrupted'
    BY <2>2 DEF Interrupted
  <2>4. StoppedForAReason'
    BY <2>3 DEF BashInv, StoppedForAReason
  <2> QED
    BY <2>1, <2>4
<1>5. CASE ReturnResult
  <2>1. /\ command = "script" /\ reply' = "result"
        /\ result' = [exitCode |-> status[Top], stdout |-> stdout]
        /\ \A q \in {Top} \cup Stages : Ended(q)
    BY <1>5 DEF ReturnResult, WaitedFor
  <2>2. status[Top] \in {0, 1}
    BY <1>1, Split
  <2>3. BashTypeOK'
    BY <1>1, <2>1, <2>2 DEF BashInv, BashTypeOK
  <2>4. \A q \in {Top} \cup Stages :
          /\ q \in Parts /\ next[q] = Len(script[q]) + 1
    <3> TAKE q \in {Top} \cup Stages
    <3>1. q \in Parts
      BY Split
    <3>2. Len(script[q]) \in Nat
      BY <3>1 DEF BashInv, BashTypeOK
    <3>3. next[q] > Len(script[q]) /\ next[q] \in 1 .. Len(script[q]) + 1
      BY <1>1, <2>1, <3>1 DEF Ended
    <3> QED
      BY <3>1, <3>2, <3>3
  <2>5. AnswerIsTrue'
    BY <1>2, <1>3, <2>1, <2>4 DEF BashInv, Printed, AnswerIsTrue
  <2>6. Settled'
    BY <2>1 DEF Settled, Ended
  <2> QED
    BY <1>4, <2>3, <2>5, <2>6 DEF BashInv
<1>6. CASE ~ReturnResult
  <2>1. BashTypeOK'
    BY <1>1, <1>6 DEF BashInv, BashTypeOK
  <2>2. AnswerIsTrue'
    BY <1>2, <1>3, <1>6 DEF BashInv, AnswerIsTrue, Interrupted
  <2>3. Settled'
    BY <1>6 DEF BashInv, Settled, Ended
  <2> QED
    BY <1>4, <2>1, <2>2, <2>3 DEF BashInv
<1> QED
  BY <1>5, <1>6

\* Every step keeps the inductive invariant.
LEMMA BashSteps ==
  ASSUME BashInv, [BashNext]_(bashVars)
  PROVE  BashInv'
<1> USE DEF Commands
<1>1. dir \in Dirs /\ files \in {"given", "changed"}
  BY DEF BashInv, BashTypeOK
<1>2. ASSUME NEW p \in Parts, Run(p) PROVE BashInv'
  <2>1. PICK c \in {"run", "input"} :
          /\ Reaches(p, c)
          /\ \E s \in {0, 1} : Done(p, s)
          /\ files' \in {files, "changed"}
          /\ IF Writes(p, c) THEN Write(p) ELSE UNCHANGED <<stdout, wrote>>
          /\ UNCHANGED dir
    BY <1>2 DEF Run
  <2>2. PICK s \in {0, 1} : Done(p, s)
    BY <2>1
  <2> QED
    BY <1>1, <2>1, <2>2, DoneStep
<1>3. ASSUME NEW p \in Parts, RedirectionFails(p) PROVE BashInv'
  BY <1>1, <1>3, DoneStep DEF RedirectionFails
<1>4. ASSUME NEW p \in Parts, Cd(p) PROVE BashInv'
  <2>1. dir' \in Dirs /\ \E s \in {0, 1} : Done(p, s)
    BY <1>1, <1>4 DEF Cd
  <2> QED
    BY <1>4, <2>1, DoneStep DEF Cd
<1>5. ASSUME NEW p \in Parts, Pwd(p) PROVE BashInv'
  BY <1>1, <1>5, DoneStep DEF Pwd
<1>6. ASSUME NEW p \in Parts, Breaks(p) PROVE BashInv'
  BY <1>6, StopStep DEF Breaks
<1>7. ASSUME NEW p \in Parts, CutOff(p) PROVE BashInv'
  <2>1. PICK c \in Commands : IsAt(p, c)
    BY <1>7 DEF CutOff
  <2>2. p \in Jobs \/ Interrupted
    BY <1>7, Split DEF CutOff, Interrupted
  <2> QED
    BY <1>7, <2>1, <2>2, StopStep DEF CutOff
<1>8. CASE Cancel
  BY <1>8, CallStep DEF Cancel
<1>9. CASE Refuse
  BY <1>9, CallStep DEF Refuse
<1>10. CASE ReturnResult
  BY <1>10, CallStep DEF ReturnResult
<1>11. CASE ReturnError
  <2>1. Interrupted
    BY <1>11 DEF ReturnError, WaitedFor, BashInv, StoppedForAReason
  <2> QED
    BY <1>11, <2>1, CallStep DEF ReturnError, ScriptIsOver, WaitedFor
<1>12. CASE UNCHANGED bashVars
  BY <1>12, CallStep DEF bashVars
<1> QED
  BY <1>2, <1>3, <1>4, <1>5, <1>6, <1>7, <1>8, <1>9, <1>10, <1>11, <1>12
     DEF BashNext, Finished

\* The inductive invariant holds in every reachable state of a call.
THEOREM BashInvariance == BashSpec => []BashInv
<1>1. BashInit => BashInv
  BY BashStarts
<1>2. BashInv /\ [BashNext]_(bashVars) => BashInv'
  BY BashSteps
<1> QED
  BY <1>1, <1>2, PTL DEF BashSpec

\* Every reachable state of a call of the bash tool is well typed.
THEOREM BashTypeCorrect == BashSpec => []BashTypeOK
<1>1. BashInv => BashTypeOK
  BY DEF BashInv
<1> QED
  BY <1>1, BashInvariance, PTL

\* The model is told what the script did: no stage or subshell is left out of
\* the exit status and the output, an error is about an interruption, and the
\* files were changed by registered commands only.
THEOREM BashAnswersAreTrue == BashSpec => []AnswerIsTrue
<1>1. BashInv => AnswerIsTrue
  BY DEF BashInv
<1> QED
  BY <1>1, BashInvariance, PTL

\* After the answer nothing of the script goes on but its jobs.
THEOREM OnlyJobsGoOn == BashSpec => OnlyJobsOutliveTheCall
<1> DEFINE Rest(j) == \A p \in Parts \ {j} :
                        next'[p] = next[p] /\ stopped'[p] = stopped[p]
           Quiet == UNCHANGED <<next, stopped, dir, stdout, files>>
<1>1. ASSUME BashInv, BashNext, reply # "none"
      PROVE  UNCHANGED <<reply, result>> /\ (Quiet \/ \E j \in Jobs : Rest(j))
  <2>1. ASSUME NEW p \in Parts, NEW c, IsAt(p, c) PROVE p \in Jobs
    BY <1>1, <2>1, OnlyJobsAct
  <2>2. /\ next \in [Parts -> Nat]
        /\ stopped \in [Parts -> {"no", "broken", "cut"}]
    BY <1>1 DEF BashInv, BashTypeOK
  <2>3. ASSUME NEW p \in Parts, NEW c, IsAt(p, c), NEW s, Done(p, s)
        PROVE  UNCHANGED <<reply, result>> /\ \E j \in Jobs : Rest(j)
    BY <2>1, <2>2, <2>3 DEF Done
  <2>4. ASSUME NEW p \in Parts,
               Run(p) \/ RedirectionFails(p) \/ Cd(p) \/ Pwd(p)
        PROVE  UNCHANGED <<reply, result>> /\ \E j \in Jobs : Rest(j)
    <3>1. \E c, s : IsAt(p, c) /\ Done(p, s)
      BY <2>4 DEF Run, RedirectionFails, Cd, Pwd, Reaches
    <3> QED
      BY <2>3, <3>1
  <2>5. ASSUME NEW p \in Parts, Breaks(p) \/ CutOff(p)
        PROVE  UNCHANGED <<reply, result>> /\ \E j \in Jobs : Rest(j)
    <3>1. p \in Jobs
      BY <2>1, <2>5 DEF Breaks, CutOff
    <3>2. UNCHANGED <<reply, result>> /\ Rest(p)
      BY <2>2, <2>5 DEF Breaks, CutOff
    <3> QED
      BY <3>1, <3>2
  <2>6. ASSUME Cancel \/ Finished PROVE UNCHANGED <<reply, result>> /\ Quiet
    BY <2>6 DEF Cancel, Finished, bashVars
  <2> QED
    BY <1>1, <2>4, <2>5, <2>6
       DEF BashNext, Refuse, ReturnResult, ReturnError
<1>2. BashInv /\ [BashNext]_(bashVars) =>
        [reply # "none" =>
           UNCHANGED <<reply, result>> /\ (Quiet \/ \E j \in Jobs : Rest(j))
        ]_(bashVars)
  BY <1>1
<1> QED
  BY <1>2, BashInvariance, PTL DEF BashSpec, OnlyJobsOutliveTheCall
=============================================================================
