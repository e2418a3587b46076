--------------------------- MODULE AgentLoopProofs ---------------------------
(***************************************************************************)
(* Proofs about AgentLoop, for any set of calls, any failMax and any        *)
(* bounds: type correctness, the serialization of the conversation, the     *)
(* budget of failed requests, the refinement of RunContract, and what the   *)
(* model is told and the caller gets: answers in order, and a true Result.  *)
(***************************************************************************)
EXTENDS AgentLoop, FiniteSetTheorems, TLAPS

-----------------------------------------------------------------------------
(* The inductive invariant, in parts.                                      *)

\* A call holds the lock from its prompt to its return, and only then.
LockHeld == \A r \in Runs : lock = r <=> pc[r] \notin {"lock", "done"}

\* The call that holds the lock spoke last.
HolderSpokeLast ==
  \A r \in Runs : lock = r =>
    /\ Len(messages) > 0
    /\ messages[Len(messages)].run = r

\* A call that waits for the lock has not spoken.
WaitersAreSilent ==
  \A r \in Runs : pc[r] = "lock" =>
    \A i \in DOMAIN messages : messages[i].run # r

\* A call that goes on has failures left and no outcome; one that returned
\* has used its budget up if and only if it says so.
BudgetLeft ==
  \A r \in Runs :
    /\ pc[r] # "done" => failCount[r] < FailMax /\ outcome[r] = "none"
    /\ outcome[r] = "unreachable" <=> failCount[r] = FailMax

IInv ==
  TypeOK /\ LockHeld /\ HolderSpokeLast /\ WaitersAreSilent /\ Serialized
    /\ BudgetLeft

-----------------------------------------------------------------------------
(* Lemmas about the data.                                                  *)

\* Appending a message to a conversation.
LEMMA AppendMessage ==
  ASSUME NEW s \in Seq(Message), NEW m \in Message
  PROVE  /\ Append(s, m) \in Seq(Message)
         /\ Len(Append(s, m)) = Len(s) + 1
         /\ DOMAIN Append(s, m) = 1 .. Len(s) + 1
         /\ Append(s, m)[Len(s) + 1] = m
         /\ \A i \in 1 .. Len(s) : Append(s, m)[i] = s[i]
  OBVIOUS

\* What the loop appends are messages of the call that appends them.
LEMMA NoCalls == << >> \in CallSeqs
<1>1. << >> \in [1 .. 0 -> Calls]
  OBVIOUS
<1>2. 0 \in 0 .. MaxCalls
  BY LoopAssumption
<1> QED
  BY <1>1, <1>2 DEF CallSeqs

\* The messages the loop writes itself are messages.
LEMMA MessageTypes ==
  ASSUME NEW r \in Runs, NEW k \in Nat
  PROVE  /\ UserMessage(r, k) \in Message /\ UserMessage(r, k).run = r
         /\ ToolMessage(r, k) \in Message /\ ToolMessage(r, k).run = r
  BY NoCalls DEF Message, UserMessage, ToolMessage

\* What a completion becomes in the history is a message.
LEMMA AssistantMessageType ==
  ASSUME NEW r \in Runs, NEW c \in Completion
  PROVE  /\ AssistantMessage(r, c) \in Message
         /\ AssistantMessage(r, c).run = r
<1>1. c.calls \in CallSeqs /\ c.content \in BOOLEAN
  BY DEF Completion
<1> QED
  BY <1>1 DEF Message, AssistantMessage

\* A message of the last speaker, or of one who has not spoken, keeps the
\* conversation serialized.
LEMMA SerializedAppend ==
  ASSUME NEW s \in Seq(Message), NEW m \in Message,
         \A i, j, k \in DOMAIN s :
           (i < j /\ j < k /\ s[i].run = s[k].run) => s[j].run = s[k].run,
         \/ Len(s) > 0 /\ s[Len(s)].run = m.run
         \/ \A i \in DOMAIN s : s[i].run # m.run
  PROVE  \A i, j, k \in DOMAIN Append(s, m) :
           (i < j /\ j < k /\ Append(s, m)[i].run = Append(s, m)[k].run)
             => Append(s, m)[j].run = Append(s, m)[k].run
<1> DEFINE t == Append(s, m)
<1>1. /\ Len(s) \in Nat /\ DOMAIN s = 1 .. Len(s)
      /\ DOMAIN t = 1 .. Len(s) + 1 /\ t[Len(s) + 1] = m
      /\ \A i \in 1 .. Len(s) : t[i] = s[i]
  BY AppendMessage
<1> HIDE DEF t
<1> SUFFICES ASSUME NEW i \in DOMAIN t, NEW j \in DOMAIN t, NEW k \in DOMAIN t,
                    i < j, j < k, t[i].run = t[k].run
             PROVE  t[j].run = t[k].run
  BY DEF t
<1>2. /\ i \in 1 .. Len(s) /\ j \in 1 .. Len(s)
      /\ t[i] = s[i] /\ t[j] = s[j]
  BY <1>1
<1>3. CASE k \in 1 .. Len(s)
  BY <1>1, <1>2, <1>3
<1>4. CASE k = Len(s) + 1
  <2>1. t[k] = m /\ s[i].run = m.run
    BY <1>1, <1>2, <1>4
  <2>2. Len(s) > 0 /\ s[Len(s)].run = m.run
    BY <1>1, <1>2, <2>1
  <2>3. CASE j = Len(s)
    BY <1>2, <2>1, <2>2, <2>3
  <2>4. CASE j < Len(s)
    BY <1>1, <1>2, <2>1, <2>2, <2>4
  <2> QED
    BY <1>1, <1>2, <2>3, <2>4
<1> QED
  BY <1>1, <1>3, <1>4

-----------------------------------------------------------------------------
(* The invariant holds initially, and every step preserves it.             *)

\* A new conversation: the system message, nobody inside.
LEMMA InitIInv == Init => IInv
<1> SUFFICES ASSUME Init PROVE IInv
  OBVIOUS
<1>1. SystemMessage \in Message /\ messages = <<SystemMessage>>
  BY NoCalls DEF Init, SystemMessage, Message
<1>2. messages \in Seq(Message) /\ Len(messages) = 1 /\ messages[1].run = NoRun
  BY <1>1 DEF SystemMessage
<1>3. TypeOK
  BY <1>2, LoopAssumption DEF Init, TypeOK, PCs, Result, Outcomes
<1>4. LockHeld /\ HolderSpokeLast
  BY LoopAssumption DEF Init, LockHeld, HolderSpokeLast
<1>5. WaitersAreSilent /\ Serialized
  <2>1. DOMAIN messages = {1}
    BY <1>1
  <2> QED
    BY <1>2, <2>1, LoopAssumption DEF WaitersAreSilent, Serialized
<1>6. BudgetLeft
  BY LoopAssumption DEF Init, BudgetLeft
<1> QED
  BY <1>3, <1>4, <1>5, <1>6 DEF IInv

\* A call inside the loop holds the lock.
LEMMA Inside ==
  ASSUME IInv, NEW r \in Runs, pc[r] \notin {"lock", "done"}
  PROVE  /\ lock = r
         /\ Len(messages) > 0 /\ messages[Len(messages)].run = r
         /\ \A q \in Runs : q # r => pc[q] \in {"lock", "done"}
  BY DEF IInv, LockHeld, HolderSpokeLast

\* When the call that holds the lock appends a message and stays, or leaves,
\* the conversation stays serialized and the waiting calls stay silent.
LEMMA HolderSpeaks ==
  ASSUME IInv, NEW r \in Runs, pc[r] \notin {"lock", "done"},
         NEW m \in Message, m.run = r, messages' = Append(messages, m),
         \A q \in Runs : pc'[q] = "lock" => pc[q] = "lock" /\ q # r
  PROVE  /\ messages' \in Seq(Message) /\ Len(messages') > 0
         /\ messages'[Len(messages')].run = r
         /\ WaitersAreSilent' /\ Serialized'
<1>1. /\ messages \in Seq(Message)
      /\ Len(messages) > 0 /\ messages[Len(messages)].run = r
  BY Inside DEF IInv, TypeOK
<1>2. /\ messages' \in Seq(Message) /\ Len(messages') = Len(messages) + 1
      /\ DOMAIN messages' = 1 .. Len(messages) + 1
      /\ messages'[Len(messages) + 1] = m
      /\ \A i \in 1 .. Len(messages) : messages'[i] = messages[i]
  BY <1>1, AppendMessage
<1>3. WaitersAreSilent'
  <2> SUFFICES ASSUME NEW q \in Runs, pc'[q] = "lock",
                      NEW i \in DOMAIN messages'
               PROVE  messages'[i].run # q
    BY DEF WaitersAreSilent
  <2>1. pc[q] = "lock" /\ q # r
    OBVIOUS
  <2>2. CASE i = Len(messages) + 1
    BY <1>2, <2>1, <2>2
  <2>3. CASE i \in 1 .. Len(messages)
    BY <1>1, <1>2, <2>1, <2>3 DEF IInv, WaitersAreSilent
  <2> QED
    BY <1>1, <1>2, <2>2, <2>3
<1>4. Serialized'
  BY <1>1, SerializedAppend DEF IInv, Serialized
<1> QED
  BY <1>1, <1>2, <1>3, <1>4

\* Taking the lock: the prompt is the first word of its call.
LEMMA EnterStep ==
  ASSUME IInv, NEW r \in Runs, Enter(r)
  PROVE  IInv'
<1> DEFINE m == UserMessage(r, 0)
<1>1. m \in Message /\ m.run = r /\ messages' = Append(messages, m)
  BY MessageTypes DEF Enter
<1> HIDE DEF m
<1>2. /\ messages \in Seq(Message) /\ messages' \in Seq(Message)
      /\ Len(messages) \in Nat /\ Len(messages') = Len(messages) + 1
      /\ DOMAIN messages = 1 .. Len(messages)
      /\ DOMAIN messages' = 1 .. Len(messages) + 1
      /\ messages'[Len(messages) + 1] = m
      /\ \A i \in 1 .. Len(messages) : messages'[i] = messages[i]
  BY <1>1, AppendMessage DEF IInv, TypeOK
<1>3. \A i \in DOMAIN messages : messages[i].run # m.run
  BY <1>1 DEF IInv, WaitersAreSilent, Enter
<1>4. TypeOK'
  BY <1>2 DEF IInv, TypeOK, Enter, Goto, Lock, PCs
<1>5. LockHeld'
  BY LoopAssumption DEF IInv, TypeOK, LockHeld, Enter, Goto, Lock
<1>6. HolderSpokeLast'
  BY <1>1, <1>2 DEF HolderSpokeLast, Enter, Lock
<1>7. WaitersAreSilent'
  <2> SUFFICES ASSUME NEW q \in Runs, pc'[q] = "lock",
                      NEW i \in DOMAIN messages'
               PROVE  messages'[i].run # q
    BY DEF WaitersAreSilent
  <2>1. pc[q] = "lock" /\ q # r
    BY DEF IInv, TypeOK, Enter, Goto
  <2> QED
    BY <1>1, <1>2, <2>1 DEF IInv, WaitersAreSilent
<1>8. Serialized'
  BY <1>1, <1>2, <1>3, SerializedAppend DEF IInv, Serialized
<1>9. BudgetLeft'
  BY DEF IInv, TypeOK, BudgetLeft, Enter, Goto
<1> QED
  BY <1>4, <1>5, <1>6, <1>7, <1>8, <1>9 DEF IInv

\* A step that appends nothing and lets nobody new hold the lock.
LEMMA Silence ==
  ASSUME IInv, UNCHANGED messages, lock' \in {lock, NoRun},
         \A q \in Runs : pc'[q] = "lock" => pc[q] = "lock"
  PROVE  HolderSpokeLast' /\ WaitersAreSilent' /\ Serialized'
<1>1. HolderSpokeLast'
  BY LoopAssumption DEF IInv, HolderSpokeLast
<1>2. WaitersAreSilent' /\ Serialized'
  BY DEF IInv, WaitersAreSilent, Serialized
<1> QED
  BY <1>1, <1>2

\* Of the places inside the loop, no step leads back to the lock.
Inner == {"top", "request", "sleep", "dispatch"}

\* Moving on inside the loop keeps the lock with its holder.
LEMMA GotoInner ==
  ASSUME IInv, NEW r \in Runs, pc[r] \in Inner, NEW p \in Inner, Goto(r, p),
         UNCHANGED <<lock, outcome>>
  PROVE  /\ pc' \in [Runs -> PCs] /\ LockHeld'
         /\ outcome' = outcome /\ lock' \in {lock, NoRun}
         /\ \A q \in Runs : pc'[q] = "lock" => pc[q] = "lock" /\ q # r
         /\ \A q \in Runs : pc'[q] # "done" <=> pc[q] # "done"
  BY DEF IInv, TypeOK, LockHeld, Goto, Inner, PCs

\* A return gives the lock back and leaves the history as it is or one
\* message of the call longer.
LEMMA ReturnStep ==
  ASSUME IInv, NEW r \in Runs, pc[r] \in Inner, NEW o \in Outcomes,
         Return(r, o)
  PROVE  /\ pc' \in [Runs -> PCs] /\ LockHeld'
         /\ lock' \in Runs \cup {NoRun} /\ lock' \in {lock, NoRun}
         /\ outcome' \in [Runs -> Outcomes \cup {"none"}]
         /\ outcome' = [outcome EXCEPT ![r] = o]
         /\ \A q \in Runs : pc'[q] = "lock" => pc[q] = "lock" /\ q # r
         /\ pc'[r] = "done" /\ outcome'[r] = o
         /\ \A q \in Runs \ {r} : pc'[q] = pc[q] /\ outcome'[q] = outcome[q]
<1>1. /\ pc' = [pc EXCEPT ![r] = "done"] /\ pc \in [Runs -> PCs]
      /\ outcome' = [outcome EXCEPT ![r] = o] /\ lock' = NoRun
      /\ outcome \in [Runs -> Outcomes \cup {"none"}]
  BY DEF IInv, TypeOK, Return, Goto
<1>2. lock = r
  BY Inside DEF Inner
<1>3. \A q \in Runs : pc'[q] \in {"lock", "done"}
  BY <1>1, <1>2 DEF IInv, LockHeld
<1>4. LockHeld'
  BY <1>1, <1>3, LoopAssumption DEF LockHeld
<1> QED
  BY <1>1, <1>4 DEF PCs, Inner

\* The look at ctx at the top of the loop.
LEMMA CheckCtxStep ==
  ASSUME IInv, NEW r \in Runs, CheckCtx(r)
  PROVE  IInv'
<1>1. /\ pc[r] = "top" /\ pc[r] \in Inner
      /\ UNCHANGED <<messages, ctxDone, failCount, retrying, result, nextCall>>
  BY DEF CheckCtx, Inner
<1>2. CASE Return(r, "ctx")
  <2>1. "ctx" \in Outcomes
    BY DEF Outcomes
  <2>2. TypeOK' /\ LockHeld'
    BY <1>1, <1>2, <2>1, ReturnStep DEF IInv, TypeOK
  <2>3. HolderSpokeLast' /\ WaitersAreSilent' /\ Serialized'
    BY <1>1, <1>2, <2>1, ReturnStep, Silence
  <2>4. BudgetLeft'
    BY <1>1, <1>2, <2>1, ReturnStep DEF IInv, BudgetLeft, TypeOK
  <2> QED
    BY <2>2, <2>3, <2>4 DEF IInv
<1>3. CASE Goto(r, "request") /\ UNCHANGED <<lock, outcome>>
  <2>1. "request" \in Inner
    BY DEF Inner
  <2>2. TypeOK' /\ LockHeld'
    BY <1>1, <1>3, <2>1, GotoInner DEF IInv, TypeOK
  <2>3. HolderSpokeLast' /\ WaitersAreSilent' /\ Serialized'
    BY <1>1, <1>3, <2>1, GotoInner, Silence
  <2>4. BudgetLeft'
    BY <1>1, <1>3, <2>1, GotoInner DEF IInv, BudgetLeft
  <2> QED
    BY <2>2, <2>3, <2>4 DEF IInv
<1> QED
  BY <1>2, <1>3 DEF CheckCtx

\* A failed request uses up one of FailMax.
LEMMA RequestFailsStep ==
  ASSUME IInv, NEW r \in Runs, RequestFails(r)
  PROVE  IInv'
<1> DEFINE n == failCount[r] + 1
<1>1. /\ pc[r] = "request" /\ pc[r] \in Inner
      /\ failCount' = [failCount EXCEPT ![r] = n]
      /\ UNCHANGED <<messages, ctxDone, result, nextCall>>
  BY DEF RequestFails, Inner
<1>2. failCount[r] \in 0 .. FailMax /\ failCount[r] < FailMax
  BY <1>1 DEF IInv, TypeOK, BudgetLeft
<1>3. /\ failCount' \in [Runs -> 0 .. FailMax] /\ failCount'[r] = n
      /\ \A q \in Runs \ {r} : failCount'[q] = failCount[q]
      /\ n \in 1 .. FailMax
  BY <1>1, <1>2, LoopAssumption DEF IInv, TypeOK
<1>4. retrying' \in [Runs -> BOOLEAN]
  BY DEF RequestFails, IInv, TypeOK
<1> HIDE DEF n
<1>5. CASE n = FailMax /\ Return(r, "unreachable")
  <2>1. "unreachable" \in Outcomes
    BY DEF Outcomes
  <2>2. TypeOK' /\ LockHeld'
    BY <1>1, <1>3, <1>4, <1>5, <2>1, ReturnStep DEF IInv, TypeOK
  <2>3. HolderSpokeLast' /\ WaitersAreSilent' /\ Serialized'
    BY <1>1, <1>5, <2>1, ReturnStep, Silence
  <2>4. BudgetLeft'
    BY <1>1, <1>3, <1>5, <2>1, ReturnStep DEF IInv, BudgetLeft
  <2> QED
    BY <2>2, <2>3, <2>4 DEF IInv
<1>6. CASE n # FailMax /\ Goto(r, "sleep") /\ UNCHANGED <<lock, outcome>>
  <2>1. "sleep" \in Inner
    BY DEF Inner
  <2>2. TypeOK' /\ LockHeld'
    BY <1>1, <1>3, <1>4, <1>6, <2>1, GotoInner DEF IInv, TypeOK
  <2>3. HolderSpokeLast' /\ WaitersAreSilent' /\ Serialized'
    BY <1>1, <1>6, <2>1, GotoInner, Silence
  <2>4. BudgetLeft'
    <3>1. n < FailMax
      BY <1>3, <1>6, LoopAssumption
    <3>2. outcome[r] = "none"
      BY <1>1 DEF IInv, BudgetLeft
    <3> QED
      BY <1>1, <1>3, <1>6, <2>1, <3>1, <3>2, GotoInner DEF IInv, BudgetLeft
  <2> QED
    BY <2>2, <2>3, <2>4 DEF IInv
<1> QED
  BY <1>5, <1>6 DEF RequestFails, GivesUp, n

\* The end of a backoff.
LEMMA WakeUpStep ==
  ASSUME IInv, NEW r \in Runs, WakeUp(r)
  PROVE  IInv'
<1>1. /\ pc[r] \in Inner /\ "top" \in Inner /\ Goto(r, "top")
      /\ UNCHANGED <<lock, messages, ctxDone, failCount, retrying, result,
                     nextCall, outcome>>
  BY DEF WakeUp, Inner
<1>2. TypeOK' /\ LockHeld'
  BY <1>1, GotoInner DEF IInv, TypeOK
<1>3. HolderSpokeLast' /\ WaitersAreSilent' /\ Serialized'
  BY <1>1, GotoInner, Silence
<1>4. BudgetLeft'
  BY <1>1, GotoInner DEF IInv, BudgetLeft
<1> QED
  BY <1>2, <1>3, <1>4 DEF IInv

\* A completion appends a message of the call that holds the lock.
LEMMA CompletionArrivesStep ==
  ASSUME IInv, NEW r \in Runs, CompletionArrives(r)
  PROVE  IInv'
<1> PICK c \in Completion :
      /\ messages' = Append(messages, AssistantMessage(r, c))
      /\ result' = [result EXCEPT ![r] =
                      Counted(result[r], c, Len(messages) + 1)]
      /\ \/ c.finish = "stop" /\ Return(r, "stop")
         \/ c.finish # "stop" /\ Goto(r, "dispatch")
            /\ UNCHANGED <<lock, outcome>>
  BY DEF CompletionArrives
<1> DEFINE m == AssistantMessage(r, c)
<1>1. /\ pc[r] = "request" /\ pc[r] \in Inner
      /\ UNCHANGED <<ctxDone, failCount>>
      /\ m \in Message /\ m.run = r
  BY AssistantMessageType DEF CompletionArrives, Inner
<1>2. messages' = Append(messages, m)
  OBVIOUS
<1>3. result' \in [Runs -> Result]
  <2>1. Len(messages) + 1 \in Nat
    BY DEF IInv, TypeOK
  <2>2. result[r] \in Result /\ c.content \in BOOLEAN
    BY DEF IInv, TypeOK, Completion
  <2>3. Counted(result[r], c, Len(messages) + 1) \in Result
    BY <2>1, <2>2 DEF Counted, Result
  <2> QED
    BY <2>3 DEF IInv, TypeOK
<1>4. nextCall' \in [Runs -> Nat] /\ retrying' \in [Runs -> BOOLEAN]
  BY DEF CompletionArrives, IInv, TypeOK
<1> HIDE DEF m
<1>5. CASE Return(r, "stop")
  <2>1. "stop" \in Outcomes /\ "stop" # "unreachable"
    BY DEF Outcomes
  <2>2. \A q \in Runs : pc'[q] = "lock" => pc[q] = "lock" /\ q # r
    BY <1>1, <1>5, <2>1, ReturnStep
  <2>3. messages' \in Seq(Message) /\ WaitersAreSilent' /\ Serialized'
    BY <1>1, <1>2, <2>2, HolderSpeaks DEF Inner
  <2>4. TypeOK' /\ LockHeld'
    BY <1>1, <1>3, <1>4, <1>5, <2>1, <2>3, ReturnStep DEF IInv, TypeOK
  <2>5. HolderSpokeLast'
    BY <1>5, LoopAssumption DEF HolderSpokeLast, Return
  <2>6. BudgetLeft'
    BY <1>1, <1>5, <2>1, ReturnStep, LoopAssumption
       DEF IInv, BudgetLeft, TypeOK
  <2> QED
    BY <2>3, <2>4, <2>5, <2>6 DEF IInv
<1>6. CASE Goto(r, "dispatch") /\ UNCHANGED <<lock, outcome>>
  <2>1. "dispatch" \in Inner
    BY DEF Inner
  <2>2. \A q \in Runs : pc'[q] = "lock" => pc[q] = "lock" /\ q # r
    BY <1>1, <1>6, <2>1, GotoInner
  <2>3. /\ messages' \in Seq(Message) /\ WaitersAreSilent' /\ Serialized'
        /\ Len(messages') > 0 /\ messages'[Len(messages')].run = r
    BY <1>1, <1>2, <2>2, HolderSpeaks DEF Inner
  <2>4. TypeOK' /\ LockHeld'
    BY <1>1, <1>3, <1>4, <1>6, <2>1, <2>3, GotoInner DEF IInv, TypeOK
  <2>5. HolderSpokeLast'
    BY <1>1, <1>6, <2>3, Inside DEF HolderSpokeLast, Inner
  <2>6. BudgetLeft'
    BY <1>1, <1>6, <2>1, GotoInner DEF IInv, BudgetLeft
  <2> QED
    BY <2>3, <2>4, <2>5, <2>6 DEF IInv
<1> QED
  BY <1>5, <1>6

\* Returning without a last word, for a reason other than the provider.
LEMMA QuietReturn ==
  ASSUME IInv, NEW r \in Runs, pc[r] \in Inner,
         NEW o \in Outcomes \ {"unreachable"}, Return(r, o),
         UNCHANGED <<messages, ctxDone, failCount, retrying, result, nextCall>>
  PROVE  IInv'
<1>1. TypeOK' /\ LockHeld'
  BY ReturnStep DEF IInv, TypeOK
<1>2. HolderSpokeLast' /\ WaitersAreSilent' /\ Serialized'
  BY ReturnStep, Silence
<1>3. BudgetLeft'
  BY ReturnStep, LoopAssumption DEF IInv, BudgetLeft, TypeOK, Inner
<1> QED
  BY <1>1, <1>2, <1>3 DEF IInv

\* A panic over a completion without choices is a return.
LEMMA CompletionIsEmptyStep ==
  ASSUME IInv, NEW r \in Runs, CompletionIsEmpty(r)
  PROVE  IInv'
  BY QuietReturn DEF CompletionIsEmpty, Inner, Outcomes

\* A sentinel or a panic of a tool is a return.
LEMMA ToolStopsStep ==
  ASSUME IInv, NEW r \in Runs, ToolStops(r)
  PROVE  IInv'
<1> PICK o \in {"okay", "abort", "panic"} : Return(r, o)
  BY DEF ToolStops
<1> QED
  BY QuietReturn DEF ToolStops, Dispatching, Inner, Outcomes

\* A reply to a tool call: one message of the call that made it.
LEMMA ReplyStep ==
  ASSUME IInv, NEW r \in Runs, pc[r] = "dispatch",
         NEW m \in Message, m.run = r, messages' = Append(messages, m),
         NextCall(r),
         UNCHANGED <<lock, pc, ctxDone, failCount, retrying, result, outcome>>
  PROVE  IInv'
<1>1. \A q \in Runs : pc'[q] = "lock" => pc[q] = "lock" /\ q # r
  OBVIOUS
<1>2. /\ messages' \in Seq(Message) /\ WaitersAreSilent' /\ Serialized'
      /\ Len(messages') > 0 /\ messages'[Len(messages')].run = r
  BY <1>1, HolderSpeaks
<1>3. nextCall' \in [Runs -> Nat]
  BY DEF NextCall, IInv, TypeOK
<1>4. TypeOK'
  BY <1>2, <1>3 DEF IInv, TypeOK
<1>5. LockHeld' /\ BudgetLeft'
  BY DEF IInv, LockHeld, BudgetLeft
<1>6. HolderSpokeLast'
  BY <1>2, Inside DEF HolderSpokeLast
<1> QED
  BY <1>2, <1>4, <1>5, <1>6 DEF IInv

\* An answer to a call that could not be made is a message of the call.
LEMMA RejectCallStep ==
  ASSUME IInv, NEW r \in Runs, RejectCall(r)
  PROVE  IInv'
<1>1. nextCall[r] \in Nat
  BY DEF IInv, TypeOK
<1> QED
  BY <1>1, MessageTypes, ReplyStep DEF RejectCall, TellModel, Dispatching

\* A tool message is a message of the call.
LEMMA ToolRepliesStep ==
  ASSUME IInv, NEW r \in Runs, ToolReplies(r)
  PROVE  IInv'
<1>1. nextCall[r] \in Nat
  BY DEF IInv, TypeOK
<1> QED
  BY <1>1, MessageTypes, ReplyStep DEF ToolReplies, Dispatching

\* The end of a turn.
LEMMA EndTurnStep ==
  ASSUME IInv, NEW r \in Runs, EndTurn(r)
  PROVE  IInv'
<1>1. /\ pc[r] \in Inner /\ "top" \in Inner /\ Goto(r, "top")
      /\ UNCHANGED <<lock, messages, ctxDone, failCount, retrying, result,
                     nextCall, outcome>>
  BY DEF EndTurn, Inner
<1>2. TypeOK' /\ LockHeld'
  BY <1>1, GotoInner DEF IInv, TypeOK
<1>3. HolderSpokeLast' /\ WaitersAreSilent' /\ Serialized'
  BY <1>1, GotoInner, Silence
<1>4. BudgetLeft'
  BY <1>1, GotoInner DEF IInv, BudgetLeft
<1> QED
  BY <1>2, <1>3, <1>4 DEF IInv

\* A context that becomes done changes nothing else.
LEMMA CancelStep ==
  ASSUME IInv, NEW r \in Runs, Cancel(r)
  PROVE  IInv'
<1>1. TypeOK'
  BY DEF IInv, TypeOK, Cancel
<1>2. /\ LockHeld' /\ HolderSpokeLast' /\ WaitersAreSilent' /\ Serialized'
      /\ BudgetLeft'
  BY DEF IInv, LockHeld, HolderSpokeLast, WaitersAreSilent, Serialized,
         BudgetLeft, Cancel
<1> QED
  BY <1>1, <1>2 DEF IInv

\* Stuttering, and the stutter after everything is over.
LEMMA Stutter ==
  ASSUME IInv, UNCHANGED vars
  PROVE  IInv'
  BY DEF IInv, TypeOK, LockHeld, HolderSpokeLast, WaitersAreSilent,
         Serialized, BudgetLeft, vars

\* Every step keeps the inductive invariant.
LEMMA NextIInv == IInv /\ [Next]_vars => IInv'
<1> SUFFICES ASSUME IInv, [Next]_vars PROVE IInv'
  OBVIOUS
<1>1. ASSUME NEW r \in Runs, Enter(r) PROVE IInv'
  BY <1>1, EnterStep
<1>2. ASSUME NEW r \in Runs, CheckCtx(r) PROVE IInv'
  BY <1>2, CheckCtxStep
<1>3. ASSUME NEW r \in Runs, RequestFails(r) PROVE IInv'
  BY <1>3, RequestFailsStep
<1>4. ASSUME NEW r \in Runs, WakeUp(r) PROVE IInv'
  BY <1>4, WakeUpStep
<1>5. ASSUME NEW r \in Runs, CompletionArrives(r) PROVE IInv'
  BY <1>5, CompletionArrivesStep
<1>6. ASSUME NEW r \in Runs, CompletionIsEmpty(r) PROVE IInv'
  BY <1>6, CompletionIsEmptyStep
<1>7. ASSUME NEW r \in Runs, RejectCall(r) PROVE IInv'
  BY <1>7, RejectCallStep
<1>8. ASSUME NEW r \in Runs, ToolReplies(r) PROVE IInv'
  BY <1>8, ToolRepliesStep
<1>9. ASSUME NEW r \in Runs, ToolStops(r) PROVE IInv'
  BY <1>9, ToolStopsStep
<1>10. ASSUME NEW r \in Runs, EndTurn(r) PROVE IInv'
  BY <1>10, EndTurnStep
<1>11. ASSUME NEW r \in Runs, Cancel(r) PROVE IInv'
  BY <1>11, CancelStep
<1>12. CASE UNCHANGED vars
  BY <1>12, Stutter
<1> QED
  BY <1>1, <1>2, <1>3, <1>4, <1>5, <1>6, <1>7, <1>8, <1>9, <1>10, <1>11,
     <1>12 DEF Next, Finished

-----------------------------------------------------------------------------
(* The theorems.                                                           *)

\* The inductive invariant holds in every reachable state of the loop: types,
\* who holds i.lock while inside Run, and whose words are in the history.
THEOREM Invariance == Spec => []IInv
<1>1. Init => IInv
  BY InitIInv
<1>2. IInv /\ [Next]_vars => IInv'
  BY NextIInv
<1> QED
  BY <1>1, <1>2, PTL DEF Spec

\* Every reachable state of the loop is well typed: failCount stays within
\* its bound, the conversation is a sequence of messages.
THEOREM TypeCorrect == Spec => []TypeOK
<1>1. IInv => TypeOK
  BY DEF IInv
<1> QED
  BY <1>1, Invariance, PTL

\* However many goroutines call Run on one Impl, their messages never
\* interleave.
THEOREM ConversationIsSerialized == Spec => []Serialized
<1>1. IInv => Serialized
  BY DEF IInv
<1> QED
  BY <1>1, Invariance, PTL

\* A call fails at most failMax requests, and exactly then says that the
\* provider is unreachable.
THEOREM BudgetIsKept == Spec => []FailureBudget
<1>1. IInv => FailureBudget
  <2> SUFFICES ASSUME IInv, NEW r \in Runs
               PROVE  /\ failCount[r] <= FailMax
                      /\ outcome[r] = "unreachable" <=> failCount[r] = FailMax
    BY DEF FailureBudget
  <2>1. failCount[r] \in 0 .. FailMax
    BY DEF IInv, TypeOK
  <2> QED
    BY <2>1, LoopAssumption DEF IInv, BudgetLeft
<1> QED
  BY <1>1, Invariance, PTL

-----------------------------------------------------------------------------
(* The loop implements RunContract.                                        *)

\* Appending a message appends its speaker.
LEMMA AppendSpeaker ==
  ASSUME messages \in Seq(Message), NEW m \in Message,
         messages' = Append(messages, m)
  PROVE  Speakers' = Append(Speakers, m.run)
<1>1. /\ Len(messages) \in Nat /\ DOMAIN messages = 1 .. Len(messages)
      /\ DOMAIN messages' = 1 .. Len(messages) + 1
      /\ messages'[Len(messages) + 1] = m
      /\ \A i \in 1 .. Len(messages) : messages'[i] = messages[i]
  BY AppendMessage
<1> DEFINE n == Len(messages)
           run == [i \in 1 .. n |-> messages[i].run]
<1>2. Speakers = run /\ run \in Seq({x.run : x \in Message})
  <2>1. \A i \in 1 .. n : messages[i] \in Message
    OBVIOUS
  <2> QED
    BY <1>1, <2>1 DEF Speakers
<1>3. Len(run) = n
  BY <1>1, <1>2
<1>4. Append(run, m.run) =
        [i \in 1 .. n + 1 |-> IF i = n + 1 THEN m.run ELSE run[i]]
  BY <1>2, <1>3
<1>5. Speakers' = [i \in 1 .. n + 1 |-> messages'[i].run]
  BY <1>1 DEF Speakers
<1> QED
  BY <1>1, <1>2, <1>4, <1>5

\* The initial states are those of the contract.
LEMMA InitImplements == Init => Contract!Init
<1> SUFFICES ASSUME Init PROVE Contract!Init
  OBVIOUS
<1>1. Speakers = <<NoRun>>
  BY DEF Init, Speakers, SystemMessage
<1> QED
  BY <1>1 DEF Init, Contract!Init

\* A step that appends nothing and stays in the loop is no step of the
\* contract.
LEMMA Unnoticed ==
  ASSUME UNCHANGED <<lock, messages, ctxDone, outcome>>
  PROVE  UNCHANGED Contract!vars
  BY DEF Contract!vars, Speakers

\* A return, with or without a last word.
LEMMA ReturnImplements ==
  ASSUME IInv, NEW r \in Runs, pc[r] \in Inner, NEW o \in Outcomes,
         Return(r, o), UNCHANGED ctxDone, o = "ctx" => ctxDone[r],
         Speakers' \in {Speakers, Append(Speakers, r)}
  PROVE  Contract!Next
<1>1. lock = r
  BY Inside DEF Inner
<1>2. Contract!Return(r)
  BY <1>1 DEF Contract!Return, Contract!Outcomes, Outcomes, Return
<1> QED
  BY <1>2 DEF Contract!Next

\* A message about a tool call is a word of the call that runs.
LEMMA ReplyImplements ==
  ASSUME IInv, NEW r \in Runs, pc[r] \in Inner, NEW m \in Message, m.run = r,
         messages' = Append(messages, m), UNCHANGED <<lock, ctxDone, outcome>>
  PROVE  Contract!Next
<1>1. lock = r /\ Speakers' = Append(Speakers, r)
  BY Inside, AppendSpeaker DEF Inner, IInv, TypeOK
<1> QED
  BY <1>1 DEF Contract!Next, Contract!Speak

\* Every step of the loop is one of the contract or a stutter there.
LEMMA NextImplements ==
  IInv /\ [Next]_vars => [Contract!Next]_(Contract!vars)
<1> SUFFICES ASSUME IInv, [Next]_vars
             PROVE  Contract!Next \/ UNCHANGED Contract!vars
  OBVIOUS
<1>1. ASSUME NEW r \in Runs, Enter(r) PROVE Contract!Next
  <2>1. UserMessage(r, 0) \in Message /\ UserMessage(r, 0).run = r
    BY MessageTypes
  <2>2. Speakers' = Append(Speakers, r)
    BY <1>1, <2>1, AppendSpeaker DEF Enter, IInv, TypeOK
  <2>3. outcome[r] = "none"
    BY <1>1 DEF Enter, IInv, BudgetLeft
  <2>4. Contract!Start(r)
    BY <1>1, <2>2, <2>3 DEF Enter, Lock, Contract!Start
  <2> QED
    BY <2>4 DEF Contract!Next
<1>2. ASSUME NEW r \in Runs, CheckCtx(r)
      PROVE  Contract!Next \/ UNCHANGED Contract!vars
  <2>1. CASE ctxDone[r] /\ Return(r, "ctx")
    BY <1>2, <2>1, ReturnImplements DEF CheckCtx, Inner, Outcomes, Speakers
  <2>2. CASE UNCHANGED <<lock, outcome>>
    BY <1>2, <2>2, Unnoticed DEF CheckCtx
  <2> QED
    BY <1>2, <2>1, <2>2 DEF CheckCtx
<1>3. ASSUME NEW r \in Runs, RequestFails(r)
      PROVE  Contract!Next \/ UNCHANGED Contract!vars
  <2>1. CASE Return(r, "unreachable")
    BY <1>3, <2>1, ReturnImplements
       DEF RequestFails, Inner, Outcomes, Speakers
  <2>2. CASE UNCHANGED <<lock, outcome>>
    BY <1>3, <2>2, Unnoticed DEF RequestFails
  <2> QED
    BY <1>3, <2>1, <2>2 DEF RequestFails
<1>4. ASSUME NEW r \in Runs, CompletionArrives(r) PROVE Contract!Next
  <2> PICK c \in Completion :
        /\ messages' = Append(messages, AssistantMessage(r, c))
        /\ Return(r, "stop") \/ UNCHANGED <<lock, outcome>>
    BY <1>4 DEF CompletionArrives
  <2>1. /\ pc[r] \in Inner /\ UNCHANGED ctxDone
        /\ AssistantMessage(r, c) \in Message
        /\ AssistantMessage(r, c).run = r
    BY <1>4, AssistantMessageType DEF CompletionArrives, Inner
  <2>2. CASE Return(r, "stop")
    <3>1. Speakers' = Append(Speakers, r)
      BY <2>1, AppendSpeaker DEF IInv, TypeOK
    <3> QED
      BY <2>1, <2>2, <3>1, ReturnImplements DEF Outcomes
  <2>3. CASE UNCHANGED <<lock, outcome>>
    BY <2>1, <2>3, ReplyImplements
  <2> QED
    BY <2>2, <2>3
<1>5. ASSUME NEW r \in Runs, CompletionIsEmpty(r) PROVE Contract!Next
  BY <1>5, ReturnImplements DEF CompletionIsEmpty, Inner, Outcomes, Speakers
<1>6. ASSUME NEW r \in Runs, ToolStops(r) PROVE Contract!Next
  <2> PICK o \in {"okay", "abort", "panic"} : Return(r, o)
    BY <1>6 DEF ToolStops
  <2> QED
    BY <1>6, ReturnImplements
       DEF ToolStops, Dispatching, Inner, Outcomes, Speakers
<1>7. ASSUME NEW r \in Runs, RejectCall(r) \/ ToolReplies(r)
      PROVE  Contract!Next
  <2>1. nextCall[r] \in Nat
    BY DEF IInv, TypeOK
  <2> QED
    BY <1>7, <2>1, MessageTypes, ReplyImplements
       DEF RejectCall, ToolReplies, TellModel, Dispatching, Inner
<1>8. ASSUME NEW r \in Runs, WakeUp(r) \/ EndTurn(r)
      PROVE  UNCHANGED Contract!vars
  BY <1>8, Unnoticed DEF WakeUp, EndTurn
<1>9. ASSUME NEW r \in Runs, Cancel(r) PROVE Contract!Next
  BY <1>9 DEF Cancel, Contract!Next, Contract!Cancel, Speakers
<1>10. CASE UNCHANGED vars
  BY <1>10, Unnoticed DEF vars
<1> QED
  BY <1>1, <1>2, <1>3, <1>4, <1>5, <1>6, <1>7, <1>8, <1>9, <1>10
     DEF Next, Finished

\* Whatever the loop does with requests, retries and tool calls, its callers
\* see the contract: one call at a time in a conversation that only grows by
\* its words, at most one return each, and cancellation only if cancelled.
THEOREM RefinesContract == Spec => Contract!Safety
<1>1. Init => Contract!Init
  BY InitImplements
<1>2. IInv /\ [Next]_vars => [Contract!Next]_(Contract!vars)
  BY NextImplements
<1> QED
  BY <1>1, <1>2, Invariance, PTL DEF Spec, Contract!Safety
-----------------------------------------------------------------------------
(* Requests and Results: the rest of the inductive invariant.  It speaks of *)
(* the turn that is being answered, which no property mentions.             *)

\* The calls of the turn at i are answered, in order, up to the n-th.
AnswersUpTo(r, i, n) ==
  \A k \in DOMAIN messages[i].calls : k <= n =>
    /\ i + k \in DOMAIN messages
    /\ messages[i + k].run = r
    /\ messages[i + k].call = k
    /\ messages[i + k].role =
         IF messages[i].calls[k] = "valid" THEN "tool" ELSE "user"

\* A call between two turns has its turns answered; in the middle of one, it
\* has those before.  (A call that returned may leave its last turn open.)
TurnsAnswered ==
  \A r \in Runs : \A i \in Turns(r) :
    \/ pc[r] \in {"top", "request", "sleep"}
    \/ pc[r] = "dispatch" /\ i # result[r].messages
    => AnswersUpTo(r, i, Len(messages[i].calls))

\* The turn that is being answered is the one Result.Messages ends with, and
\* nothing but the answers so far has come after it.
OpenTurn ==
  \A r \in Runs : pc[r] = "dispatch" =>
    /\ result[r].messages \in Turns(r)
    /\ nextCall[r] \in 1 .. Len(ToolCalls(r)) + 1
    /\ Len(messages) = result[r].messages + nextCall[r] - 1
    /\ AnswersUpTo(r, result[r].messages, nextCall[r] - 1)

HistoryInv == TurnsAnswered /\ OpenTurn /\ ResultIsOwnProgress

\* The completions of call r that have content.
Spoken(r) == {i \in Turns(r) : messages[i].content}

\* The calls of a message are a sequence of kinds of calls.
LEMMA CallsAreSequence ==
  ASSUME NEW s \in Seq(Message), NEW i \in DOMAIN s
  PROVE  /\ s[i] \in Message
         /\ Len(s[i].calls) \in Nat
         /\ DOMAIN s[i].calls = 1 .. Len(s[i].calls)
<1>1. s[i] \in Message
  OBVIOUS
<1>2. s[i].calls \in CallSeqs
  BY <1>1 DEF Message
<1>3. PICK n \in 0 .. MaxCalls : s[i].calls \in [1 .. n -> Calls]
  BY <1>2 DEF CallSeqs
<1>4. n \in Nat
  BY LoopAssumption
<1>5. s[i].calls \in Seq(Calls)
  BY <1>3, <1>4
<1> QED
  BY <1>1, <1>5

\* What Turns and Spoken become when a message is appended.
LEMMA TurnsAfter ==
  ASSUME messages \in Seq(Message), NEW m \in Message,
         messages' = Append(messages, m), NEW q
  PROVE  /\ m.role = "assistant" /\ m.run = q =>
              /\ Turns(q)' = Turns(q) \cup {Len(messages) + 1}
              /\ Spoken(q)' = Spoken(q) \cup
                                {i \in {Len(messages) + 1} : m.content}
         /\ ~(m.role = "assistant" /\ m.run = q) =>
              Turns(q)' = Turns(q) /\ Spoken(q)' = Spoken(q)
<1>1. /\ Len(messages) \in Nat /\ DOMAIN messages = 1 .. Len(messages)
      /\ DOMAIN messages' = 1 .. Len(messages) + 1
      /\ messages'[Len(messages) + 1] = m
      /\ \A i \in 1 .. Len(messages) : messages'[i] = messages[i]
  BY AppendMessage
<1>2. 1 .. Len(messages) + 1 = 1 .. Len(messages) \cup {Len(messages) + 1}
  BY <1>1
<1>3. Turns(q)' = {i \in DOMAIN messages' : /\ messages'[i].role = "assistant"
                                            /\ messages'[i].run = q}
  BY DEF Turns
<1>4. Spoken(q)' = {i \in Turns(q)' : messages'[i].content}
  BY DEF Spoken
<1>5. Turns(q) \subseteq 1 .. Len(messages)
  BY <1>1 DEF Turns
<1>6. CASE m.role = "assistant" /\ m.run = q
  <2>1. Turns(q)' = Turns(q) \cup {Len(messages) + 1}
    BY <1>1, <1>2, <1>3, <1>6 DEF Turns
  <2>2. Spoken(q)' = Spoken(q) \cup {i \in {Len(messages) + 1} : m.content}
    BY <1>1, <1>4, <1>5, <2>1 DEF Spoken
  <2> QED
    BY <1>6, <2>1, <2>2
<1>7. CASE ~(m.role = "assistant" /\ m.run = q)
  <2>1. Turns(q)' = Turns(q)
    BY <1>1, <1>2, <1>3, <1>7 DEF Turns
  <2>2. Spoken(q)' = Spoken(q)
    BY <1>1, <1>4, <1>5, <2>1 DEF Spoken
  <2> QED
    BY <1>7, <2>1, <2>2
<1> QED
  BY <1>6, <1>7

\* Answers stay where they are when the conversation grows.
LEMMA AnswersKept ==
  ASSUME messages \in Seq(Message), NEW m \in Message,
         messages' = Append(messages, m), NEW q,
         NEW i \in DOMAIN messages, NEW n \in Nat, AnswersUpTo(q, i, n)
  PROVE  AnswersUpTo(q, i, n)'
<1>1. /\ Len(messages) \in Nat /\ DOMAIN messages = 1 .. Len(messages)
      /\ DOMAIN messages' = 1 .. Len(messages) + 1
      /\ \A j \in 1 .. Len(messages) : messages'[j] = messages[j]
  BY AppendMessage
<1>2. messages'[i] = messages[i]
  BY <1>1
<1> SUFFICES ASSUME NEW k \in DOMAIN messages'[i].calls, k <= n
             PROVE  /\ i + k \in DOMAIN messages'
                    /\ messages'[i + k].run = q
                    /\ messages'[i + k].call = k
                    /\ messages'[i + k].role =
                         IF messages'[i].calls[k] = "valid" THEN "tool"
                         ELSE "user"
  BY DEF AnswersUpTo
<1>3. /\ i + k \in DOMAIN messages
      /\ messages[i + k].run = q
      /\ messages[i + k].call = k
      /\ messages[i + k].role =
           IF messages[i].calls[k] = "valid" THEN "tool" ELSE "user"
  BY <1>2 DEF AnswersUpTo
<1>4. messages'[i + k] = messages[i + k] /\ i + k \in DOMAIN messages'
  BY <1>1, <1>3
<1> QED
  BY <1>2, <1>3, <1>4

\* The greatest number of a set is the one no other exceeds.
LEMMA MaxIs ==
  ASSUME NEW S \in SUBSET Nat, NEW x \in S, \A y \in S : x >= y
  PROVE  Max(S) = x
<1>1. Max(S) \in S /\ \A y \in S : Max(S) >= y
  BY DEF Max
<1>2. Max(S) >= x /\ x >= Max(S) /\ Max(S) \in Nat /\ x \in Nat
  BY <1>1
<1> QED
  BY <1>2

-----------------------------------------------------------------------------
(* Every step keeps it.                                                    *)

\* A step that says nothing, and leads no call into or out of a turn except
\* by a return.
LEMMA QuietHistory ==
  ASSUME HistoryInv, UNCHANGED <<messages, result, nextCall>>,
         \A q \in Runs : \/ pc'[q] = pc[q] \/ pc'[q] = "done"
                         \/ {pc[q], pc'[q]} \subseteq {"top", "request", "sleep"}
  PROVE  HistoryInv'
<1>1. \A q, i, n : AnswersUpTo(q, i, n)' <=> AnswersUpTo(q, i, n)
  BY DEF AnswersUpTo
<1>2. \A q : Turns(q)' = Turns(q)
  BY DEF Turns
<1>3. ResultIsOwnProgress'
  BY <1>2 DEF HistoryInv, ResultIsOwnProgress
<1>4. TurnsAnswered'
  BY <1>1, <1>2 DEF HistoryInv, TurnsAnswered
<1>5. OpenTurn'
  <2> SUFFICES ASSUME NEW q \in Runs, pc'[q] = "dispatch"
               PROVE  /\ result'[q].messages \in Turns(q)'
                      /\ nextCall'[q] \in 1 .. Len(ToolCalls(q)') + 1
                      /\ Len(messages') = result'[q].messages + nextCall'[q] - 1
                      /\ AnswersUpTo(q, result[q].messages, nextCall[q] - 1)'
    BY DEF OpenTurn
  <2>1. pc[q] = "dispatch"
    OBVIOUS
  <2>2. ToolCalls(q)' = ToolCalls(q)
    BY DEF ToolCalls
  <2>3. AnswersUpTo(q, result[q].messages, nextCall[q] - 1)
    BY <2>1 DEF HistoryInv, OpenTurn
  <2>4. AnswersUpTo(q, result[q].messages, nextCall[q] - 1)'
    BY <2>3 DEF AnswersUpTo
  <2> QED
    BY <1>2, <2>1, <2>2, <2>4 DEF HistoryInv, OpenTurn
<1> QED
  BY <1>3, <1>4, <1>5 DEF HistoryInv

\* What a call appends that is no completion is in no turn's way: the others
\* have their turns behind them or do not speak.
LEMMA OthersAreOut ==
  ASSUME IInv, NEW r \in Runs, pc[r] \in Inner, NEW q \in Runs, q # r
  PROVE  pc[q] \in {"lock", "done"}
  BY Inside DEF Inner

\* A message that is no completion changes no Result.
LEMMA ProgressKept ==
  ASSUME IInv, HistoryInv, NEW m \in Message, m.role # "assistant",
         messages' = Append(messages, m), UNCHANGED result
  PROVE  /\ ResultIsOwnProgress'
         /\ \A q \in Runs : Turns(q)' = Turns(q)
<1>1. \A q \in Runs : Turns(q)' = Turns(q) /\ Spoken(q)' = Spoken(q)
  <2> TAKE q \in Runs
  <2> QED
    BY TurnsAfter DEF IInv, TypeOK
<1>2. \A q \in Runs :
        /\ result'[q].completions = Cardinality(Turns(q)')
        /\ result'[q].messages = Max(Turns(q)' \cup {0})
        /\ result'[q].response = Max(Spoken(q)' \cup {0})
  BY <1>1 DEF HistoryInv, ResultIsOwnProgress, Spoken
<1> QED
  BY <1>1, <1>2 DEF ResultIsOwnProgress, Spoken

\* The prompt: a call that has waited has no turns yet.
LEMMA EnterHistory ==
  ASSUME IInv, HistoryInv, NEW r \in Runs, Enter(r)
  PROVE  HistoryInv'
<1> DEFINE m == UserMessage(r, 0)
<1>1. /\ m \in Message /\ m.role # "assistant"
      /\ messages' = Append(messages, m) /\ UNCHANGED result
      /\ messages \in Seq(Message)
  BY MessageTypes DEF Enter, UserMessage, IInv, TypeOK
<1> HIDE DEF m
<1>2. ResultIsOwnProgress' /\ \A q \in Runs : Turns(q)' = Turns(q)
  BY <1>1, ProgressKept
<1>3. Turns(r)' = {}
  <2>1. Turns(r) = {}
    BY DEF IInv, WaitersAreSilent, Turns, Enter
  <2> QED
    BY <1>2, <2>1
<1>4. \A q \in Runs \ {r} : pc'[q] \in {"lock", "done"}
  BY LoopAssumption DEF IInv, TypeOK, LockHeld, Enter, Lock, Goto
<1>5. pc'[r] = "top"
  BY DEF IInv, TypeOK, Enter, Goto
<1>6. TurnsAnswered'
  BY <1>3, <1>4 DEF TurnsAnswered
<1>7. OpenTurn'
  BY <1>4, <1>5 DEF OpenTurn
<1> QED
  BY <1>2, <1>6, <1>7 DEF HistoryInv

\* A completion is counted in the Result of its call, and in no other.
LEMMA CompletionIsCounted ==
  ASSUME IInv, HistoryInv, NEW r \in Runs, NEW c \in Completion,
         messages' = Append(messages, AssistantMessage(r, c)),
         result' = [result EXCEPT ![r] =
                      Counted(result[r], c, Len(messages) + 1)]
  PROVE  /\ ResultIsOwnProgress'
         /\ Turns(r)' = Turns(r) \cup {Len(messages) + 1}
         /\ result'[r].messages = Len(messages) + 1
         /\ \A i \in Turns(r) : i \in DOMAIN messages
<1> DEFINE m == AssistantMessage(r, c)
           n == Len(messages) + 1
<1>1. /\ m \in Message /\ m.run = r /\ m.role = "assistant"
      /\ m.content = c.content /\ c.content \in BOOLEAN
      /\ messages' = Append(messages, m)
      /\ messages \in Seq(Message) /\ n \in Nat
  <2>1. messages \in Seq(Message) /\ n \in Nat
    BY DEF IInv, TypeOK
  <2>2. m \in Message /\ m.run = r
    BY AssistantMessageType
  <2>3. m.role = "assistant" /\ m.content = c.content /\ c.content \in BOOLEAN
    BY DEF AssistantMessage, Completion
  <2> QED
    BY <2>1, <2>2, <2>3
<1>2. /\ result'[r].messages = n
      /\ result'[r].response = IF c.content THEN n ELSE result[r].response
      /\ result'[r].completions = result[r].completions + 1
      /\ \A q \in Runs \ {r} : result'[q] = result[q]
  BY DEF Counted, IInv, TypeOK
<1> HIDE DEF m, n
<1>3. \A q \in Runs : q # r => Turns(q)' = Turns(q) /\ Spoken(q)' = Spoken(q)
  <2> SUFFICES ASSUME NEW q \in Runs, q # r
               PROVE  Turns(q)' = Turns(q) /\ Spoken(q)' = Spoken(q)
    OBVIOUS
  <2> QED
    BY <1>1, TurnsAfter
<1>4. /\ Turns(r)' = Turns(r) \cup {n}
      /\ Spoken(r)' = Spoken(r) \cup {i \in {n} : c.content}
  BY <1>1, TurnsAfter DEF n
<1>5. /\ Turns(r) \subseteq 1 .. Len(messages)
      /\ Spoken(r) \subseteq Turns(r)
      /\ Len(messages) \in Nat
  BY <1>1 DEF Turns, Spoken
<1>6. /\ result[r].completions = Cardinality(Turns(r))
      /\ result[r].response = Max(Spoken(r) \cup {0})
  BY DEF HistoryInv, ResultIsOwnProgress, Spoken
<1>7. Cardinality(Turns(r)') = Cardinality(Turns(r)) + 1
  <2>1. IsFiniteSet(1 .. Len(messages))
    BY <1>5, FS_Interval
  <2>2. IsFiniteSet(Turns(r)) /\ n \notin Turns(r)
    BY <1>5, <2>1, FS_Subset DEF n
  <2> QED
    BY <1>4, <2>2, FS_AddElement
<1>8. Max(Turns(r)' \cup {0}) = n
  <2> DEFINE S == Turns(r)' \cup {0}
  <2>1. S \in SUBSET Nat /\ n \in S /\ \A y \in S : n >= y
    BY <1>1, <1>4, <1>5 DEF n
  <2> QED
    BY <2>1, MaxIs
<1>9. result'[r].response = Max(Spoken(r)' \cup {0})
  <2>1. CASE c.content
    <3> DEFINE S == Spoken(r)' \cup {0}
    <3>1. S \in SUBSET Nat /\ n \in S /\ \A y \in S : n >= y
      BY <1>1, <1>4, <1>5, <2>1 DEF n
    <3>2. Max(S) = n
      BY <3>1, MaxIs
    <3> QED
      BY <1>2, <2>1, <3>2
  <2>2. CASE ~c.content
    <3>1. Spoken(r)' = Spoken(r)
      BY <1>4, <2>2
    <3> QED
      BY <1>2, <1>6, <2>2, <3>1
  <2> QED
    BY <1>1, <2>1, <2>2
<1>10. \A q \in Runs :
        /\ result'[q].completions = Cardinality(Turns(q)')
        /\ result'[q].messages = Max(Turns(q)' \cup {0})
        /\ result'[q].response = Max(Spoken(q)' \cup {0})
  <2> SUFFICES ASSUME NEW q \in Runs
               PROVE  /\ result'[q].completions = Cardinality(Turns(q)')
                      /\ result'[q].messages = Max(Turns(q)' \cup {0})
                      /\ result'[q].response = Max(Spoken(q)' \cup {0})
    OBVIOUS
  <2>1. CASE q = r
    BY <1>2, <1>6, <1>7, <1>8, <1>9, <2>1
  <2>2. CASE q # r
    <3>1. /\ result[q].completions = Cardinality(Turns(q))
          /\ result[q].messages = Max(Turns(q) \cup {0})
          /\ result[q].response = Max(Spoken(q) \cup {0})
      BY DEF HistoryInv, ResultIsOwnProgress, Spoken
    <3>2. /\ result'[q] = result[q]
          /\ Turns(q)' = Turns(q) /\ Spoken(q)' = Spoken(q)
      BY <1>2, <1>3, <2>2
    <3> QED
      BY <3>1, <3>2
  <2> QED
    BY <2>1, <2>2
<1>11. ResultIsOwnProgress'
  BY <1>10 DEF ResultIsOwnProgress, Spoken
<1> QED
  BY <1>2, <1>4, <1>11 DEF n, Turns

\* A completion opens a turn, or ends its call.
LEMMA CompletionHistory ==
  ASSUME IInv, HistoryInv, NEW r \in Runs, CompletionArrives(r)
  PROVE  HistoryInv'
<1> PICK c \in Completion :
      /\ messages' = Append(messages, AssistantMessage(r, c))
      /\ result' = [result EXCEPT ![r] =
                      Counted(result[r], c, Len(messages) + 1)]
      /\ \/ Return(r, "stop")
         \/ Goto(r, "dispatch") /\ UNCHANGED <<lock, outcome>>
  BY DEF CompletionArrives
<1> DEFINE m == AssistantMessage(r, c)
           n == Len(messages) + 1
<1>1. /\ m \in Message /\ messages' = Append(messages, m)
      /\ messages \in Seq(Message) /\ n \in Nat
  BY AssistantMessageType DEF IInv, TypeOK
<1>2. /\ ResultIsOwnProgress'
      /\ Turns(r)' = Turns(r) \cup {n}
      /\ result'[r].messages = n
      /\ Turns(r) \subseteq DOMAIN messages
  BY CompletionIsCounted
<1>3. /\ Len(messages') = n /\ n \in DOMAIN messages'
      /\ messages'[n] \in Message
      /\ messages' \in Seq(Message)
  BY <1>1, AppendMessage
<1> HIDE DEF m, n
<1>4. \A q \in Runs \ {r} : pc'[q] \in {"lock", "done"}
  <2>1. pc[r] = "request" /\ pc[r] \in Inner
    BY DEF CompletionArrives, Inner
  <2>2. \A q \in Runs \ {r} : pc'[q] = pc[q]
    BY DEF Return, Goto, IInv, TypeOK
  <2> QED
    BY <2>1, <2>2, OthersAreOut
<1>5. pc'[r] \in {"done", "dispatch"}
  BY DEF Return, Goto, IInv, TypeOK
<1>6. nextCall'[r] = 1
  BY DEF CompletionArrives, IInv, TypeOK
<1>7. TurnsAnswered'
  <2> SUFFICES ASSUME NEW q \in Runs, NEW i \in Turns(q)',
                      pc'[q] = "dispatch", i # result'[q].messages, q = r
               PROVE  AnswersUpTo(q, i, Len(messages[i].calls))'
    BY <1>4, <1>5 DEF TurnsAnswered
  <2>1. i \in Turns(r) /\ i \in DOMAIN messages
    BY <1>2
  <2>2. pc[r] = "request"
    BY DEF CompletionArrives
  <2>3. AnswersUpTo(r, i, Len(messages[i].calls))
    BY <2>1, <2>2 DEF HistoryInv, TurnsAnswered
  <2>4. Len(messages[i].calls) \in Nat /\ messages'[i] = messages[i]
    BY <1>1, <2>1, CallsAreSequence, AppendMessage
  <2>5. PICK k \in Nat : k = Len(messages[i].calls)
    BY <2>4
  <2>6. AnswersUpTo(r, i, k)'
    BY <1>1, <2>1, <2>3, <2>5, AnswersKept
  <2> QED
    BY <2>4, <2>5, <2>6
<1>8. OpenTurn'
  <2> SUFFICES ASSUME pc'[r] = "dispatch"
               PROVE  /\ result'[r].messages \in Turns(r)'
                      /\ nextCall'[r] \in 1 .. Len(ToolCalls(r)') + 1
                      /\ Len(messages') =
                           result'[r].messages + nextCall'[r] - 1
                      /\ AnswersUpTo(r, result[r].messages, nextCall[r] - 1)'
    BY <1>4 DEF OpenTurn
  <2>1. /\ Len(messages'[n].calls) \in Nat
        /\ DOMAIN messages'[n].calls = 1 .. Len(messages'[n].calls)
    BY <1>3, CallsAreSequence
  <2>2. ToolCalls(r)' = messages'[n].calls
    BY <1>2 DEF ToolCalls
  <2>3. \A k \in DOMAIN messages'[n].calls : ~(k <= nextCall'[r] - 1)
    BY <1>6, <2>1
  <2>4. AnswersUpTo(r, result[r].messages, nextCall[r] - 1)'
    BY <1>2, <2>3 DEF AnswersUpTo
  <2> QED
    BY <1>1, <1>2, <1>3, <1>6, <2>1, <2>2, <2>4
<1> QED
  BY <1>2, <1>7, <1>8 DEF HistoryInv

\* An answer continues the open turn of the call that runs.
LEMMA ReplyHistory ==
  ASSUME IInv, HistoryInv, NEW r \in Runs, pc[r] = "dispatch",
         nextCall[r] <= Len(ToolCalls(r)), NextCall(r),
         NEW m \in Message, m.run = r, m.call = nextCall[r],
         m.role = IF ToolCalls(r)[nextCall[r]] = "valid" THEN "tool"
                  ELSE "user",
         messages' = Append(messages, m), UNCHANGED <<pc, result>>
  PROVE  HistoryInv'
<1>1. messages \in Seq(Message) /\ m.role # "assistant"
  BY DEF IInv, TypeOK
<1>2. ResultIsOwnProgress' /\ \A q \in Runs : Turns(q)' = Turns(q)
  BY <1>1, ProgressKept
<1>3. PICK n, k : n = result[r].messages /\ k = nextCall[r]
  OBVIOUS
<1>4. /\ n \in Turns(r) /\ n \in DOMAIN messages
      /\ k \in 1 .. Len(messages[n].calls) + 1
      /\ k <= Len(messages[n].calls)
      /\ Len(messages) = n + k - 1
      /\ AnswersUpTo(r, n, k - 1)
  BY <1>3 DEF HistoryInv, OpenTurn, ToolCalls, Turns
<1>5. /\ Len(messages[n].calls) \in Nat
      /\ DOMAIN messages[n].calls = 1 .. Len(messages[n].calls)
      /\ n \in Nat /\ k \in Nat /\ k \in DOMAIN messages[n].calls
  BY <1>1, <1>4, CallsAreSequence
<1>6. /\ nextCall'[r] = k + 1 /\ result'[r].messages = n
      /\ \A q \in Runs \ {r} : nextCall'[q] = nextCall[q]
  BY <1>3 DEF NextCall, IInv, TypeOK
<1>7. /\ Len(messages') = n + k
      /\ n + k \in DOMAIN messages' /\ messages'[n + k] = m
      /\ messages'[n] = messages[n]
  <2>1. /\ Len(messages') = Len(messages) + 1
        /\ DOMAIN messages' = 1 .. Len(messages) + 1
        /\ messages'[Len(messages) + 1] = m
        /\ \A i \in 1 .. Len(messages) : messages'[i] = messages[i]
    BY <1>1, AppendMessage
  <2>2. n \in 1 .. Len(messages)
    BY <1>1, <1>4
  <2>3. Len(messages) + 1 = n + k
    BY <1>4, <1>5
  <2> QED
    BY <1>5, <2>1, <2>2, <2>3
<1>8. AnswersUpTo(r, n, k - 1)'
  BY <1>1, <1>4, <1>5, AnswersKept
<1>9. AnswersUpTo(r, n, k)'
  <2> SUFFICES ASSUME NEW j \in DOMAIN messages'[n].calls, j <= k
               PROVE  /\ n + j \in DOMAIN messages'
                      /\ messages'[n + j].run = r
                      /\ messages'[n + j].call = j
                      /\ messages'[n + j].role =
                           IF messages'[n].calls[j] = "valid" THEN "tool"
                           ELSE "user"
    BY DEF AnswersUpTo
  <2>1. CASE j = k
    BY <1>3, <1>7, <2>1 DEF ToolCalls
  <2>2. CASE j # k
    <3>1. j <= k - 1
      BY <1>5, <1>7, <2>2
    <3> QED
      BY <1>8, <3>1 DEF AnswersUpTo
  <2> QED
    BY <2>1, <2>2
<1>10. \A q \in Runs \ {r} : pc'[q] \in {"lock", "done"}
  BY OthersAreOut DEF Inner
<1>11. TurnsAnswered'
  <2> SUFFICES ASSUME NEW i \in Turns(r)', i # result'[r].messages
               PROVE  AnswersUpTo(r, i, Len(messages[i].calls))'
    BY <1>10 DEF TurnsAnswered
  <2>1. i \in Turns(r) /\ i \in DOMAIN messages
    BY <1>2 DEF Turns
  <2>2. AnswersUpTo(r, i, Len(messages[i].calls))
    BY <2>1 DEF HistoryInv, TurnsAnswered
  <2>3. Len(messages[i].calls) \in Nat /\ messages'[i] = messages[i]
    BY <1>1, <2>1, CallsAreSequence, AppendMessage
  <2>4. PICK l \in Nat : l = Len(messages[i].calls)
    BY <2>3
  <2>5. AnswersUpTo(r, i, l)'
    BY <1>1, <2>1, <2>2, <2>4, AnswersKept
  <2> QED
    BY <2>3, <2>4, <2>5
<1>12. OpenTurn'
  <2> SUFFICES /\ result'[r].messages \in Turns(r)'
               /\ nextCall'[r] \in 1 .. Len(ToolCalls(r)') + 1
               /\ Len(messages') = result'[r].messages + nextCall'[r] - 1
               /\ AnswersUpTo(r, result[r].messages, nextCall[r] - 1)'
    BY <1>10 DEF OpenTurn
  <2>1. ToolCalls(r)' = messages[n].calls
    BY <1>6, <1>7 DEF ToolCalls
  <2>2. result'[r].messages = n /\ nextCall'[r] - 1 = k
    BY <1>5, <1>6
  <2>3. AnswersUpTo(r, result[r].messages, nextCall[r] - 1)'
    BY <1>9, <2>2 DEF AnswersUpTo
  <2> QED
    BY <1>2, <1>4, <1>5, <1>6, <1>7, <2>1, <2>3
<1> QED
  BY <1>2, <1>11, <1>12 DEF HistoryInv

\* The end of a turn: its last call is answered.
LEMMA EndTurnHistory ==
  ASSUME IInv, HistoryInv, NEW r \in Runs, EndTurn(r)
  PROVE  HistoryInv'
<1>1. /\ pc[r] = "dispatch" /\ pc' = [pc EXCEPT ![r] = "top"]
      /\ nextCall[r] > Len(ToolCalls(r))
      /\ UNCHANGED <<messages, result, nextCall>>
  BY DEF EndTurn, Goto
<1>2. pc'[r] = "top" /\ \A q \in Runs \ {r} : pc'[q] = pc[q]
  BY <1>1 DEF IInv, TypeOK
<1>3. \A q, i, n : AnswersUpTo(q, i, n)' <=> AnswersUpTo(q, i, n)
  BY <1>1 DEF AnswersUpTo
<1>4. \A q : Turns(q)' = Turns(q)
  BY <1>1 DEF Turns
<1>5. ResultIsOwnProgress'
  BY <1>1, <1>4 DEF HistoryInv, ResultIsOwnProgress
<1>6. \A i \in Turns(r) : AnswersUpTo(r, i, Len(messages[i].calls))
  <2> SUFFICES ASSUME NEW i \in Turns(r)
               PROVE  AnswersUpTo(r, i, Len(messages[i].calls))
    OBVIOUS
  <2>1. CASE i # result[r].messages
    BY <1>1, <2>1 DEF HistoryInv, TurnsAnswered
  <2>2. CASE i = result[r].messages
    <3>1. i \in DOMAIN messages /\ messages \in Seq(Message)
      BY DEF Turns, IInv, TypeOK
    <3>2. Len(messages[i].calls) \in Nat
      BY <3>1, CallsAreSequence
    <3>3. /\ nextCall[r] \in 1 .. Len(messages[i].calls) + 1
          /\ nextCall[r] > Len(messages[i].calls)
          /\ AnswersUpTo(r, i, nextCall[r] - 1)
      BY <1>1, <2>2 DEF HistoryInv, OpenTurn, ToolCalls
    <3>4. nextCall[r] - 1 = Len(messages[i].calls)
      BY <3>2, <3>3
    <3> QED
      BY <3>3, <3>4
  <2> QED
    BY <2>1, <2>2
<1>7. TurnsAnswered'
  <2> SUFFICES ASSUME NEW q \in Runs, NEW i \in Turns(q),
                      \/ pc'[q] \in {"top", "request", "sleep"}
                      \/ pc'[q] = "dispatch" /\ i # result[q].messages
               PROVE  AnswersUpTo(q, i, Len(messages[i].calls))
    BY <1>1, <1>3, <1>4 DEF TurnsAnswered
  <2> QED
    BY <1>2, <1>6 DEF HistoryInv, TurnsAnswered
<1>8. OpenTurn'
  <2> SUFFICES ASSUME NEW q \in Runs, pc'[q] = "dispatch"
               PROVE  /\ result'[q].messages \in Turns(q)'
                      /\ nextCall'[q] \in 1 .. Len(ToolCalls(q)') + 1
                      /\ Len(messages') =
                           result'[q].messages + nextCall'[q] - 1
                      /\ AnswersUpTo(q, result[q].messages, nextCall[q] - 1)'
    BY DEF OpenTurn
  <2>1. pc[q] = "dispatch"
    BY <1>2
  <2>2. ToolCalls(q)' = ToolCalls(q)
    BY <1>1 DEF ToolCalls
  <2>3. AnswersUpTo(q, result[q].messages, nextCall[q] - 1)
    BY <2>1 DEF HistoryInv, OpenTurn
  <2>4. AnswersUpTo(q, result[q].messages, nextCall[q] - 1)'
    BY <1>1, <2>3 DEF AnswersUpTo
  <2> QED
    BY <1>1, <1>4, <2>1, <2>2, <2>4 DEF HistoryInv, OpenTurn
<1> QED
  BY <1>5, <1>7, <1>8 DEF HistoryInv

\* At first nobody has asked or answered anything.
LEMMA InitHistory == Init => HistoryInv
<1> SUFFICES ASSUME Init PROVE HistoryInv
  OBVIOUS
<1>1. \A r \in Runs : Turns(r) = {} /\ Spoken(r) = {}
  <2>1. DOMAIN messages = {1} /\ messages[1].role = "system"
    BY DEF Init, SystemMessage
  <2> QED
    BY <2>1 DEF Turns, Spoken
<1>2. TurnsAnswered /\ OpenTurn
  BY <1>1 DEF Init, TurnsAnswered, OpenTurn
<1>3. Max({} \cup {0}) = 0 /\ Cardinality({}) = 0
  <2>1. {} \cup {0} \in SUBSET Nat /\ 0 \in {} \cup {0}
    OBVIOUS
  <2>2. Max({} \cup {0}) = 0
    BY <2>1, MaxIs
  <2> QED
    BY <2>2, FS_EmptySet
<1>4. \A r \in Runs : /\ result[r].completions = 0 /\ result[r].messages = 0
                      /\ result[r].response = 0
  BY DEF Init
<1>5. \A r \in Runs :
        /\ result[r].completions = Cardinality(Turns(r))
        /\ result[r].messages = Max(Turns(r) \cup {0})
        /\ result[r].response = Max(Spoken(r) \cup {0})
  BY <1>1, <1>3, <1>4
<1>6. ResultIsOwnProgress
  BY <1>5 DEF ResultIsOwnProgress, Spoken
<1> QED
  BY <1>2, <1>6 DEF HistoryInv

\* Every step of the loop keeps it.
LEMMA NextHistory == IInv /\ HistoryInv /\ [Next]_vars => HistoryInv'
<1> SUFFICES ASSUME IInv, HistoryInv, [Next]_vars PROVE HistoryInv'
  OBVIOUS
<1>1. ASSUME NEW r \in Runs, Enter(r) PROVE HistoryInv'
  BY <1>1, EnterHistory
<1>2. ASSUME NEW r \in Runs,
             CheckCtx(r) \/ RequestFails(r) \/ WakeUp(r)
      PROVE  HistoryInv'
  <2>1. \/ pc' = [pc EXCEPT ![r] = "done"]
        \/ /\ pc[r] \in {"top", "request", "sleep"}
           /\ \E l \in {"top", "request", "sleep"} : pc' = [pc EXCEPT ![r] = l]
    BY <1>2 DEF CheckCtx, RequestFails, WakeUp, Return, Goto
  <2>2. UNCHANGED <<messages, result, nextCall>>
    BY <1>2 DEF CheckCtx, RequestFails, WakeUp
  <2>3. \A q \in Runs :
          \/ pc'[q] = pc[q] \/ pc'[q] = "done"
          \/ {pc[q], pc'[q]} \subseteq {"top", "request", "sleep"}
    BY <2>1 DEF IInv, TypeOK
  <2> QED
    BY <2>2, <2>3, QuietHistory
<1>3. ASSUME NEW r \in Runs, CompletionIsEmpty(r) \/ ToolStops(r)
      PROVE  HistoryInv'
  <2>1. /\ pc' = [pc EXCEPT ![r] = "done"]
        /\ UNCHANGED <<messages, result, nextCall>>
    BY <1>3 DEF CompletionIsEmpty, ToolStops, Return, Goto
  <2>2. \A q \in Runs : pc'[q] = pc[q] \/ pc'[q] = "done"
    BY <2>1 DEF IInv, TypeOK
  <2> QED
    BY <2>1, <2>2, QuietHistory
<1>4. ASSUME NEW r \in Runs, CompletionArrives(r) PROVE HistoryInv'
  BY <1>4, CompletionHistory
<1>5. ASSUME NEW r \in Runs, RejectCall(r) PROVE HistoryInv'
  <2> DEFINE m == UserMessage(r, nextCall[r])
  <2>1. m \in Message /\ m.run = r /\ m.call = nextCall[r] /\ m.role = "user"
    BY MessageTypes DEF UserMessage, IInv, TypeOK
  <2>2. ToolCalls(r)[nextCall[r]] # "valid" /\ pc[r] = "dispatch"
        /\ nextCall[r] <= Len(ToolCalls(r))
    BY <1>5 DEF RejectCall, Dispatching
  <2>3. /\ messages' = Append(messages, m) /\ NextCall(r)
        /\ UNCHANGED <<pc, result>>
    BY <1>5 DEF RejectCall, TellModel
  <2> HIDE DEF m
  <2> QED
    BY <2>1, <2>2, <2>3, ReplyHistory
<1>6. ASSUME NEW r \in Runs, ToolReplies(r) PROVE HistoryInv'
  <2> DEFINE m == ToolMessage(r, nextCall[r])
  <2>1. m \in Message /\ m.run = r /\ m.call = nextCall[r] /\ m.role = "tool"
    BY MessageTypes DEF ToolMessage, IInv, TypeOK
  <2>2. ToolCalls(r)[nextCall[r]] = "valid" /\ pc[r] = "dispatch"
        /\ nextCall[r] <= Len(ToolCalls(r))
    BY <1>6 DEF ToolReplies, Dispatching
  <2>3. /\ messages' = Append(messages, m) /\ NextCall(r)
        /\ UNCHANGED <<pc, result>>
    BY <1>6 DEF ToolReplies
  <2> HIDE DEF m
  <2> QED
    BY <2>1, <2>2, <2>3, ReplyHistory
<1>7. ASSUME NEW r \in Runs, EndTurn(r) PROVE HistoryInv'
  BY <1>7, EndTurnHistory
<1>8. ASSUME UNCHANGED <<messages, result, nextCall, pc>> PROVE HistoryInv'
  BY <1>8, QuietHistory
<1>9. ASSUME NEW r \in Runs, Cancel(r) PROVE HistoryInv'
  BY <1>8, <1>9 DEF Cancel
<1>10. CASE UNCHANGED vars
  BY <1>8, <1>10 DEF vars
<1> QED
  BY <1>1, <1>2, <1>3, <1>4, <1>5, <1>6, <1>7, <1>9, <1>10
     DEF Next, Finished

\* The open turn, the answered ones and the Results are as stated in every
\* reachable state.
THEOREM HistoryInvariance == Spec => []HistoryInv
<1>1. Init => HistoryInv
  BY InitHistory
<1>2. IInv /\ HistoryInv /\ [Next]_vars => HistoryInv'
  BY NextHistory
<1> QED
  BY <1>1, <1>2, Invariance, PTL DEF Spec

\* However many turns, tool calls and concurrent callers there are, a request
\* finds every tool call of its own call's turns answered, in order, once.
THEOREM CallsAreAnswered == Spec => []AnsweredBeforeRequest
<1>1. IInv /\ HistoryInv => AnsweredBeforeRequest
  <2> SUFFICES ASSUME IInv, HistoryInv, NEW r \in Runs, pc[r] = "request",
                      NEW i \in Turns(r), NEW k \in DOMAIN messages[i].calls
               PROVE  /\ i + k \in DOMAIN messages
                      /\ messages[i + k].run = r
                      /\ messages[i + k].call = k
                      /\ messages[i + k].role =
                           IF messages[i].calls[k] = "valid" THEN "tool"
                           ELSE "user"
    BY DEF AnsweredBeforeRequest
  <2>1. messages \in Seq(Message) /\ i \in DOMAIN messages
    BY DEF IInv, TypeOK, Turns
  <2>2. k <= Len(messages[i].calls)
    BY <2>1, CallsAreSequence
  <2>3. AnswersUpTo(r, i, Len(messages[i].calls))
    BY DEF HistoryInv, TurnsAnswered
  <2> QED
    BY <2>2, <2>3 DEF AnswersUpTo
<1> QED
  BY <1>1, Invariance, HistoryInvariance, PTL

\* The Result of a call, also of one that failed, counts each of its
\* completions once, and none of another call's, and ends with the last one.
THEOREM ResultsAreOwn == Spec => []ResultIsOwnProgress
<1>1. HistoryInv => ResultIsOwnProgress
  BY DEF HistoryInv
<1> QED
  BY <1>1, HistoryInvariance, PTL
=============================================================================
