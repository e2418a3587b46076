------------------------ MODULE InvokeHandlerProofs ------------------------
(***************************************************************************)
(* Theorems about InvokeHandler: its types, that only a webhook that passed *)
(* every check is launched, that client, log and launcher agree, and that a *)
(* handler is one of Webhookd.                                              *)
(*                                                                         *)
(* The handlers are a sequence, so the invariant says for each of them what *)
(* the ones before it have established.                                     *)
(***************************************************************************)
EXTENDS InvokeHandler, TLAPS

\* Nothing has been told to anybody, and nothing been launched.
Untouched == prompts = << >> /\ sent = 0 /\ logged = << >>

\* What is known of the request at each handler.
Checked ==
  /\ pc \in {"auth", "type", "body", "valid", "launch", "panic", "reply"}
       => req.route = "invoke"
  /\ pc \in {"type", "body", "valid", "launch", "panic", "reply"}
       => Accepted(req.token)
  /\ pc \in {"body", "valid", "launch", "panic", "reply"} => req.json
  /\ pc \in {"valid", "launch", "panic", "reply"} => read = req.size
  /\ pc \in {"launch", "panic", "reply"} => req.valid

\* A handler at work has answered nobody yet, and the body read so far is
\* within the limit.
AtWork ==
  /\ read <= MaxBody
  /\ pc \in {"mux", "auth", "type", "body", "valid", "launch", "panic"}
       => Untouched
  /\ pc = "reply" => prompts = <<read>> /\ sent = 0 /\ logged = << >>

\* What is launched has been checked; who is kept out, was.
Launched ==
  /\ prompts # << >> =>
       /\ prompts = <<req.size>> /\ read = req.size
       /\ req.valid /\ req.route = "invoke" /\ req.json
       /\ Accepted(req.token)
  /\ sent = 401 => ~Accepted(req.token)

\* An answer agrees with what was launched and with what is logged of it.
Answered ==
  /\ pc \in {"log", "done"} => /\ sent # 0 /\ recorded = sent
                               /\ sent = 202 <=> prompts # << >>
  /\ pc = "log" => logged = << >>
  /\ pc = "done" => logged = <<sent>>

IInv == TypeOK /\ Checked /\ AtWork /\ Launched /\ Answered

-----------------------------------------------------------------------------

\* An answer to a request of which nothing was told or launched before, other
\* than the 202, leaves everything as it should be (Answer, all its uses but
\* Accept).
LEMMA RefusalIsFine ==
  ASSUME IInv, Untouched, NEW code \in Status, code # 202,
         code = 401 => ~Accepted(req.token),
         Answer(code), UNCHANGED <<secret, req, read, prompts, logged>>
  PROVE  IInv'
<1>1. TypeOK'
  BY DEF IInv, TypeOK, Answer, WriteHeader, Untouched
<1>2. Checked' /\ AtWork'
  BY DEF IInv, Checked, AtWork, Untouched, Answer, WriteHeader, Accepted
<1>3. prompts' = << >> /\ sent' = code /\ recorded' = code /\ pc' = "log"
      /\ logged' = << >>
  BY DEF Untouched, Answer, WriteHeader
<1>4. Launched'
  BY <1>3 DEF Launched, Accepted
<1>5. code # 0
  BY DEF Status
<1>6. Answered'
  BY <1>3, <1>5 DEF Answered
<1> QED BY <1>1, <1>2, <1>4, <1>6 DEF IInv

\* A check that is passed leaves everything but pc as it is (Pass).
LEMMA PassIsFine ==
  ASSUME IInv,
         NEW label \in {"auth", "type", "body", "valid", "launch", "panic"},
         pc \in {"mux", "auth", "type", "body", "valid", "launch"},
         Pass(label), UNCHANGED <<secret, req, read, prompts, logged>>,
         Checked'
  PROVE  IInv'
<1>1. TypeOK'
  BY DEF IInv, TypeOK, Pass
<1>2. AtWork' /\ Launched' /\ Answered'
  BY DEF IInv, AtWork, Launched, Answered, Untouched, Pass, Accepted
<1> QED BY <1>1, <1>2 DEF IInv

\* The invariant holds at first and is kept by every handler.
LEMMA Invariance == Spec => []IInv
<1>1. Init => IInv
  <2> SUFFICES ASSUME Init PROVE IInv
    OBVIOUS
  <2>1. TypeOK
    BY HandlerAssumption DEF Init, TypeOK, FirstStatus, Status
  <2>2. Checked /\ AtWork
    BY HandlerAssumption DEF Init, Checked, AtWork, Untouched
  <2>3. Launched /\ Answered
    BY DEF Init, Launched, Answered
  <2> QED BY <2>1, <2>2, <2>3 DEF IInv
<1>2. IInv /\ [Next]_vars => IInv'
  <2> SUFFICES ASSUME IInv, [Next]_vars PROVE IInv'
    OBVIOUS
  <2> USE DEF IInv
  <2>1. CASE Route
    <3>1. CASE req.route = "invoke" /\ Pass("auth")
      <4>1. Checked'
        BY <2>1, <3>1 DEF Route, Pass, Checked
      <4> QED BY <2>1, <3>1, <4>1, PassIsFine DEF Route
    <3>2. CASE req.route # "invoke" /\ Answer(RouteStatus[req.route])
      <4>0. req.route \in {"healthz", "method", "unknown"}
        BY <3>2 DEF TypeOK, Request
      <4>1. /\ RouteStatus[req.route] \in Status
            /\ RouteStatus[req.route] \notin {202, 401}
        BY <4>0 DEF RouteStatus, Status
      <4>2. Untouched
        BY <2>1 DEF Route, AtWork
      <4> QED BY <2>1, <3>2, <4>1, <4>2, RefusalIsFine DEF Route
    <3> QED BY <2>1, <3>1, <3>2 DEF Route
  <2>2. CASE RequireToken
    <3>1. CASE Accepted(req.token) /\ Pass("type")
      <4>1. Checked'
        BY <2>2, <3>1 DEF RequireToken, Pass, Checked, Accepted
      <4> QED BY <2>2, <3>1, <4>1, PassIsFine DEF RequireToken
    <3>2. CASE ~Accepted(req.token) /\ Answer(401)
      BY <2>2, <3>2, RefusalIsFine DEF RequireToken, Status, AtWork
    <3> QED BY <2>2, <3>1, <3>2 DEF RequireToken
  <2>3. CASE CheckType
    <3>1. CASE req.json /\ Pass("body")
      <4>1. Checked'
        BY <2>3, <3>1 DEF CheckType, Pass, Checked, Accepted
      <4> QED BY <2>3, <3>1, <4>1, PassIsFine DEF CheckType
    <3>2. CASE ~req.json /\ Answer(415)
      BY <2>3, <3>2, RefusalIsFine DEF CheckType, Status, AtWork
    <3> QED BY <2>3, <3>1, <3>2 DEF CheckType
  <2>4. CASE ReadSome
    <3>1. req.size \in 0 .. MaxSize
      BY DEF TypeOK, Request
    <3>2. read' \in 0 .. MaxSize
      BY <2>4, <3>1, HandlerAssumption DEF ReadSome, TypeOK
    <3>3. TypeOK'
      BY <2>4, <3>2 DEF ReadSome, TypeOK
    <3> QED BY <2>4, <3>3 DEF ReadSome, Checked, AtWork, Launched, Answered,
                              Untouched, Accepted
  <2>5. CASE BodyTooLarge
    BY <2>5, RefusalIsFine DEF BodyTooLarge, Refuse, Status, AtWork
  <2>6. CASE ReadFails
    BY <2>6, RefusalIsFine DEF ReadFails, Refuse, Status, AtWork
  <2>7. CASE BodyRead
    <3>1. Checked'
      BY <2>7 DEF BodyRead, Pass, Checked, Accepted
    <3> QED BY <2>7, <3>1, PassIsFine DEF BodyRead
  <2>8. CASE Validate
    <3>1. CASE req.valid /\ Pass("launch")
      <4>1. Checked'
        BY <2>8, <3>1 DEF Validate, Pass, Checked, Accepted
      <4> QED BY <2>8, <3>1, <4>1, PassIsFine DEF Validate
    <3>2. CASE ~req.valid /\ Refuse(400)
      BY <2>8, <3>2, RefusalIsFine DEF Validate, Refuse, Status, AtWork
    <3> QED BY <2>8, <3>1, <3>2 DEF Validate
  <2>9. CASE NoRequestID
    <3>1. Checked'
      BY <2>9 DEF NoRequestID, Pass, Checked, Accepted
    <3> QED BY <2>9, <3>1, PassIsFine DEF NoRequestID
  <2>10. CASE Launch
    <3>1. prompts' = <<read>>
      BY <2>10 DEF Launch, AtWork, Untouched
    <3>2. TypeOK'
      BY <2>10 DEF Launch, Pass, TypeOK
    <3>3. Checked' /\ AtWork'
      BY <2>10, <3>1 DEF Launch, Pass, Checked, AtWork, Untouched, Accepted
    <3>4. Launched' /\ Answered'
      BY <2>10, <3>1 DEF Launch, Pass, Checked, AtWork, Untouched, Launched,
                         Answered, Accepted
    <3> QED BY <3>2, <3>3, <3>4
  <2>11. CASE Accept
    <3>1. TypeOK'
      BY <2>11 DEF Accept, Answer, WriteHeader, TypeOK, Status
    <3>2. Checked' /\ AtWork'
      BY <2>11 DEF Accept, Answer, WriteHeader, Checked, AtWork, Accepted
    <3>3. prompts = <<read>> /\ read = req.size
      BY <2>11 DEF Accept, Checked, AtWork
    <3>4. prompts # << >>
      BY <3>3
    <3>5. sent' = 202 /\ recorded' = 202 /\ pc' = "log" /\ logged' = << >>
      BY <2>11 DEF Accept, AtWork, Answer, WriteHeader
    <3>6. /\ req.valid /\ req.route = "invoke" /\ req.json
          /\ Accepted(req.token)
      BY <2>11 DEF Accept, Checked
    <3>7. /\ prompts' = prompts /\ read' = read /\ req' = req
          /\ secret' = secret
      BY <2>11 DEF Accept
    <3>8. Launched'
      <4>1. prompts' = <<req'.size>>
        BY <3>3, <3>7
      <4>2. Accepted(req.token)'
        BY <3>6, <3>7 DEF Accepted
      <4> QED BY <3>3, <3>5, <3>6, <3>7, <4>1, <4>2 DEF Launched
    <3>9. Answered'
      BY <2>11, <3>4, <3>5 DEF Accept, Answered
    <3> QED BY <3>1, <3>2, <3>8, <3>9
  <2>12. CASE Recover
    BY <2>12, RefusalIsFine DEF Recover, Status, AtWork
  <2>13. CASE RequestLog
    <3>1. TypeOK'
      BY <2>13 DEF RequestLog, TypeOK
    <3>2. Answered'
      BY <2>13 DEF RequestLog, Answered, TypeOK
    <3> QED BY <2>13, <3>1, <3>2 DEF RequestLog, Checked, AtWork, Launched,
                                     Accepted
  <2>14. CASE UNCHANGED vars
    <3>1. TypeOK' /\ Answered'
      BY <2>14 DEF vars, TypeOK, Answered
    <3>2. Checked' /\ AtWork'
      BY <2>14 DEF vars, Checked, AtWork, Untouched, Accepted
    <3>3. Launched'
      BY <2>14 DEF vars, Launched, Accepted
    <3> QED BY <3>1, <3>2, <3>3
  <2> QED BY <2>1, <2>2, <2>3, <2>4, <2>5, <2>6, <2>7, <2>8, <2>9, <2>10,
             <2>11, <2>12, <2>13, <2>14 DEF Next, Done
<1> QED BY <1>1, <1>2, PTL DEF Spec

-----------------------------------------------------------------------------

\* The state of a request is well typed, for any limit and any size of body.
THEOREM TypeCorrect == Spec => []TypeOK
<1>1. IInv => TypeOK
  BY DEF IInv
<1> QED BY <1>1, Invariance, PTL

\* A webhook is launched once, with its whole body, and only if it passed
\* every check, whatever the limit of requireToken, MaxBytesReader and the
\* handler between them; and who sends the secret is not kept out, unless the
\* secret is one that bearerToken can never return.
THEOREM OnlyCheckedIsLaunched == Spec => []OnlyAcceptedIsLaunched
<1>1. IInv => OnlyAcceptedIsLaunched
  <2> SUFFICES ASSUME IInv PROVE OnlyAcceptedIsLaunched
    OBVIOUS
  <2> USE DEF IInv, TypeOK, Request, Text
  <2>1. ASSUME Accepted(req.token)
        PROVE  req.bearer /\ req.token.core = secret.core /\ ~secret.spaces
    BY <2>1 DEF Accepted, TrimSpace
  <2>2. ASSUME req.bearer, req.token = secret, ~secret.spaces
        PROVE  Accepted(req.token)
    BY <2>2 DEF Accepted, TrimSpace
  <2>3. prompts # << >> => req.size <= MaxBody
    BY DEF Launched, AtWork
  <2> QED BY <2>1, <2>2, <2>3 DEF Launched, OnlyAcceptedIsLaunched
<1> QED BY <1>1, Invariance, PTL

\* What a step of the handler does to the stage Webhookd sees.
Watched ==
  /\ Stage' # Stage => <<Stage, Stage'>> \in
       {<<"none", "reading">>, <<"reading", "answered">>,
        <<"reading", "launched">>, <<"launched", "answered">>}
  /\ prompts' # prompts <=> Stage = "reading" /\ Stage' = "launched"

\* An answer is the end of what Webhookd sees, or it never saw the request.
LEMMA AnswerIsWatched ==
  ASSUME sent = 0, NEW code, code # 0, Answer(code), UNCHANGED prompts,
         \/ pc \in {"mux", "auth", "type"} /\ code \notin {202, 400, 413, 500}
         \/ pc \in {"body", "valid", "panic", "reply"}
            /\ code \in {202, 400, 413, 500}
  PROVE  Watched
<1>1. pc' = "log" /\ sent' = code
  BY DEF Answer, WriteHeader
<1> QED BY <1>1 DEF Watched, Stage

\* The handler of one request does what Webhookd lets a handler do: reads,
\* then launches, then answers, or answers without.
THEOREM HandlerOfWebhookd == Spec => WebhookdSteps
<1>1. IInv /\ [Next]_vars => [Watched]_vars
  <2> SUFFICES ASSUME IInv, [Next]_vars PROVE Watched \/ UNCHANGED vars
    OBVIOUS
  <2> USE DEF IInv
  <2>1. CASE Route
    <3>1. sent = 0
      BY <2>1 DEF Route, AtWork, Untouched
    <3>2. CASE Pass("auth")
      BY <2>1, <3>1, <3>2 DEF Route, Pass, Watched, Stage
    <3>3. CASE req.route # "invoke" /\ Answer(RouteStatus[req.route])
      <4>1. req.route \in {"healthz", "method", "unknown"}
        BY <3>3 DEF TypeOK, Request
      <4>2. RouteStatus[req.route] \in {200, 404, 405}
        BY <4>1 DEF RouteStatus
      <4> QED BY <2>1, <3>1, <3>3, <4>2, AnswerIsWatched DEF Route
    <3> QED BY <2>1, <3>2, <3>3 DEF Route
  <2>2. CASE RequireToken \/ CheckType
    <3>1. sent = 0
      BY <2>2 DEF RequireToken, CheckType, AtWork, Untouched
    <3>2. CASE Pass("type") \/ Pass("body")
      BY <2>2, <3>1, <3>2 DEF RequireToken, CheckType, Pass, Watched, Stage
    <3>3. CASE Answer(401) \/ Answer(415)
      BY <2>2, <3>1, <3>3, AnswerIsWatched DEF RequireToken, CheckType
    <3> QED BY <2>2, <3>2, <3>3 DEF RequireToken, CheckType
  <2>3. CASE ReadSome \/ BodyRead \/ NoRequestID
    BY <2>3 DEF ReadSome, BodyRead, NoRequestID, Pass, Watched, Stage
  <2>4. CASE BodyTooLarge \/ ReadFails
    BY <2>4, AnswerIsWatched DEF BodyTooLarge, ReadFails, Refuse, AtWork,
                                 Untouched
  <2>5. CASE Validate
    <3>1. CASE Pass("launch")
      BY <2>5, <3>1 DEF Validate, Pass, Watched, Stage
    <3>2. CASE Refuse(400)
      BY <2>5, <3>2, AnswerIsWatched DEF Validate, Refuse, AtWork, Untouched
    <3> QED BY <2>5, <3>1, <3>2 DEF Validate
  <2>6. CASE Launch
    <3>1. prompts' = <<read>> /\ prompts = << >>
      BY <2>6 DEF Launch, AtWork, Untouched
    <3>2. prompts' # prompts
      BY <3>1
    <3> QED BY <2>6, <3>2 DEF Launch, Pass, Watched, Stage
  <2>7. CASE Accept \/ Recover
    BY <2>7, AnswerIsWatched DEF Accept, Recover, AtWork, Untouched
  <2>8. CASE RequestLog
    BY <2>8 DEF RequestLog, Watched, Stage
  <2> QED BY <2>1, <2>2, <2>3, <2>4, <2>5, <2>6, <2>7, <2>8 DEF Next, Done
<1>2. Spec => [][Watched]_vars
  BY <1>1, Invariance, PTL DEF Spec
<1> QED BY <1>2 DEF WebhookdSteps, Watched

\* At the end of every request the client has an answer, the log has the same
\* one, once, and it is 202 exactly if an agent was launched.
THEOREM AnswersAreTrue == Spec => []AnsweredTruly
<1>1. IInv => AnsweredTruly
  BY DEF IInv, Answered, AnsweredTruly
<1> QED BY <1>1, Invariance, PTL
=============================================================================
