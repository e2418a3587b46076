--------------------------- MODULE InvokeHandler ---------------------------
(***************************************************************************)
(* internal/webhook: one HTTP request on its way through Router: requestLog *)
(* around recover500 around the mux, which leads to /healthz or through     *)
(* requireToken to invokeHandler.  Requests share nothing here but the      *)
(* launcher, so one of them is enough; Webhookd has many.                   *)
(*                                                                         *)
(* Abstracted: paths, the text of headers and bodies; a body is the number  *)
(* of its bytes, a token what is left without outer white space and whether *)
(* there was any.  External: net/http (the mux, MaxBytesReader, the          *)
(* connection).                                                            *)
(***************************************************************************)
EXTENDS Naturals, Sequences

CONSTANTS
  MaxBody, \* maxBody, in bytes
  MaxSize  \* bound: bytes of the body the client sends

ASSUME HandlerAssumption ==
  /\ MaxBody \in Nat
  /\ MaxSize \in Nat

VARIABLES
  secret,   \* WEBHOOK_SHARED_SECRET, as run() took it
  req,      \* what the client sends
  pc,       \* the handler that is at work
  read,     \* bytes of the body read so far
  prompts,  \* the bodies launched for this request
  sent,     \* the status the client gets, 0 before
  recorded, \* the status of requestLog's recorder
  logged    \* the statuses requestLog logged

vars == <<secret, req, pc, read, prompts, sent, recorded, logged>>

-----------------------------------------------------------------------------
(* Types.                                                                  *)

\* A text that has white space around it, or not.
Text(cores) == [core : cores, spaces : BOOLEAN]

\* route: POST /v1/invoke, GET /healthz, another method, another path; bearer:
\* the scheme of the Authorization header, if there is one, and token: what
\* comes after it; valid: the body is JSON.
Request == [route : {"invoke", "healthz", "method", "unknown"},
            bearer : BOOLEAN, token : Text({"", "wrong", "secret"}),
            json : BOOLEAN, size : 0 .. MaxSize, valid : BOOLEAN]

Status == {200, 202, 400, 401, 404, 405, 413, 415, 500}

TypeOK ==
  /\ secret \in Text({"secret"})
  /\ req \in Request
  /\ pc \in {"mux", "auth", "type", "body", "valid", "launch", "reply",
             "panic", "log", "done"}
  /\ read \in 0 .. MaxSize
  /\ prompts \in Seq(0 .. MaxSize)
  /\ sent \in Status \cup {0}
  /\ recorded \in Status
  /\ logged \in Seq(Status)

\* A handler that writes no status has written 200.
FirstStatus == 200

\* run() refuses an empty secret, and takes any other one as it is.
Init ==
  /\ secret \in Text({"secret"})
  /\ req \in Request
  /\ pc = "mux"
  /\ read = 0
  /\ prompts = << >>
  /\ sent = 0
  /\ recorded = FirstStatus
  /\ logged = << >>

-----------------------------------------------------------------------------
(* The handlers.                                                           *)

\* statusRecorder.WriteHeader: the recorder keeps the last status, net/http
\* sends the first.
WriteHeader(code) ==
  /\ sent' = IF sent = 0 THEN code ELSE sent
  /\ recorded' = code

\* The handler writes a status and returns.
Answer(code) ==
  /\ WriteHeader(code)
  /\ pc' = "log"

Pass(label) == pc' = label /\ UNCHANGED <<sent, recorded>>

RouteStatus ==
  [healthz |-> 200, method |-> 405, unknown |-> 404]

Route ==
  /\ pc = "mux"
  /\ \/ req.route = "invoke" /\ Pass("auth")
     \/ req.route # "invoke" /\ Answer(RouteStatus[req.route])
  /\ UNCHANGED <<secret, req, read, prompts, logged>>

TrimSpace(text) == [text EXCEPT !.spaces = FALSE]

\* Whatever the token is.
AnyToken(token) == req.bearer /\ token.core # ""

\* bearerToken trims what comes after "Bearer " and wants something left;
\* requireToken compares that with the secret, which nobody trimmed.
Accepted(token) ==
  req.bearer /\ token.core # "" /\ TrimSpace(token) = secret

RequireToken ==
  /\ pc = "auth"
  /\ \/ Accepted(req.token) /\ Pass("type")
     \/ ~Accepted(req.token) /\ Answer(401)
  /\ UNCHANGED <<secret, req, read, prompts, logged>>

\* The content type is exactly application/json, without parameters.
CheckType ==
  /\ pc = "type"
  /\ \/ req.json /\ Pass("body")
     \/ ~req.json /\ Answer(415)
  /\ UNCHANGED <<secret, req, read, prompts, logged>>

ReadSome ==
  /\ pc = "body"
  /\ read' \in read + 1 .. req.size
  /\ read' <= MaxBody
  /\ UNCHANGED <<secret, req, pc, prompts, sent, recorded, logged>>

WarnOnly(code) == WriteHeader(code) /\ pc' = "valid"

Refuse(code) == Answer(code)

\* MaxBytesReader lets MaxBody bytes through and fails on the next one.
BodyTooLarge ==
  /\ pc = "body"
  /\ read = MaxBody /\ req.size > MaxBody
  /\ Refuse(413)
  /\ UNCHANGED <<secret, req, read, prompts, logged>>

\* ReadTimeout passes, or the client goes away.
ReadFails ==
  /\ pc = "body"
  /\ Refuse(400)
  /\ UNCHANGED <<secret, req, read, prompts, logged>>

LaunchUnchecked ==
  /\ pc = "body"
  /\ read = req.size
  /\ prompts' = Append(prompts, read)
  /\ Pass("valid")
  /\ UNCHANGED <<secret, req, read, logged>>

BodyRead ==
  /\ pc = "body"
  /\ read = req.size
  /\ Pass("valid")
  /\ UNCHANGED <<secret, req, read, prompts, logged>>

\* What was read may be JSON although it is not the whole body.
Validate ==
  /\ pc = "valid"
  /\ \/ req.valid /\ Pass("launch")
     \/ ~req.valid /\ Refuse(400)
  /\ UNCHANGED <<secret, req, read, prompts, logged>>

\* uuid.Must panics if the system has no randomness.
NoRequestID ==
  /\ pc = "launch"
  /\ Pass("panic")
  /\ UNCHANGED <<secret, req, read, prompts, logged>>

Launch ==
  /\ pc = "launch"
  /\ prompts' = Append(prompts, read)
  /\ Pass("reply")
  /\ UNCHANGED <<secret, req, read, logged>>

Accept ==
  /\ pc = "reply"
  /\ Answer(202)
  /\ UNCHANGED <<secret, req, read, prompts, logged>>

RecoverMissing == pc = "panic" /\ UNCHANGED vars

Recover ==
  /\ pc = "panic"
  /\ Answer(500)
  /\ UNCHANGED <<secret, req, read, prompts, logged>>

RequestLog ==
  /\ pc = "log"
  /\ logged' = Append(logged, recorded)
  /\ pc' = "done"
  /\ UNCHANGED <<secret, req, read, prompts, sent, recorded>>

Done == pc = "done" /\ UNCHANGED vars

Next ==
  \/ Route \/ RequireToken \/ CheckType
  \/ ReadSome \/ BodyTooLarge \/ ReadFails \/ BodyRead
  \/ Validate \/ NoRequestID \/ Launch \/ Accept \/ Recover \/ RequestLog
  \/ Done

\* Handlers run; the server's ReadTimeout ends every read.
Fairness ==
  /\ WF_vars(Route) /\ WF_vars(RequireToken) /\ WF_vars(CheckType)
  /\ WF_vars(ReadFails) /\ WF_vars(Validate) /\ WF_vars(Launch)
  /\ WF_vars(Accept) /\ WF_vars(Recover) /\ WF_vars(RequestLog)

Spec == Init /\ [][Next]_vars

FairSpec == Spec /\ Fairness

-----------------------------------------------------------------------------
(* Properties.                                                             *)

\* Only a webhook that passed every check gets an agent, one, and its prompt
\* is the whole body: never a truncated, oversized or invalid one.  The token
\* may have white space around it, but not the secret: with such a secret
\* nobody gets in, and without, nobody who sends it is kept out.
OnlyAcceptedIsLaunched ==
  /\ prompts # << >> =>
       /\ prompts = <<req.size>>
       /\ req.size <= MaxBody /\ req.valid
       /\ req.route = "invoke" /\ req.json
       /\ req.bearer /\ req.token.core = secret.core /\ ~secret.spaces
  /\ sent = 401 /\ req.bearer /\ req.token = secret => secret.spaces

\* "the caller has already returned 202": what the client is told and what
\* is launched agree at the end of the request, on every path through it, and
\* the log has one line about it, with the status the client got.
AnsweredTruly ==
  pc = "done" => /\ sent # 0
                 /\ logged = <<sent>>
                 /\ sent = 202 <=> prompts # << >>

\* The handler variable of Webhookd.
Stage ==
  IF pc \in {"body", "valid", "launch", "panic"} THEN "reading"
  ELSE IF pc = "reply" THEN "launched"
  ELSE IF sent \in {202, 400, 413, 500} THEN "answered" ELSE "none"

\* A request behaves as Webhookd says: it starts to read, is launched in one
\* step from there or answered without, and answered after it was launched.
WebhookdSteps ==
  [][/\ Stage' # Stage => <<Stage, Stage'>> \in
          {<<"none", "reading">>, <<"reading", "answered">>,
           <<"reading", "launched">>, <<"launched", "answered">>}
     /\ prompts' # prompts <=> Stage = "reading" /\ Stage' = "launched"]_vars

\* Every request is answered and logged, also if its body never ends.
EveryRequestEnds == <>(pc = "done")
=============================================================================
