--------------------------- MODULE AgentResource ---------------------------
(***************************************************************************)
(* internal/k8s/agent/v1alpha1: an Agent resource in a cluster.  The user   *)
(* edits it; the flight turns it into a ConfigMap, the webhook secret and a *)
(* Deployment (and a Service and an Ingress, which are left out); the pods  *)
(* read the first two once, when they start, and run webhookd.              *)
(*                                                                         *)
(* Abstracted: what the fields hold; kept is who would refuse them.         *)
(* External: the cluster, and yoke, which runs the flight, one run after    *)
(* the other, and applies what it prints, one resource after the other, if  *)
(* nothing interrupts it; the two YAML libraries: the flight writes with    *)
(* goccy/go-yaml what webhookd reads with yaml.v3 and known fields only,    *)
(* and whether the second reads what the first wrote is left open.          *)
(***************************************************************************)
EXTENDS Naturals

CONSTANTS
  Pods,     \* the replicas
  Uuids,    \* values for the webhook secret
  None,     \* absent, or without a value
  MaxEdits  \* bound: edits of the Agent

ASSUME ResourceAssumption ==
  /\ None \notin Uuids
  /\ MaxEdits \in Nat

VARIABLES
  agent,     \* the Agent resource
  creds,     \* the secret credsSecret names
  flight,    \* the run of the flight
  configMap, \* the configuration in the ConfigMap, or None
  webhook,   \* WEBHOOK_SHARED_SECRET in the webhook secret, or None
  deployed,  \* the Deployment exists
  pods,      \* what each pod started with, or None
  touched    \* history: the user has changed the webhook secret

vars == <<agent, creds, flight, configMap, webhook, deployed, pods, touched>>

-----------------------------------------------------------------------------
(* Types.                                                                  *)

\* bad: AgentSpec.Valid refuses the spec; negative: only Config.Valid does,
\* for its perRequestTimeout; unread: only the decoder of webhookd does, when
\* it reads the text the flight has made of it; unknown: only SelectBuiltins.
Kind == {"good", "unknown", "unread", "negative", "bad"}

Agent == [rev : 0 .. MaxEdits, kind : Kind]

\* config.yaml: what it takes from the Agent, and whether it has the base URL
\* of the provider, which comes from the credentials.
Config == [agent : Agent, url : BOOLEAN]

ASSUME ConfigAssumption == None \notin Config

\* no_url: without OPENAI_BASE_URL; no_key: without OPENAI_API_KEY.
Creds == {"absent", "no_url", "no_key", "good"}

Emitted == {"configMap", "webhook", "deployment"}

Flight == [pc : {"idle", "creds", "secret", "render", "apply"}, agent : Agent,
           creds : Creds, secret : Uuids \cup {None}, left : SUBSET Emitted]

Pod == [config : Config, secret : Uuids]

TypeOK ==
  /\ agent \in Agent
  /\ creds \in Creds
  /\ flight \in Flight
  /\ configMap \in Config \cup {None}
  /\ webhook \in Uuids \cup {None}
  /\ deployed \in BOOLEAN
  /\ pods \in [Pods -> Pod \cup {None}]
  /\ touched \in BOOLEAN

Idle(a) == [pc |-> "idle", agent |-> a, creds |-> "absent", secret |-> None,
            left |-> {}]

Init ==
  /\ agent \in [rev : {0}, kind : Kind]
  /\ creds \in Creds
  /\ flight = Idle(agent)
  /\ configMap = None
  /\ webhook = None
  /\ deployed = FALSE
  /\ pods = [p \in Pods |-> None]
  /\ touched = FALSE

-----------------------------------------------------------------------------
(* The user.                                                               *)

EditAgent ==
  /\ agent.rev < MaxEdits
  /\ agent' \in [rev : {agent.rev + 1}, kind : Kind]
  /\ UNCHANGED <<creds, flight, configMap, webhook, deployed, pods, touched>>

EditCreds ==
  /\ creds' \in Creds \ {creds}
  /\ UNCHANGED <<agent, flight, configMap, webhook, deployed, pods, touched>>

\* A value that is not known to anyone yet.
Unused == Uuids \ ({webhook, flight.secret}
                   \cup {pods[p].secret : p \in {q \in Pods : pods[q] # None}})

TouchSecret ==
  /\ ~touched /\ webhook # None
  /\ webhook' \in Unused \cup {None}
  /\ touched' = TRUE
  /\ UNCHANGED <<agent, creds, flight, configMap, deployed, pods>>

-----------------------------------------------------------------------------
(* The flight.                                                             *)

SpecValid(a) == a.kind # "bad"

\* The required fields of the spec and the base URL are there, and what is
\* there is in range.
ConfigValid(c) == c.agent.kind \notin {"bad", "negative"} /\ c.url

\* makeConfigMap puts it together from the Agent and the credentials.
MakeConfig(a, c) == [agent |-> a, url |-> c # "no_url"]

FlightOnly == UNCHANGED <<agent, creds, configMap, webhook, deployed, pods,
                          touched>>

\* The flight decodes the Agent it is given, which validates it.
Decode ==
  /\ flight.pc = "idle"
  /\ SpecValid(agent)
  /\ flight' = [Idle(agent) EXCEPT !.pc = "creds"]
  /\ FlightOnly

LookupCreds ==
  /\ flight.pc = "creds"
  /\ creds # "absent"
  /\ flight' = [flight EXCEPT !.pc = "secret", !.creds = creds]
  /\ FlightOnly

AlwaysNew(found) == Unused

\* The value the secret has is kept; without one there is a new UUID.
SharedSecret(found) == IF found # None THEN {found} ELSE Unused

LookupSecret ==
  /\ flight.pc = "secret"
  /\ \E s \in SharedSecret(webhook) :
       flight' = [flight EXCEPT !.pc = "render", !.secret = s]
  /\ FlightOnly

RenderUnchecked ==
  /\ flight.pc = "render"
  /\ flight' = [flight EXCEPT !.pc = "apply", !.left = Emitted]
  /\ FlightOnly

\* makeConfigMap refuses a configuration that Config.Valid does not accept: the
\* same check webhookd makes after it has read it.
Render ==
  /\ flight.pc = "render"
  /\ ConfigValid(MakeConfig(flight.agent, flight.creds))
  /\ flight' = [flight EXCEPT !.pc = "apply", !.left = Emitted]
  /\ FlightOnly

\* A run ends with an error, from a lookup or a check, or is interrupted.
FlightFails ==
  /\ flight.pc # "idle"
  /\ flight' = Idle(flight.agent)
  /\ FlightOnly

Applied(resource) ==
  /\ flight.pc = "apply"
  /\ resource \in flight.left
  /\ flight' = IF flight.left = {resource} THEN Idle(flight.agent)
               ELSE [flight EXCEPT !.left = @ \ {resource}]
  /\ UNCHANGED <<agent, creds, pods, touched>>

CreateConfigMap ==
  /\ Applied("configMap")
  /\ configMap' = IF configMap = None
                  THEN MakeConfig(flight.agent, flight.creds)
                  ELSE configMap
  /\ UNCHANGED <<webhook, deployed>>

ApplyConfigMap ==
  /\ Applied("configMap")
  /\ configMap' = MakeConfig(flight.agent, flight.creds)
  /\ UNCHANGED <<webhook, deployed>>

ApplySecret ==
  /\ Applied("webhook")
  /\ webhook' = flight.secret
  /\ UNCHANGED <<configMap, deployed>>

\* The pod template names the ConfigMap and the secrets: it does not change
\* with what is in them, so applying it again replaces no pod.
ApplyDeployment ==
  /\ Applied("deployment")
  /\ deployed' = TRUE
  /\ UNCHANGED <<configMap, webhook>>

-----------------------------------------------------------------------------
(* The pods.                                                               *)

\* webhookd's run() comes through Load and SelectBuiltins.
RunAccepts(c) == ConfigValid(c) /\ c.agent.kind \notin {"unknown", "unread"}

StartableWithoutSecret ==
  /\ deployed /\ configMap # None
  /\ creds \in {"good", "no_url"}
  /\ RunAccepts(configMap)

\* Everything the pod's containers refer to exists, with the API key in the
\* credentials, and webhookd's run() comes through its checks; otherwise the
\* pod does not start, or restarts.
Startable ==
  /\ deployed /\ configMap # None /\ webhook # None
  /\ creds \in {"good", "no_url"}
  /\ RunAccepts(configMap)

StartPod(p) ==
  /\ pods[p] = None
  /\ Startable
  /\ pods' = [pods EXCEPT ![p] = [config |-> configMap, secret |-> webhook]]
  /\ UNCHANGED <<agent, creds, flight, configMap, webhook, deployed, touched>>

\* webhookd exits, or the pod is evicted.
StopPod(p) ==
  /\ pods[p] # None
  /\ pods' = [pods EXCEPT ![p] = None]
  /\ UNCHANGED <<agent, creds, flight, configMap, webhook, deployed, touched>>

Next ==
  \/ EditAgent \/ EditCreds \/ TouchSecret
  \/ Decode \/ LookupCreds \/ LookupSecret \/ Render \/ FlightFails
  \/ ApplyConfigMap \/ ApplySecret \/ ApplyDeployment
  \/ \E p \in Pods : StartPod(p) \/ StopPod(p)

\* yoke runs the flight again and again, and the cluster starts pods, but
\* nothing ends one that runs.
Fairness ==
  /\ WF_vars(Decode) /\ SF_vars(LookupCreds) /\ SF_vars(LookupSecret)
  /\ SF_vars(Render) /\ WF_vars(FlightFails)
  /\ SF_vars(ApplyConfigMap) /\ SF_vars(ApplySecret) /\ SF_vars(ApplyDeployment)
  /\ \A p \in Pods : WF_vars(StartPod(p))

Spec == Init /\ [][Next]_vars

FairSpec == Spec /\ Fairness

-----------------------------------------------------------------------------
(* Properties.                                                             *)

\* "so reconciliations don't churn the value": unless the user changes it, the
\* webhook secret keeps its first value through all runs of the flight, also
\* interrupted ones, so whoever calls the service can use any pod, however
\* long ago that pod started.
PodsShareSecret ==
  ~touched => \A p \in Pods : pods[p] # None => pods[p].secret = webhook

\* As long as pods can start, the flight does not take from them what they
\* need: no run of it, wherever it is interrupted and in whatever order its
\* output is applied, on whatever Agent and credentials were edited to before
\* or during the run, makes that pods that restart do not come up.  Three things
\* still do: a user who takes the API key out of the credentials or changes the
\* webhook secret, as pods read these themselves; an edit to a tool that is
\* not there; and one to a text that webhookd does not read back.  The flight
\* checks for none of them.
PodsStayStartable ==
  [][(Startable /\ creds' \in {"good", "no_url"} /\ touched' = touched) =>
        Startable' \/ configMap'.agent.kind \in {"unknown", "unread"}]_vars

Good == agent.kind = "good" /\ creds = "good"

\* When the user stops editing, with a good Agent and good credentials, the
\* ConfigMap becomes what the Agent says, whatever failed or was interrupted
\* before: the flight can be run on any cluster it left behind.
AgentIsRendered ==
  <>[]Good => <>[](configMap = MakeConfig(agent, creds))

-----------------------------------------------------------------------------
(* What the docs say and the code does not do.                             *)

\* The flight emits the resources "that realize" the Agent: when the user
\* stops editing, the pods come to run what the Agent says.
AgentIsRealized ==
  <>[]Good =>
    <>[](\A p \in Pods : pods[p] # None => pods[p].config.agent = agent)
=============================================================================
