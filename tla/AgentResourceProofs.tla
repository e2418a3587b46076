------------------------ MODULE AgentResourceProofs ------------------------
(***************************************************************************)
(* Proofs about AgentResource, for any pods, any UUIDs and any number of    *)
(* edits: its types, that the flight does not take from pods what they need *)
(* to start again, and that all pods have the same webhook secret, however  *)
(* often the flight runs, and wherever it is interrupted.                   *)
(***************************************************************************)
EXTENDS AgentResource, TLAPS

\* What the flight has decided and not yet applied is fit to be applied: the
\* configuration was checked, and there is a secret, the one the cluster has if
\* it has one - also when an earlier run was cut off between its two writes.
Checked ==
  /\ flight.pc = "apply" => ConfigValid(MakeConfig(flight.agent, flight.creds))
  /\ flight.pc \in {"render", "apply"} => flight.secret # None
  /\ flight.pc \in {"render", "apply"} /\ ~touched /\ webhook # None
       => flight.secret = webhook

\* A pod that runs has the secret, so there is one: what a later run of the
\* flight finds, and keeps.
PodsHaveSecret ==
  ~touched => \A p \in Pods : pods[p] # None =>
                webhook # None /\ pods[p].secret = webhook

IInv == TypeOK /\ Checked /\ PodsHaveSecret

-----------------------------------------------------------------------------
(* Lemmas.                                                                 *)

\* The fields of a run of the flight.
LEMMA FlightTypes ==
  ASSUME NEW f \in Flight
  PROVE  /\ f.pc \in {"idle", "creds", "secret", "render", "apply"}
         /\ f.agent \in Agent /\ f.creds \in Creds
         /\ f.secret \in Uuids \cup {None} /\ f.left \in SUBSET Emitted
  BY DEF Flight

\* A run that is over, or only begins, has nothing in hand.
LEMMA IdleTypes ==
  ASSUME NEW a \in Agent
  PROVE  /\ Idle(a) \in Flight /\ Idle(a).pc = "idle"
         /\ [Idle(a) EXCEPT !.pc = "creds"] \in Flight
         /\ [Idle(a) EXCEPT !.pc = "creds"].pc = "creds"
  BY DEF Idle, Flight, Creds

\* Edits of the Agent have types.
LEMMA EditTypes ==
  ASSUME NEW n \in 0 .. MaxEdits, NEW a \in [rev : {n}, kind : Kind]
  PROVE  a \in Agent
  BY DEF Agent

\* The invariant holds in a cluster without an Agent's resources.
LEMMA InitIInv == Init => IInv
<1> SUFFICES ASSUME Init PROVE IInv
  OBVIOUS
<1>1. agent \in Agent
  BY EditTypes, ResourceAssumption DEF Init
<1>2. flight \in Flight /\ flight.pc = "idle"
  BY <1>1, IdleTypes DEF Init
<1>3. TypeOK
  BY <1>1, <1>2 DEF Init, TypeOK
<1> QED
  BY <1>2, <1>3 DEF Init, IInv, Checked, PodsHaveSecret

\* The user's edits of Agent and credentials reach nothing by themselves.
LEMMA EditStep ==
  ASSUME IInv, EditAgent \/ EditCreds
  PROVE  IInv'
<1>1. UNCHANGED <<flight, configMap, webhook, deployed, pods, touched>>
  BY DEF EditAgent, EditCreds
<1>2. agent' \in Agent
  <2>1. agent.rev \in 0 .. MaxEdits
    BY DEF IInv, TypeOK, Agent
  <2>2. CASE EditAgent
    <3>1. agent.rev + 1 \in 0 .. MaxEdits
      BY <2>1, <2>2, ResourceAssumption DEF EditAgent
    <3> QED
      BY <2>2, <3>1, EditTypes DEF EditAgent
  <2>3. CASE EditCreds
    BY <2>3 DEF EditCreds, IInv, TypeOK
  <2> QED
    BY <2>2, <2>3
<1>3. creds' \in Creds
  BY DEF EditAgent, EditCreds, IInv, TypeOK
<1>4. TypeOK'
  BY <1>1, <1>2, <1>3 DEF IInv, TypeOK
<1> QED
  BY <1>1, <1>4 DEF IInv, Checked, PodsHaveSecret

\* A user who changes the secret is on their own.
LEMMA TouchStep ==
  ASSUME IInv, TouchSecret
  PROVE  IInv'
<1>1. /\ UNCHANGED <<agent, creds, flight, configMap, deployed, pods>>
      /\ touched' = TRUE /\ webhook' \in Uuids \cup {None}
  BY DEF TouchSecret, Unused
<1>2. TypeOK'
  BY <1>1 DEF IInv, TypeOK
<1> QED
  BY <1>1, <1>2 DEF IInv, Checked, PodsHaveSecret

\* A step of the flight that applies nothing, and knows enough for what it
\* will.
LEMMA FlightStep ==
  ASSUME IInv, FlightOnly, flight' \in Flight,
         flight'.pc = "apply"
           => ConfigValid(MakeConfig(flight'.agent, flight'.creds)),
         flight'.pc \in {"render", "apply"} => flight'.secret # None,
         flight'.pc \in {"render", "apply"} /\ ~touched /\ webhook # None
           => flight'.secret = webhook
  PROVE  IInv'
<1>1. UNCHANGED <<agent, creds, configMap, webhook, deployed, pods, touched>>
  BY DEF FlightOnly
<1>2. TypeOK'
  BY <1>1 DEF IInv, TypeOK
<1> QED
  BY <1>1, <1>2 DEF IInv, Checked, PodsHaveSecret

\* A run begins, or ends with an error or an interruption.
LEMMA BeginEndStep ==
  ASSUME IInv, Decode \/ FlightFails
  PROVE  IInv'
<1>1. agent \in Agent /\ flight.agent \in Agent
  BY FlightTypes DEF IInv, TypeOK
<1>2. flight' \in Flight /\ flight'.pc \in {"idle", "creds"} /\ FlightOnly
  BY <1>1, IdleTypes DEF Decode, FlightFails
<1> QED
  BY <1>2, FlightStep

\* The lookups: the secret that is found is the secret there is.
LEMMA LookupStep ==
  ASSUME IInv, LookupCreds \/ LookupSecret
  PROVE  IInv'
<1>1. flight \in Flight /\ creds \in Creds /\ FlightOnly
  BY DEF IInv, TypeOK, LookupCreds, LookupSecret
<1>2. CASE LookupCreds
  <2>1. flight' \in Flight /\ flight'.pc = "secret"
    BY <1>1, <1>2 DEF LookupCreds, Flight
  <2> QED
    BY <1>1, <2>1, FlightStep
<1>3. CASE LookupSecret
  <2>1. PICK s \in SharedSecret(webhook) :
          flight' = [flight EXCEPT !.pc = "render", !.secret = s]
    BY <1>3 DEF LookupSecret
  <2>2. s \in Uuids /\ (webhook # None => s = webhook)
    BY DEF SharedSecret, Unused, IInv, TypeOK
  <2>3. flight' \in Flight /\ flight'.pc = "render" /\ flight'.secret = s
    BY <1>1, <2>1, <2>2 DEF Flight
  <2> QED
    BY <1>1, <2>2, <2>3, FlightStep, ResourceAssumption
<1> QED
  BY <1>2, <1>3

\* Rendering refuses a configuration that Config.Valid does not accept.
LEMMA RenderStep ==
  ASSUME IInv, Render
  PROVE  IInv'
<1>1. flight \in Flight /\ FlightOnly /\ flight.pc = "render"
  BY DEF IInv, TypeOK, Render
<1>2. /\ flight' \in Flight /\ flight'.agent = flight.agent
      /\ flight'.creds = flight.creds /\ flight'.secret = flight.secret
  BY <1>1 DEF Render, Flight
<1>3. ConfigValid(MakeConfig(flight'.agent, flight'.creds))
  BY <1>2 DEF Render
<1>4. /\ flight.secret # None
      /\ ~touched /\ webhook # None => flight.secret = webhook
  BY <1>1 DEF IInv, Checked
<1> QED
  BY <1>1, <1>2, <1>3, <1>4, FlightStep

\* What applying one resource leaves of the run.
LEMMA AppliedLeaves ==
  ASSUME IInv, NEW resource, Applied(resource)
  PROVE  /\ flight \in Flight /\ flight.pc = "apply" /\ flight' \in Flight
         /\ \/ flight'.pc = "idle"
            \/ /\ flight'.pc = "apply" /\ flight'.agent = flight.agent
               /\ flight'.creds = flight.creds
               /\ flight'.secret = flight.secret
         /\ UNCHANGED <<agent, creds, pods, touched>>
<1>1. flight \in Flight /\ flight.agent \in Agent
  BY FlightTypes DEF IInv, TypeOK
<1>2. CASE flight' = Idle(flight.agent)
  BY <1>1, <1>2, IdleTypes DEF Applied
<1>3. CASE flight' = [flight EXCEPT !.left = @ \ {resource}]
  BY <1>1, <1>3 DEF Applied, Flight
<1> QED
  BY <1>2, <1>3 DEF Applied

\* The ConfigMap becomes what was checked.
LEMMA ApplyConfigMapStep ==
  ASSUME IInv, ApplyConfigMap
  PROVE  IInv'
<1>1. /\ flight \in Flight /\ flight.pc = "apply" /\ flight' \in Flight
      /\ \/ flight'.pc = "idle"
         \/ /\ flight'.pc = "apply" /\ flight'.agent = flight.agent
            /\ flight'.creds = flight.creds
            /\ flight'.secret = flight.secret
      /\ UNCHANGED <<agent, creds, pods, touched, webhook, deployed>>
      /\ configMap' = MakeConfig(flight.agent, flight.creds)
  BY AppliedLeaves DEF ApplyConfigMap
<1>2. MakeConfig(flight.agent, flight.creds) \in Config
  BY <1>1, FlightTypes DEF MakeConfig, Config
<1>3. TypeOK'
  BY <1>1, <1>2 DEF IInv, TypeOK
<1>4. Checked'
  BY <1>1, <1>2 DEF IInv, Checked
<1> QED
  BY <1>1, <1>2, <1>3, <1>4 DEF IInv, PodsHaveSecret

\* Applying the secret changes nothing if there is one already.
LEMMA ApplySecretStep ==
  ASSUME IInv, ApplySecret
  PROVE  IInv'
<1>1. /\ flight \in Flight /\ flight.pc = "apply" /\ flight' \in Flight
      /\ \/ flight'.pc = "idle"
         \/ /\ flight'.pc = "apply" /\ flight'.agent = flight.agent
            /\ flight'.creds = flight.creds
            /\ flight'.secret = flight.secret
      /\ UNCHANGED <<agent, creds, pods, touched, configMap, deployed>>
      /\ webhook' = flight.secret
  BY AppliedLeaves DEF ApplySecret
<1>2. /\ flight.secret \in Uuids \cup {None}
      /\ ~touched /\ webhook # None => flight.secret = webhook
  BY <1>1, FlightTypes DEF IInv, Checked
<1>3. TypeOK'
  BY <1>1, <1>2 DEF IInv, TypeOK
<1>4. Checked'
  BY <1>1, <1>2 DEF IInv, Checked
<1>5. PodsHaveSecret'
  BY <1>1, <1>2 DEF IInv, PodsHaveSecret
<1> QED
  BY <1>1, <1>3, <1>4, <1>5 DEF IInv

\* The Deployment has neither of them in it.
LEMMA ApplyDeploymentStep ==
  ASSUME IInv, ApplyDeployment
  PROVE  IInv'
<1>1. /\ flight \in Flight /\ flight.pc = "apply" /\ flight' \in Flight
      /\ \/ flight'.pc = "idle"
         \/ /\ flight'.pc = "apply" /\ flight'.agent = flight.agent
            /\ flight'.creds = flight.creds
            /\ flight'.secret = flight.secret
      /\ UNCHANGED <<agent, creds, pods, touched, configMap, webhook>>
      /\ deployed' = TRUE
  BY AppliedLeaves DEF ApplyDeployment
<1>2. TypeOK'
  BY <1>1 DEF IInv, TypeOK
<1>3. Checked'
  BY <1>1 DEF IInv, Checked
<1> QED
  BY <1>1, <1>2, <1>3 DEF IInv, PodsHaveSecret

\* A pod reads the secret that is there when it starts.
LEMMA PodStep ==
  ASSUME IInv, NEW p \in Pods, StartPod(p) \/ StopPod(p)
  PROVE  IInv'
<1>1. UNCHANGED <<agent, creds, flight, configMap, webhook, deployed, touched>>
  BY DEF StartPod, StopPod
<1>2. pods \in [Pods -> Pod \cup {None}]
  BY DEF IInv, TypeOK
<1>3. /\ pods' \in [Pods -> Pod \cup {None}]
      /\ \A q \in Pods : \/ pods'[q] \in {pods[q], None}
                         \/ webhook # None /\ pods'[q].secret = webhook
  <2>1. CASE StartPod(p)
    <3> DEFINE new == [config |-> configMap, secret |-> webhook]
    <3>1. /\ pods' = [pods EXCEPT ![p] = new]
          /\ configMap # None /\ webhook # None
      BY <2>1 DEF StartPod, Startable
    <3>2. new \in Pod /\ new.secret = webhook
      BY <3>1 DEF IInv, TypeOK, Pod
    <3> HIDE DEF new
    <3> QED
      BY <1>2, <3>1, <3>2
  <2>2. CASE StopPod(p)
    BY <1>2, <2>2 DEF StopPod
  <2> QED
    BY <2>1, <2>2
<1>4. TypeOK'
  BY <1>1, <1>3 DEF IInv, TypeOK
<1>5. PodsHaveSecret'
  BY <1>1, <1>3 DEF IInv, PodsHaveSecret
<1> QED
  BY <1>1, <1>4, <1>5 DEF IInv, Checked

\* Every step keeps the inductive invariant.
LEMMA NextIInv == IInv /\ [Next]_vars => IInv'
<1> SUFFICES ASSUME IInv, [Next]_vars PROVE IInv'
  OBVIOUS
<1>1. CASE UNCHANGED vars
  BY <1>1 DEF IInv, TypeOK, Checked, PodsHaveSecret, vars
<1>2. CASE EditAgent \/ EditCreds
  BY <1>2, EditStep
<1>3. CASE TouchSecret
  BY <1>3, TouchStep
<1>4. CASE Decode \/ FlightFails
  BY <1>4, BeginEndStep
<1>5. CASE LookupCreds \/ LookupSecret
  BY <1>5, LookupStep
<1>6. CASE Render
  BY <1>6, RenderStep
<1>7. CASE ApplyConfigMap
  BY <1>7, ApplyConfigMapStep
<1>8. CASE ApplySecret
  BY <1>8, ApplySecretStep
<1>9. CASE ApplyDeployment
  BY <1>9, ApplyDeploymentStep
<1>10. ASSUME NEW p \in Pods, StartPod(p) \/ StopPod(p) PROVE IInv'
  BY <1>10, PodStep
<1> QED
  BY <1>1, <1>2, <1>3, <1>4, <1>5, <1>6, <1>7, <1>8, <1>9, <1>10 DEF Next

-----------------------------------------------------------------------------
(* The theorems.                                                           *)

\* The inductive invariant holds in every reachable state of the cluster.
THEOREM Invariance == Spec => []IInv
<1>1. Init => IInv
  BY InitIInv
<1>2. IInv /\ [Next]_vars => IInv'
  BY NextIInv
<1> QED
  BY <1>1, <1>2, PTL DEF Spec

\* Every reachable state of the cluster is well typed: a pod never starts
\* without a configuration or without a secret.
THEOREM TypeCorrect == Spec => []TypeOK
<1>1. IInv => TypeOK
  BY DEF IInv
<1> QED
  BY <1>1, Invariance, PTL

\* A run of the flight takes from pods nothing they need to start, and an edit
\* does not either: the configuration that is applied passed the check that
\* webhookd makes, and with it comes a secret.
THEOREM FlightIsHarmless == Spec => PodsStayStartable
<1> DEFINE Same == UNCHANGED <<configMap, webhook, deployed>>
           Excused == configMap'.agent.kind \in {"unknown", "unread"}
<1>1. ASSUME IInv, Next, Startable, creds' \in {"good", "no_url"},
             touched' = touched
      PROVE  Startable' \/ Excused
  <2>1. CASE Same
    BY <1>1, <2>1 DEF Startable
  <2>2. CASE ApplyConfigMap
    <3>1. /\ configMap' = MakeConfig(flight.agent, flight.creds)
          /\ flight.pc = "apply" /\ flight.agent \in Agent
          /\ UNCHANGED <<webhook, deployed>>
      BY <1>1, <2>2, FlightTypes DEF ApplyConfigMap, Applied, IInv, TypeOK
    <3>2. ConfigValid(configMap') /\ configMap'.agent = flight.agent
      BY <1>1, <3>1 DEF IInv, Checked, MakeConfig
    <3>3. configMap' # None
      <4>1. flight.creds \in Creds
        BY <1>1, FlightTypes DEF IInv, TypeOK
      <4>2. MakeConfig(flight.agent, flight.creds) \in Config
        BY <3>1, <4>1 DEF MakeConfig, Config
      <4> QED
        BY <3>1, <4>2, ConfigAssumption
    <3> QED
      BY <1>1, <3>1, <3>2, <3>3 DEF Startable, RunAccepts
  <2>3. CASE ApplySecret
    <3>1. webhook' # None /\ UNCHANGED <<configMap, deployed>>
      BY <1>1, <2>3 DEF ApplySecret, Applied, IInv, Checked
    <3> QED
      BY <1>1, <3>1 DEF Startable
  <2>4. CASE ApplyDeployment
    BY <1>1, <2>4 DEF ApplyDeployment, Startable
  <2>5. ~TouchSecret
    BY <1>1 DEF TouchSecret
  <2> QED
    BY <1>1, <2>1, <2>2, <2>3, <2>4, <2>5
       DEF Next, EditAgent, EditCreds, Decode, LookupCreds, LookupSecret,
           Render, FlightFails, FlightOnly, StartPod, StopPod
<1>2. IInv /\ [Next]_vars =>
        [(Startable /\ creds' \in {"good", "no_url"} /\ touched' = touched)
           => Startable' \/ Excused]_vars
  BY <1>1
<1> QED
  BY <1>2, Invariance, PTL DEF Spec, PodsStayStartable

\* However often the flight runs and wherever it is interrupted, all pods
\* have the webhook secret, unless the user changes it.
THEOREM OneSecret == Spec => []PodsShareSecret
<1>1. IInv => PodsShareSecret
  BY DEF IInv, PodsHaveSecret, PodsShareSecret
<1> QED
  BY <1>1, Invariance, PTL
=============================================================================
