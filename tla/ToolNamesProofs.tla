-------------------------- MODULE ToolNamesProofs --------------------------
(***************************************************************************)
(* The properties of ToolNames for every alphabet, every registry without   *)
(* underscores and every configuration.                                     *)
(*                                                                         *)
(* The inductive invariant says which tool sits at which index of the       *)
(* slice and that the map holds, under each name, some tool of that name    *)
(* that was already registered.  What remains is about names alone: where   *)
(* the first underscore of a name can be.                                   *)
(***************************************************************************)
EXTENDS ToolNames, SequenceTheorems, TLAPS

-----------------------------------------------------------------------------
(* Names.                                                                  *)

\* sanitize keeps the length of a name and leaves legal characters only, and
\* does not touch a name that is legal.
LEMMA Sanitized ==
  ASSUME NEW s \in Name
  PROVE  /\ sanitize(s) \in Seq(Legal)
         /\ Len(sanitize(s)) = Len(s)
         /\ s \in Seq(Legal) => sanitize(s) = s
<1>1. s = [i \in 1 .. Len(s) |-> s[i]] /\ Len(s) \in Nat
  BY DEF Name
<1>2. sanitize(s) =
        [i \in 1 .. Len(s) |-> IF s[i] \in Legal THEN s[i] ELSE Underscore]
  BY <1>1 DEF sanitize
<1>3. \A i \in 1 .. Len(s) : sanitize(s)[i] \in Legal
  BY <1>2, NamesAssumption
<1>4. ASSUME s \in Seq(Legal) PROVE sanitize(s) = s
  <2>1. \A i \in 1 .. Len(s) : s[i] \in Legal
    BY <1>4
  <2> QED  BY <1>1, <1>2, <2>1
<1> QED  BY <1>1, <1>2, <1>3, <1>4

\* What two sequences joined by a separator of two elements look like.
LEMMA Joined ==
  ASSUME NEW S, NEW a \in Seq(S), NEW c \in S, NEW b \in Seq(S)
  PROVE  /\ (a \o <<c, c>>) \o b \in Seq(S)
         /\ Len((a \o <<c, c>>) \o b) = Len(a) + 2 + Len(b)
         /\ ((a \o <<c, c>>) \o b)[Len(a) + 1] = c
         /\ \A i \in 1 .. Len(a) : ((a \o <<c, c>>) \o b)[i] = a[i]
OBVIOUS

\* The name of an adapter is legal, and has an underscore after the name of
\* its server.
LEMMA ToolNameShape ==
  ASSUME NEW s \in Name, NEW t \in Name
  PROVE  /\ ToolName(s, t) \in Seq(Legal)
         /\ Len(s) + 1 \in 1 .. Len(ToolName(s, t))
         /\ ToolName(s, t)[Len(s) + 1] = Underscore
         /\ \A i \in 1 .. Len(s) : ToolName(s, t)[i] = sanitize(s)[i]
<1>1. /\ sanitize(s) \in Seq(Legal) /\ Len(sanitize(s)) = Len(s)
      /\ sanitize(t) \in Seq(Legal)
  BY Sanitized
<1>2. <<Underscore, Underscore>> \in Seq(Legal)
  BY NamesAssumption
<1>3. Len(s) \in Nat
  BY DEF Name
<1> QED  BY <1>1, <1>2, <1>3 DEF ToolName

\* A built-in tool has no underscore in its name, so no adapter has its name.
LEMMA NoAdapterIsBuiltin ==
  ASSUME NEW b \in Registry, NEW s \in Name, NEW t \in Name
  PROVE  b # ToolName(s, t)
<1>1. \A i \in 1 .. Len(b) : b[i] # Underscore
  BY NamesAssumption
<1> QED  BY <1>1, ToolNameShape

\* Two plain names are equal only if their parts are: the first underscore
\* ends the name of the server in both of them.
LEMMA PlainNamesDiffer ==
  ASSUME NEW s \in Seq(Legal \ {Underscore}), NEW t \in Seq(Legal),
         NEW u \in Seq(Legal \ {Underscore}), NEW v \in Seq(Legal)
  PROVE  ToolName(s, t) = ToolName(u, v) => s = u /\ t = v
<1>1. s \in Seq(Legal) /\ u \in Seq(Legal)
  OBVIOUS
<1>2. s \in Name /\ t \in Name /\ u \in Name /\ v \in Name
  BY <1>1, NamesAssumption DEF Name
<1>3. sanitize(s) = s /\ sanitize(t) = t /\ sanitize(u) = u /\ sanitize(v) = v
  BY <1>1, <1>2, Sanitized
<1>4. /\ \A i \in 1 .. Len(s) : s[i] # Underscore
      /\ \A i \in 1 .. Len(u) : u[i] # Underscore
  OBVIOUS
<1>5. Len(s) \in Nat /\ Len(u) \in Nat
  OBVIOUS
<1>6. ASSUME NEW n, n = ToolName(s, t), n = ToolName(u, v)
      PROVE  /\ n[Len(s) + 1] = Underscore /\ \A i \in 1 .. Len(s) : n[i] = s[i]
             /\ n[Len(u) + 1] = Underscore /\ \A i \in 1 .. Len(u) : n[i] = u[i]
  <2> DEFINE sep == <<Underscore, Underscore>>
  <2>1. n = (s \o sep) \o t /\ n = (u \o sep) \o v
    BY <1>3, <1>6 DEF ToolName
  <2>2. /\ ((s \o sep) \o t)[Len(s) + 1] = Underscore
        /\ \A i \in 1 .. Len(s) : ((s \o sep) \o t)[i] = s[i]
    BY <1>1, NamesAssumption, Joined
  <2>3. /\ ((u \o sep) \o v)[Len(u) + 1] = Underscore
        /\ \A i \in 1 .. Len(u) : ((u \o sep) \o v)[i] = u[i]
    BY <1>1, NamesAssumption, Joined
  <2> HIDE DEF sep
  <2>4. n[Len(s) + 1] = Underscore /\ \A i \in 1 .. Len(s) : n[i] = s[i]
    BY <2>1, <2>2
  <2>5. n[Len(u) + 1] = Underscore /\ \A i \in 1 .. Len(u) : n[i] = u[i]
    BY <2>1, <2>3
  <2> QED  BY <2>4, <2>5
<1>7. ASSUME ToolName(s, t) = ToolName(u, v)
      PROVE  s = u /\ t = v
  <2>1. PICK n : /\ n[Len(s) + 1] = Underscore /\ \A i \in 1 .. Len(s) : n[i] = s[i]
                 /\ n[Len(u) + 1] = Underscore /\ \A i \in 1 .. Len(u) : n[i] = u[i]
    BY <1>6, <1>7
  <2>2. Len(s) = Len(u)
    <3>1. ~ (Len(s) < Len(u))
      <4> SUFFICES ASSUME Len(s) < Len(u)  PROVE FALSE
        OBVIOUS
      <4>1. Len(s) + 1 \in 1 .. Len(u)
        BY <1>5
      <4> QED  BY <1>4, <2>1, <4>1
    <3>2. ~ (Len(u) < Len(s))
      <4> SUFFICES ASSUME Len(u) < Len(s)  PROVE FALSE
        OBVIOUS
      <4>1. Len(u) + 1 \in 1 .. Len(s)
        BY <1>5
      <4> QED  BY <1>4, <2>1, <4>1
    <3> QED  BY <1>5, <3>1, <3>2
  <2>3. s = u
    <3>1. \A i \in 1 .. Len(s) : s[i] = u[i]
      BY <2>1, <2>2
    <3> QED  BY <1>1, <2>2, <3>1, SeqEqual
  <2>4. t = v
    <3> DEFINE front == s \o <<Underscore, Underscore>>
    <3>1. front \in Seq(Legal)
      BY <1>1, NamesAssumption
    <3>2. front \o t = front \o v
      BY <1>3, <1>7, <2>3 DEF ToolName
    <3> HIDE DEF front
    <3> QED  BY <3>1, <3>2, ConcatSimplifications
  <2> QED  BY <2>3, <2>4
<1> QED  BY <1>7

\* The same of two tools that plain servers offer.
LEMMA PlainOffersDiffer ==
  \A o, p \in Offer :
    /\ Plain(o) /\ Plain(p)
    /\ ToolName(o.server, o.tool) = ToolName(p.server, p.tool)
    => o = p
<1> SUFFICES ASSUME NEW o \in Offer, NEW p \in Offer, Plain(o), Plain(p)
             PROVE  ToolName(o.server, o.tool) = ToolName(p.server, p.tool)
                      => o = p
  OBVIOUS
<1>1. /\ o.server \in Seq(Legal \ {Underscore}) /\ o.tool \in Seq(Legal)
      /\ p.server \in Seq(Legal \ {Underscore}) /\ p.tool \in Seq(Legal)
  BY DEF Plain
<1>2. ToolName(o.server, o.tool) = ToolName(p.server, p.tool)
        => o.server = p.server /\ o.tool = p.tool
  BY <1>1, PlainNamesDiffer
<1> QED  BY <1>2 DEF Offer

-----------------------------------------------------------------------------
(* The slice of tools and the map.                                         *)

\* The first k tools are the first k wanted, and those exist.
SelectedUpTo(k) ==
  \A i \in 1 .. k : want[i] \in Registry /\ tools[i] = Builtin(want[i])

\* What the slice holds once the adapters are in it.
Complete ==
  /\ Len(tools) = Len(want) + Len(offered)
  /\ SelectedUpTo(Len(want))
  /\ \A i \in 1 .. Len(offered) :
       tools[Len(want) + i] = Adapter(offered[i])

\* The map holds a tool for the name of every tool registered so far, and
\* under each of its names some tool of that name.
MapOf(k) ==
  /\ \A i \in 1 .. k : tools[i].name \in DOMAIN toolMap
  /\ \A m \in DOMAIN toolMap :
       \E j \in 1 .. k : tools[j].name = m /\ toolMap[m] = tools[j]

IInv ==
  /\ TypeOK
  /\ want \in Wants /\ offered \in Offers
  /\ pc = "select" => /\ next <= Len(want) + 1
                      /\ Len(tools) = next - 1
                      /\ SelectedUpTo(next - 1)
  /\ pc = "pool" => Len(tools) = Len(want) /\ SelectedUpTo(Len(want))
  /\ pc \in {"new", "ready"} => /\ Complete
                                /\ next <= Len(tools) + 1
                                /\ MapOf(next - 1)
  /\ pc = "ready" => next = Len(tools) + 1
  /\ pc \notin {"new", "ready"} => toolMap = << >>

\* Nothing is collected or registered.
LEMMA Start == Init => IInv
<1> SUFFICES ASSUME Init PROVE IInv
  OBVIOUS
<1>1. want \in Seq(Name) /\ offered \in Seq(Offer)
  BY NamesAssumption DEF Init
<1>2. DOMAIN toolMap = {}
  BY DEF Init
<1> QED  BY <1>1, <1>2 DEF Init, IInv, TypeOK, SelectedUpTo

\* What run() puts into the slice are tools.
LEMMA Tools ==
  /\ \A n \in Registry : Builtin(n) \in Tool
  /\ \A o \in Offer : Adapter(o) \in Tool
<1>1. Registry \subseteq Name /\ << >> \in Name /\ Seq(Legal) \subseteq Name
  BY NamesAssumption DEF Name
<1>2. ASSUME NEW n \in Registry PROVE Builtin(n) \in Tool
  BY <1>1 DEF Builtin, Tool, Origin
<1>3. ASSUME NEW o \in Offer PROVE Adapter(o) \in Tool
  <2>1. o.server \in Name /\ o.tool \in Name
    BY DEF Offer
  <2>2. ToolName(o.server, o.tool) \in Name
    BY <1>1, <2>1, ToolNameShape
  <2> QED  BY <2>1, <2>2 DEF Adapter, Tool, Origin
<1> QED  BY <1>2, <1>3

\* Every step keeps the inductive invariant.
LEMMA Step == IInv /\ [Next]_vars => IInv'
<1> SUFFICES ASSUME IInv, [Next]_vars PROVE IInv'
  OBVIOUS
<1> USE DEF IInv, TypeOK
<1>1. CASE SelectBuiltin
  <2>1. CASE want[next] \in Registry
    <3>1. /\ tools' = Append(tools, Builtin(want[next]))
          /\ next' = next + 1
          /\ UNCHANGED <<pc, want, offered, toolMap>>
      BY <1>1, <2>1 DEF SelectBuiltin
    <3>2. Builtin(want[next]) \in Tool
      BY <2>1, Tools
    <3>3. pc = "select" /\ next <= Len(want)
      BY <1>1 DEF SelectBuiltin
    <3>4. /\ Len(tools') = next /\ tools' \in Seq(Tool)
          /\ \A i \in 1 .. next - 1 : tools'[i] = tools[i]
          /\ tools'[next] = Builtin(want[next])
      BY <3>1, <3>2, <3>3
    <3>5. \A i \in 1 .. next :
            want[i] \in Registry /\ tools'[i] = Builtin(want[i])
      <4>1. \A i \in 1 .. next - 1 :
              want[i] \in Registry /\ tools'[i] = Builtin(want[i])
        BY <3>3, <3>4 DEF SelectedUpTo
      <4>2. \A i \in 1 .. next : i = next \/ i \in 1 .. next - 1
        OBVIOUS
      <4>3. want[next] \in Registry /\ tools'[next] = Builtin(want[next])
        BY <2>1, <3>4
      <4> QED  BY <4>1, <4>2, <4>3
    <3>6. (next - 1)' = next
      BY <3>1
    <3>7. SelectedUpTo(next - 1)'
      BY <3>1, <3>5, <3>6 DEF SelectedUpTo
    <3>8. next' <= Len(want) + 1 /\ Len(tools') = next' - 1 /\ next' \in Nat \ {0}
      BY <3>1, <3>3, <3>4
    <3> QED  BY <3>1, <3>3, <3>4, <3>7, <3>8
  <2>2. CASE want[next] \notin Registry
    BY <1>1, <2>2 DEF SelectBuiltin
  <2> QED  BY <2>1, <2>2
<1>2. CASE Selected
  BY <1>2 DEF Selected, SelectedUpTo
<1>3. CASE AppendAdapters
  <2> DEFINE new == [i \in DOMAIN offered |-> Adapter(offered[i])]
  <2>1. /\ new \in Seq(Tool) /\ Len(new) = Len(offered)
        /\ \A i \in 1 .. Len(offered) : new[i] = Adapter(offered[i])
    <3>1. Len(offered) \in Nat /\ DOMAIN offered = 1 .. Len(offered)
      OBVIOUS
    <3>2. \A i \in 1 .. Len(offered) : Adapter(offered[i]) \in Tool
      BY Tools
    <3> QED  BY <3>1, <3>2
  <2>2. pc = "pool" /\ pc' = "new" /\ tools' = tools \o new /\ next' = 1
        /\ UNCHANGED <<want, offered, toolMap>>
    BY <1>3 DEF AppendAdapters
  <2> HIDE DEF new
  <2>3. /\ tools' \in Seq(Tool) /\ Len(tools') = Len(tools) + Len(new)
        /\ \A i \in 1 .. Len(tools) : tools'[i] = tools[i]
        /\ \A i \in 1 .. Len(new) : tools'[Len(tools) + i] = new[i]
    <3>1. tools \in Seq(Tool) /\ Len(tools) \in Nat /\ Len(new) \in Nat
      BY <2>1
    <3>2. /\ tools' \in Seq(Tool) /\ Len(tools') = Len(tools) + Len(new)
          /\ \A i \in 1 .. Len(tools) + Len(new) : tools'[i] =
               IF i <= Len(tools) THEN tools[i] ELSE new[i - Len(tools)]
      BY <2>1, <2>2, <3>1, ConcatProperties
    <3>3. ASSUME NEW i \in 1 .. Len(tools)
          PROVE  tools'[i] = tools[i]
      BY <3>1, <3>2
    <3>4. ASSUME NEW i \in 1 .. Len(new)
          PROVE  tools'[Len(tools) + i] = new[i]
      <4>1. Len(tools) + i \in 1 .. Len(tools) + Len(new)
        BY <3>1
      <4>2. ~ (Len(tools) + i <= Len(tools)) /\ Len(tools) + i - Len(tools) = i
        BY <3>1
      <4> QED  BY <3>2, <4>1, <4>2
    <3> QED  BY <3>2, <3>3, <3>4
  <2>4. Complete'
    BY <2>1, <2>2, <2>3 DEF Complete, SelectedUpTo
  <2>5. MapOf(0)'
    BY <2>2 DEF MapOf
  <2> QED  BY <2>2, <2>3, <2>4, <2>5
<1>4. CASE Register
  <2> DEFINE t == tools[next]
  <2>1. /\ pc = "new" /\ next <= Len(tools) /\ t \in Tool /\ t.name \in Name
        /\ toolMap' = Put(t.name, t) /\ next' = next + 1
        /\ UNCHANGED <<pc, want, offered, tools>>
    <3>1. pc = "new" /\ next \in 1 .. Len(tools)
      BY <1>4 DEF Register
    <3>2. t \in Tool
      BY <3>1, ElementOfSeq
    <3>3. t.name \in Name
      BY <3>2 DEF Tool
    <3> QED  BY <1>4, <3>1, <3>2, <3>3 DEF Register
  <2>2. /\ DOMAIN toolMap' = DOMAIN toolMap \cup {t.name}
        /\ \A m \in DOMAIN toolMap' :
             toolMap'[m] = IF m = t.name THEN t ELSE toolMap[m]
    BY <2>1 DEF Put
  <2>3. Complete'
    BY <2>1 DEF Complete, SelectedUpTo
  <2>4. \A i \in 1 .. next : tools[i].name \in DOMAIN toolMap'
    BY <2>1, <2>2 DEF MapOf
  <2>5. ASSUME NEW m \in DOMAIN toolMap'
        PROVE  \E j \in 1 .. next : tools[j].name = m /\ toolMap'[m] = tools[j]
    <3>1. CASE m = t.name
      BY <2>1, <2>2, <3>1
    <3>2. CASE m # t.name
      <4>1. PICK j \in 1 .. next - 1 : tools[j].name = m /\ toolMap[m] = tools[j]
        BY <2>1, <2>2, <3>2 DEF MapOf
      <4> QED  BY <2>1, <2>2, <3>2, <4>1
    <3> QED  BY <3>1, <3>2
  <2>6. MapOf(next - 1)'
    <3>1. 1 .. (next - 1)' = 1 .. next
      BY <2>1
    <3> QED  BY <2>1, <2>4, <2>5, <3>1 DEF MapOf
  <2>7. DOMAIN toolMap' \subseteq Name /\ \A m \in DOMAIN toolMap' : toolMap'[m] \in Tool
    BY <2>1, <2>2
  <2> QED  BY <2>1, <2>3, <2>6, <2>7
<1>5. CASE Registered
  BY <1>5 DEF Registered, Complete, SelectedUpTo, MapOf
<1>6. CASE Over \/ UNCHANGED vars
  <2>1. UNCHANGED <<pc, want, offered, tools, next, toolMap>>
    BY <1>6 DEF Over, vars
  <2>2. /\ Complete' = Complete
        /\ SelectedUpTo(next - 1)' = SelectedUpTo(next - 1)
        /\ SelectedUpTo(Len(want))' = SelectedUpTo(Len(want))
        /\ MapOf(next - 1)' = MapOf(next - 1)
    BY <2>1 DEF Complete, SelectedUpTo, MapOf
  <2> QED  BY <2>1, <2>2
<1> QED  BY <1>1, <1>2, <1>3, <1>4, <1>5, <1>6 DEF Next

\* The inductive invariant holds in every reachable state.
LEMMA Invariance == Spec => []IInv
BY Start, Step, PTL DEF Spec

-----------------------------------------------------------------------------
(* Theorems.                                                               *)

\* What the map holds under the name of a tool of the slice.
LEMMA Found ==
  ASSUME IInv, pc = "ready", NEW i \in 1 .. Len(tools)
  PROVE  /\ tools[i].name \in DOMAIN toolMap
         /\ \E j \in 1 .. Len(tools) : /\ tools[j].name = tools[i].name
                                       /\ toolMap[tools[i].name] = tools[j]
<1>1. next - 1 = Len(tools) /\ MapOf(next - 1)
  BY DEF IInv, TypeOK
<1> QED  BY <1>1 DEF MapOf

\* Types are kept, for every alphabet and configuration.
THEOREM TypeCorrect == Spec => []TypeOK
<1>1. IInv => TypeOK
  BY DEF IInv
<1> QED  BY <1>1, Invariance, PTL

\* Where the tools of the slice come from.
LEMMA Contents ==
  ASSUME IInv, pc = "ready", NEW j \in 1 .. Len(tools)
  PROVE  \/ \E i \in 1 .. Len(want) :
              want[i] \in Registry /\ tools[j] = Builtin(want[i])
         \/ \E i \in 1 .. Len(offered) :
              offered[i] \in Offer /\ tools[j] = Adapter(offered[i])
<1>1. /\ Complete /\ offered \in Seq(Offer) /\ want \in Seq(Name)
      /\ Len(tools) \in Nat /\ Len(want) \in Nat /\ Len(offered) \in Nat
  BY DEF IInv, TypeOK
<1>2. CASE j <= Len(want)
  BY <1>1, <1>2 DEF Complete, SelectedUpTo
<1>3. CASE j > Len(want)
  <2>1. j - Len(want) \in 1 .. Len(offered)
    BY <1>1, <1>3 DEF Complete
  <2>2. tools[Len(want) + (j - Len(want))] = Adapter(offered[j - Len(want)])
    BY <1>1, <2>1 DEF Complete
  <2>3. Len(want) + (j - Len(want)) = j
    BY <1>1
  <2>4. offered[j - Len(want)] \in Offer
    BY <1>1, <2>1
  <2> QED  BY <2>1, <2>2, <2>3, <2>4
<1> QED  BY <1>1, <1>2, <1>3

\* No server can take the place of a built-in tool, whatever the alphabet,
\* the servers and their tools are.
THEOREM BuiltinsAreSafe == Spec => []BuiltinsReachable
<1>1. ASSUME IInv, pc = "ready", NEW i \in DOMAIN want
      PROVE  Reaches(Builtin(want[i]))
  <2>1. /\ i \in 1 .. Len(want) /\ i \in 1 .. Len(tools)
        /\ want[i] \in Registry /\ tools[i] = Builtin(want[i])
    BY <1>1 DEF IInv, TypeOK, Complete, SelectedUpTo
  <2>2. tools[i].name = want[i]
    BY <2>1 DEF Builtin
  <2>3. PICK j \in 1 .. Len(tools) :
          tools[j].name = want[i] /\ toolMap[want[i]] = tools[j]
    BY <1>1, <2>1, <2>2, Found
  <2>4. want[i] \in DOMAIN toolMap
    BY <1>1, <2>1, <2>2, Found
  <2>5. CASE \E k \in 1 .. Len(want) : tools[j] = Builtin(want[k])
    <3>1. PICK k \in 1 .. Len(want) : tools[j] = Builtin(want[k])
      BY <2>5
    <3>2. want[k] = want[i]
      BY <2>3, <3>1 DEF Builtin
    <3> QED  BY <2>1, <2>2, <2>3, <2>4, <3>1, <3>2 DEF Reaches
  <2>6. CASE \E k \in 1 .. Len(offered) :
               offered[k] \in Offer /\ tools[j] = Adapter(offered[k])
    <3>1. PICK k \in 1 .. Len(offered) :
            offered[k] \in Offer /\ tools[j] = Adapter(offered[k])
      BY <2>6
    <3>2. want[i] = ToolName(offered[k].server, offered[k].tool)
      BY <2>3, <3>1 DEF Adapter
    <3>3. offered[k].server \in Name /\ offered[k].tool \in Name
      BY <3>1 DEF Offer
    <3> QED  BY <2>1, <3>2, <3>3, NoAdapterIsBuiltin
  <2> QED  BY <1>1, <2>5, <2>6, Contents
<1>2. IInv => BuiltinsReachable
  BY <1>1 DEF BuiltinsReachable
<1> QED  BY <1>2, Invariance, PTL

\* Every name the model is given is one OpenAI accepts.
THEOREM NamesFit == Spec => []NamesAreLegal
<1>1. ASSUME IInv, pc = "ready", NEW m \in DOMAIN toolMap
      PROVE  m \in Seq(Legal)
  <2>1. next - 1 = Len(tools) /\ MapOf(next - 1)
    BY <1>1 DEF IInv, TypeOK
  <2>2. PICK j \in 1 .. Len(tools) : tools[j].name = m
    BY <2>1 DEF MapOf
  <2>3. ASSUME NEW n \in Registry PROVE Builtin(n).name \in Seq(Legal)
    BY NamesAssumption DEF Builtin
  <2>4. ASSUME NEW o \in Offer PROVE Adapter(o).name \in Seq(Legal)
    <3>1. o.server \in Name /\ o.tool \in Name
      BY DEF Offer
    <3> QED  BY <3>1, ToolNameShape DEF Adapter
  <2> QED  BY <1>1, <2>2, <2>3, <2>4, Contents
<1>2. IInv => NamesAreLegal
  BY <1>1 DEF NamesAreLegal
<1> QED  BY <1>2, Invariance, PTL

\* Servers whose names have no underscore and need no sanitizing do not
\* collide, nor do their tools.
THEOREM PlainNamesAreSafe == Spec => []PlainNamesDoNotCollide
<1>1. ASSUME IInv, pc = "ready",
             \A i \in DOMAIN offered : Plain(offered[i]),
             NEW i \in DOMAIN offered
      PROVE  Reaches(Adapter(offered[i]))
  <2> DEFINE a == Adapter(offered[i])
  <2>1. /\ offered \in Seq(Offer) /\ want \in Seq(Name) /\ Complete
        /\ i \in 1 .. Len(offered)
    BY <1>1 DEF IInv, TypeOK
  <2>2. Len(want) + i \in 1 .. Len(tools) /\ tools[Len(want) + i] = a
    BY <2>1 DEF Complete
  <2>3. offered[i] \in Offer /\ Plain(offered[i])
    BY <1>1, <2>1
  <2>4. a.name \in DOMAIN toolMap
    BY <1>1, <2>2, Found
  <2>5. PICK j \in 1 .. Len(tools) :
          tools[j].name = a.name /\ toolMap[a.name] = tools[j]
    BY <1>1, <2>2, Found
  <2>6. a.name = ToolName(offered[i].server, offered[i].tool)
    BY DEF Adapter
  <2> HIDE DEF a
  <2>7. ASSUME NEW k \in 1 .. Len(want), want[k] \in Registry,
               tools[j] = Builtin(want[k])
        PROVE  FALSE
    <3>1. want[k] = ToolName(offered[i].server, offered[i].tool)
      BY <2>5, <2>6, <2>7 DEF Builtin
    <3>2. offered[i].server \in Name /\ offered[i].tool \in Name
      BY <2>3 DEF Offer
    <3> QED  BY <2>7, <3>1, <3>2, NoAdapterIsBuiltin
  <2>8. ASSUME NEW k \in 1 .. Len(offered), offered[k] \in Offer,
               tools[j] = Adapter(offered[k])
        PROVE  tools[j] = a
    <3>1. Plain(offered[k])
      BY <1>1, <2>1
    <3>2. ToolName(offered[k].server, offered[k].tool)
            = ToolName(offered[i].server, offered[i].tool)
      BY <2>5, <2>6, <2>8 DEF Adapter
    <3>3. offered[k] = offered[i]
      BY <2>3, <2>8, <3>1, <3>2, PlainOffersDiffer
    <3> QED  BY <2>8, <3>3 DEF a
  <2>9. tools[j] = a
    BY <1>1, <2>7, <2>8, Contents
  <2> QED  BY <2>4, <2>5, <2>9 DEF Reaches, a
<1>2. IInv => PlainNamesDoNotCollide
  BY <1>1 DEF PlainNamesDoNotCollide
<1> QED  BY <1>2, Invariance, PTL
=============================================================================
