--------------------------- MODULE StartupProofs ---------------------------
(***************************************************************************)
(* Proofs about Startup, for any number of servers and tools and any set of *)
(* configurations: Valid finds exactly the faults there are, no call is     *)
(* made under a configuration it refused, every session is closed exactly   *)
(* once, and the process only serves with the tools of every server.        *)
(*                                                                         *)
(* The loop of Valid and Pool.Tools are folds.  What a fold computes is     *)
(* proved by induction over the position the loop is at; the rule (Numbers) *)
(* speaks of a set of numbers, and follows from NatLessThanWellFounded.     *)
(***************************************************************************)
EXTENDS Startup, SequenceTheorems, WellFoundedInduction, TLAPS

-----------------------------------------------------------------------------
(* Induction, and the largest of some numbers.                             *)

\* Of some numbers one is the smallest.
LEMMA Smallest ==
  ASSUME NEW S \in SUBSET Nat, S # {}
  PROVE  \E m \in S : \A k \in S : m <= k
<1>1. PICK R : R = OpToRel(<, Nat)
  OBVIOUS
<1>2. IsWellFoundedOn(R, Nat)
  BY <1>1, NatLessThanWellFounded
<1>3. PICK m \in S : \A k \in S : ~(<<k, m>> \in R)
  BY <1>2, WFMin
<1>4. \A a, b \in Nat : a < b => <<a, b>> \in R
  BY <1>1 DEF OpToRel
<1>5. ASSUME NEW k \in S PROVE m <= k
  <2>1. ~(<<k, m>> \in R)
    BY <1>3
  <2>2. k \in Nat /\ m \in Nat
    OBVIOUS
  <2>3. ~(k < m)
    BY <1>4, <2>1, <2>2, Zenon
  <2> QED BY <2>2, <2>3
<1> QED BY <1>5

\* The rule of induction for a set of numbers: what holds of 0, and of the
\* successor of each number it holds of, holds of every number.
LEMMA Numbers ==
  ASSUME NEW S, 0 \in S, \A k \in Nat : k \in S => k + 1 \in S
  PROVE  Nat \subseteq S
<1> SUFFICES ASSUME Nat \ S # {} PROVE FALSE
  OBVIOUS
<1>1. PICK m \in Nat \ S : \A k \in Nat \ S : m <= k
  BY Smallest
<1>2. m # 0 /\ m - 1 \in Nat
  BY <1>1
<1>3. m - 1 \in S
  BY <1>1, <1>2
<1> QED BY <1>1, <1>2, <1>3

\* The largest of some of the first numbers.
LEMMA MaxUpTo ==
  ASSUME NEW n \in Nat, NEW T \in SUBSET (1 .. n), T # {}
  PROVE  Max(T) \in T
<1>1. \E x \in T : \A y \in T : x >= y
  <2> DEFINE D == {d \in Nat : n - d \in T}
  <2>1. PICK x \in T : TRUE
    OBVIOUS
  <2>2. n - x \in D
    OBVIOUS
  <2>3. PICK d \in D : \A e \in D : d <= e
    BY <2>2, Smallest
  <2>4. \A y \in T : n - y \in D
    OBVIOUS
  <2>5. ASSUME NEW y \in T PROVE n - d >= y
    <3>1. d <= n - y
      BY <2>3, <2>4
    <3>2. y \in 1 .. n /\ d \in Nat
      OBVIOUS
    <3> QED BY <3>1, <3>2
  <2>6. n - d \in T
    OBVIOUS
  <2> QED BY <2>5, <2>6
<1> QED BY <1>1, Zenon DEF Max

\* If the last of the first n numbers is among them, it is the largest.
LEMMA MaxOfTop ==
  ASSUME NEW n \in Nat, NEW T \in SUBSET (1 .. n), n \in T
  PROVE  Max(T) = n
<1>1. n \in T /\ \A y \in T : n >= y
  OBVIOUS
<1>2. \A x \in T : (\A y \in T : x >= y) => x = n
  BY <1>1
<1> QED BY <1>1, <1>2 DEF Max

-----------------------------------------------------------------------------
(* The loop of Valid.                                                      *)

NoneSeen == [names |-> {}, errs |-> {}]

\* What the loop has seen when it has looked at the servers in a set of
\* positions: the fold by which Errors is defined.
Scan(servers, D) ==
  CHOOSE g : g = [T \in SUBSET D |->
                    IF T = {} THEN NoneSeen
                    ELSE CheckServer(g[T \ {Max(T)}], Max(T), servers[Max(T)])]

\* The equation of the fold, for the first n positions.
IsScan(g, servers, n) ==
  g = [T \in SUBSET (1 .. n) |->
         IF T = {} THEN NoneSeen
         ELSE CheckServer(g[T \ {Max(T)}], Max(T), servers[Max(T)])]

\* There is a function that satisfies it, so Scan is one.
LEMMA ScanExists ==
  ASSUME NEW servers, NEW n \in Nat
  PROVE  \E g : IsScan(g, servers, n)
<1> DEFINE S == {k \in Nat : \E g : IsScan(g, servers, k)}
<1>1. 0 \in S
  <2>1. IsScan([T \in SUBSET (1 .. 0) |-> NoneSeen], servers, 0)
    <3>1. \A T \in SUBSET (1 .. 0) : T = {}
      OBVIOUS
    <3> QED BY <3>1, Zenon DEF IsScan
  <2> QED BY <2>1
<1>2. ASSUME NEW k \in Nat, k \in S PROVE k + 1 \in S
  <2> DEFINE m == k + 1
  <2>1. PICK g : IsScan(g, servers, k)
    BY <1>2
  <2> DEFINE h == [T \in SUBSET (1 .. m) |->
                     IF m \in T THEN CheckServer(g[T \ {m}], m, servers[m])
                     ELSE g[T]]
  <2>2. ASSUME NEW T \in SUBSET (1 .. m)
        PROVE  h[T] = IF T = {} THEN NoneSeen
                      ELSE CheckServer(h[T \ {Max(T)}], Max(T), servers[Max(T)])
    <3>1. CASE m \in T
      <4>1. Max(T) = m
        BY <3>1, MaxOfTop
      <4>2. T \ {m} \in SUBSET (1 .. m) /\ m \notin T \ {m} /\ T # {}
        BY <3>1
      <4>3. h[T \ {m}] = g[T \ {m}]
        BY <4>2
      <4>4. h[T] = CheckServer(g[T \ {m}], m, servers[m])
        BY <3>1
      <4> HIDE DEF h, m
      <4> QED BY <4>1, <4>2, <4>3, <4>4
    <3>2. CASE m \notin T
      <4>1. T \in SUBSET (1 .. k)
        BY <3>2
      <4>2. h[T] = g[T]
        BY <3>2
      <4>3. g[T] = IF T = {} THEN NoneSeen
                   ELSE CheckServer(g[T \ {Max(T)}], Max(T), servers[Max(T)])
        BY <2>1, <4>1, Zenon DEF IsScan
      <4>4. T \ {Max(T)} \in SUBSET (1 .. m) /\ m \notin T \ {Max(T)}
        BY <3>2
      <4>5. h[T \ {Max(T)}] = g[T \ {Max(T)}]
        BY <4>4
      <4> HIDE DEF h, m
      <4> QED BY <4>2, <4>3, <4>5
    <3> QED BY <3>1, <3>2
  <2>3. h = [T \in SUBSET (1 .. m) |->
               IF T = {} THEN NoneSeen
               ELSE CheckServer(h[T \ {Max(T)}], Max(T), servers[Max(T)])]
    BY <2>2, Zenon
  <2>4. IsScan(h, servers, m)
    BY <2>3 DEF IsScan
  <2> QED BY <2>4
<1>3. Nat \subseteq S
  <2> HIDE DEF S
  <2> QED BY <1>1, <1>2, Numbers
<1> QED BY <1>3

\* What the loop has seen after its first k rounds.
Seen(servers, k) == Scan(servers, DOMAIN servers)[1 .. k]

\* One round after the other, as the loop does it.
LEMMA SeenStep ==
  ASSUME NEW servers, NEW n \in Nat, DOMAIN servers = 1 .. n
  PROVE  /\ Seen(servers, 0) = NoneSeen
         /\ \A k \in 1 .. n :
              Seen(servers, k) = CheckServer(Seen(servers, k - 1), k, servers[k])
<1> DEFINE g == Scan(servers, 1 .. n)
<1>1. IsScan(g, servers, n)
  BY ScanExists, Zenon DEF Scan, IsScan
<1>2. \A k \in 0 .. n : 1 .. k \in SUBSET (1 .. n) /\ Seen(servers, k) = g[1 .. k]
  BY DEF Seen
<1> HIDE DEF g
<1>3. \A T \in SUBSET (1 .. n) :
        g[T] = IF T = {} THEN NoneSeen
               ELSE CheckServer(g[T \ {Max(T)}], Max(T), servers[Max(T)])
  BY <1>1, Zenon DEF IsScan
<1>4. Seen(servers, 0) = NoneSeen
  <2>1. 1 .. 0 = {}
    OBVIOUS
  <2>2. 0 \in 0 .. n
    OBVIOUS
  <2> QED BY <1>2, <1>3, <2>1, <2>2
<1>5. ASSUME NEW k \in 1 .. n
      PROVE  Seen(servers, k) = CheckServer(Seen(servers, k - 1), k, servers[k])
  <2>1. Max(1 .. k) = k
    BY MaxOfTop
  <2>2. (1 .. k) \ {k} = 1 .. k - 1 /\ 1 .. k # {}
    OBVIOUS
  <2>3. k \in 0 .. n /\ k - 1 \in 0 .. n
    OBVIOUS
  <2>4. g[1 .. k] = CheckServer(g[(1 .. k) \ {k}], k, servers[k])
    BY <1>2, <1>3, <2>1, <2>2, <2>3
  <2> QED BY <1>2, <2>2, <2>3, <2>4
<1> QED BY <1>4, <1>5

\* Errors has what the loop has seen after its last round.
LEMMA ErrorsIsLastSeen ==
  ASSUME NEW c, NEW n \in Nat, DOMAIN c.servers = 1 .. n
  PROVE  Errors(c) = [fields |-> FaultyFields(c),
                      servers |-> Seen(c.servers, n).errs]
<1> DEFINE servers == c.servers
           s == [i \in DOMAIN servers |-> i]
           FoldOf(D) == CHOOSE g : g = [T \in SUBSET D |->
                          IF T = {} THEN NoneSeen
                          ELSE CheckServer(g[T \ {Max(T)}], s[Max(T)],
                                           servers[s[Max(T)]])]
<1>1. FoldLeftDomain(LAMBDA seen, i : CheckServer(seen, i, servers[i]),
                     [names |-> {}, errs |-> {}], servers) = FoldOf(DOMAIN s)[DOMAIN s]
  BY DEF FoldLeftDomain, FoldLeft, MapThenFoldSet, NoneSeen
<1>2. \A g : [T \in SUBSET (1 .. n) |->
                IF T = {} THEN NoneSeen
                ELSE CheckServer(g[T \ {Max(T)}], s[Max(T)], servers[s[Max(T)]])]
           = [T \in SUBSET (1 .. n) |->
                IF T = {} THEN NoneSeen
                ELSE CheckServer(g[T \ {Max(T)}], Max(T), servers[Max(T)])]
  <2>1. ASSUME NEW T \in SUBSET (1 .. n), T # {} PROVE s[Max(T)] = Max(T)
    BY <2>1, MaxUpTo
  <2> HIDE DEF s, servers
  <2> QED BY <2>1
<1>3. DOMAIN s = 1 .. n /\ DOMAIN servers = 1 .. n
  OBVIOUS
<1>4. FoldOf(1 .. n) = Scan(servers, 1 .. n)
  <2> HIDE DEF s, servers
  <2> QED BY <1>2, Zenon DEF Scan
<1>5. FoldOf(DOMAIN s)[DOMAIN s] = Seen(servers, n)
  <2> HIDE DEF s, servers
  <2> QED BY <1>3, <1>4 DEF Seen
<1>6. c.missing \cup (IF c.timeout < 0 THEN {"perRequestTimeout"} ELSE {})
        = FaultyFields(c)
  BY DEF FaultyFields
<1> QED BY <1>1, <1>5, <1>6 DEF Errors

\* The names of the first k servers, but for those without one.
NamesUpTo(servers, k) ==
  {servers[j].name : j \in {i \in 1 .. k : servers[i].name # NoName}}

\* The errors there should be about the first k servers.
ErrorsUpTo(servers, k) ==
  {e \in (1 .. k) \X Faults : e[2] \in Shown(FaultsOf(servers, e[1]))}

\* What the loop knows after k rounds: every name so far, and what is wrong with
\* each server.
ScannedRight(servers, k) ==
  Seen(servers, k) = [names |-> NamesUpTo(servers, k),
                      errs |-> ErrorsUpTo(servers, k)]

\* What is shown of a server is right: a missing name, or else a taken one, or
\* else what the switch of Valid finds.
LEMMA ShownIsRight ==
  ASSUME NEW Names, NEW servers, NEW m \in Nat,
         servers[m] \in MCPServer(Names)
  PROVE  Shown(FaultsOf(servers, m)) =
           IF servers[m].name = NoName THEN {"name"}
           ELSE IF \E j \in 1 .. m - 1 : servers[j].name = servers[m].name
                THEN {"duplicate"}
                ELSE TransportErrors(servers[m])
<1> DEFINE srv == servers[m]
           taken == \E j \in 1 .. m - 1 : servers[j].name = srv.name
           all == FaultsOf(servers, m)
<1>1. srv.transport \in {"stdio", "streamable-http", "sse", "unknown"}
  BY DEF MCPServer
<1>2. /\ all \subseteq Faults
      /\ "name" \in all <=> srv.name = NoName
      /\ "duplicate" \in all <=> srv.name # NoName /\ taken
      /\ "transport" \in all <=> srv.transport = "unknown"
      /\ "command" \in all <=> srv.transport = "stdio" /\ ~srv.command
      /\ "url" \in all
           <=> srv.transport \in {"streamable-http", "sse"} /\ ~srv.url
  BY DEF FaultsOf, Faults
<1>3. ASSUME "name" \notin all, "duplicate" \notin all
      PROVE  all = TransportErrors(srv)
  <2>1. CASE srv.transport = "stdio"
    BY <1>2, <1>3, <2>1 DEF TransportErrors, Faults
  <2>2. CASE srv.transport \in {"streamable-http", "sse"}
    BY <1>2, <1>3, <2>2 DEF TransportErrors, Faults
  <2>3. CASE srv.transport = "unknown"
    BY <1>2, <1>3, <2>3 DEF TransportErrors, Faults
  <2> QED BY <1>1, <2>1, <2>2, <2>3
<1> HIDE DEF srv, taken, all
<1>4. Shown(all) = IF srv.name = NoName THEN {"name"}
                   ELSE IF taken THEN {"duplicate"} ELSE TransportErrors(srv)
  BY <1>2, <1>3 DEF Shown
<1> QED BY <1>4 DEF srv, taken, all

\* By induction over the rounds: the loop knows what it should after each.
LEMMA ScanIsRight ==
  ASSUME NEW Names, NEW servers \in Seq(MCPServer(Names))
  PROVE  \A k \in 0 .. Len(servers) : ScannedRight(servers, k)
<1> DEFINE n == Len(servers)
           S == {k \in Nat : k <= n => ScannedRight(servers, k)}
<1>1. n \in Nat /\ DOMAIN servers = 1 .. n
  OBVIOUS
<1>2. 0 \in S
  <2>1. Seen(servers, 0) = NoneSeen
    BY <1>1, SeenStep
  <2>2. NamesUpTo(servers, 0) = {} /\ ErrorsUpTo(servers, 0) = {}
    BY DEF NamesUpTo, ErrorsUpTo
  <2> QED BY <2>1, <2>2 DEF ScannedRight, NoneSeen
<1>3. ASSUME NEW k \in Nat, k \in S PROVE k + 1 \in S
  <2> DEFINE m == k + 1
             srv == servers[m]
             Bad == Shown(FaultsOf(servers, m))
  <2> SUFFICES ASSUME m \in 1 .. n PROVE ScannedRight(servers, m)
    OBVIOUS
  <2>1. PICK N, E : N = NamesUpTo(servers, k) /\ E = ErrorsUpTo(servers, k)
    OBVIOUS
  <2>2. Seen(servers, m) = CheckServer([names |-> N, errs |-> E], m, srv)
    <3>1. m - 1 = k
      OBVIOUS
    <3>2. Seen(servers, k) = [names |-> N, errs |-> E]
      BY <1>3, <2>1 DEF ScannedRight
    <3> QED BY <1>1, <3>1, <3>2, SeenStep
  <2>3. 1 .. m = (1 .. k) \cup {m} /\ m - 1 = k /\ srv \in MCPServer(Names)
    OBVIOUS
  <2>4. Bad = IF srv.name = NoName THEN {"name"}
              ELSE IF srv.name \in N THEN {"duplicate"}
              ELSE TransportErrors(srv)
    <3>1. srv.name # NoName =>
            (srv.name \in N <=> \E j \in 1 .. m - 1 : servers[j].name = srv.name)
      BY <2>1, <2>3 DEF NamesUpTo
    <3>2. m \in Nat /\ servers[m] \in MCPServer(Names)
      OBVIOUS
    <3>3. Bad = IF srv.name = NoName THEN {"name"}
                ELSE IF \E j \in 1 .. m - 1 : servers[j].name = srv.name
                     THEN {"duplicate"} ELSE TransportErrors(srv)
      BY <3>2, ShownIsRight, Zenon
    <3> HIDE DEF Bad, srv, m
    <3> QED BY <3>1, <3>3
  <2>5. NamesUpTo(servers, m) =
          IF srv.name = NoName \/ srv.name \in N THEN N ELSE N \cup {srv.name}
    BY <2>1, <2>3 DEF NamesUpTo
  <2>6. ErrorsUpTo(servers, m) = E \cup ({m} \X Bad)
    <3>1. Bad \subseteq Faults
      BY DEF Shown, FaultsOf
    <3>2. \A i, f : <<i, f>> \in ErrorsUpTo(servers, m)
             <=> i \in 1 .. m /\ f \in Faults /\ f \in Shown(FaultsOf(servers, i))
      BY DEF ErrorsUpTo
    <3>3. \A i, f : <<i, f>> \in E
             <=> i \in 1 .. k /\ f \in Faults /\ f \in Shown(FaultsOf(servers, i))
      BY <2>1 DEF ErrorsUpTo
    <3>4. \A e \in ErrorsUpTo(servers, m) \cup E \cup ({m} \X Bad) :
            e = <<e[1], e[2]>>
      BY <2>1 DEF ErrorsUpTo
    <3>5. \A i, f : <<i, f>> \in ErrorsUpTo(servers, m)
                     <=> <<i, f>> \in E \cup ({m} \X Bad)
      BY <2>3, <3>1, <3>2, <3>3
    <3> HIDE DEF m, Bad
    <3> QED BY <3>4, <3>5
  <2> HIDE DEF m, srv, Bad
  <2>7. CASE srv.name = NoName \/ srv.name \in N
    <3>1. PICK f : Bad = {f} /\ f = IF srv.name = NoName THEN "name"
                                    ELSE "duplicate"
      BY <2>4, <2>7
    <3>2. Seen(servers, m) = [names |-> N, errs |-> E \cup {<<m, f>>}]
      BY <2>2, <2>7, <3>1 DEF CheckServer
    <3>3. {m} \X {f} = {<<m, f>>}
      OBVIOUS
    <3>4. NamesUpTo(servers, m) = N /\ ErrorsUpTo(servers, m) = E \cup {<<m, f>>}
      BY <2>5, <2>6, <2>7, <3>1, <3>3
    <3> QED BY <3>2, <3>4 DEF ScannedRight
  <2>8. CASE srv.name # NoName /\ srv.name \notin N
    <3>1. Seen(servers, m) = [names |-> N \cup {srv.name},
                              errs |-> E \cup ({m} \X TransportErrors(srv))]
      BY <2>2, <2>8 DEF CheckServer, Remember
    <3> QED BY <2>4, <2>5, <2>6, <2>8, <3>1 DEF ScannedRight
  <2> QED BY <2>7, <2>8 DEF m
<1>4. Nat \subseteq S
  <2> HIDE DEF S
  <2> QED BY <1>2, <1>3, Numbers
<1> QED BY <1>1, <1>4

\* The sequences up to the k-th, one after the other: FlattenSeq for k = Len.
Flat(seqs, n) ==
  CHOOSE g : g = [i \in 1 .. n |-> IF i = 1 THEN seqs[i] ELSE g[i - 1] \o seqs[i]]

\* There is a function that satisfies the equation of Flat.
LEMMA FlatExists ==
  ASSUME NEW seqs, NEW n \in Nat
  PROVE  \E g : g = [i \in 1 .. n |->
                       IF i = 1 THEN seqs[i] ELSE g[i - 1] \o seqs[i]]
<1> DEFINE IsFlat(g, k) == g = [i \in 1 .. k |->
                                  IF i = 1 THEN seqs[i] ELSE g[i - 1] \o seqs[i]]
           S == {k \in Nat : \E g : IsFlat(g, k)}
<1>1. 0 \in S
  <2>1. IsFlat([i \in 1 .. 0 |-> 0], 0)
    <3>1. \A i \in 1 .. 0 : FALSE
      OBVIOUS
    <3> QED BY <3>1, Zenon
  <2> HIDE DEF IsFlat
  <2> QED BY <2>1
<1>2. ASSUME NEW k \in Nat, k \in S PROVE k + 1 \in S
  <2> DEFINE m == k + 1
  <2>1. PICK g : IsFlat(g, k)
    <3> HIDE DEF IsFlat
    <3> QED BY <1>2
  <2> DEFINE h == [i \in 1 .. m |->
                     IF i = 1 THEN seqs[i] ELSE IF i = m THEN g[k] \o seqs[m]
                                                ELSE g[i]]
  <2>2. ASSUME NEW i \in 1 .. m
        PROVE  h[i] = IF i = 1 THEN seqs[i] ELSE h[i - 1] \o seqs[i]
    <3>1. ASSUME i # 1 PROVE i - 1 \in 1 .. k /\ i - 1 \in 1 .. m /\ i - 1 # m
      BY <3>1
    <3>2. ASSUME i # 1 PROVE h[i - 1] = g[i - 1]
      <4>1. 1 \in 1 .. k => g[1] = seqs[1]
        BY <2>1
      <4> QED BY <3>1, <3>2, <4>1
    <3>3. ASSUME i # 1, i # m PROVE g[i] = g[i - 1] \o seqs[i]
      <4>1. i \in 1 .. k
        BY <3>3
      <4> QED BY <2>1, <3>3, <4>1
    <3>4. i = m => i - 1 = k
      OBVIOUS
    <3>5. h[i] = IF i = 1 THEN seqs[i] ELSE IF i = m THEN g[k] \o seqs[m]
                                                ELSE g[i]
      BY Zenon
    <3> HIDE DEF h, m
    <3> QED BY <3>2, <3>3, <3>4, <3>5
  <2>3. IsFlat(h, m)
    BY <2>2, Zenon
  <2> HIDE DEF IsFlat
  <2> QED BY <2>3
<1>3. Nat \subseteq S
  <2> HIDE DEF S
  <2> QED BY <1>1, <1>2, Numbers
<1> QED BY <1>3

\* FlattenSeq appends one sequence after the other.
LEMMA FlattenStep ==
  ASSUME NEW X, NEW seqs \in Seq(X)
  PROVE  LET n == Len(seqs)
         IN  /\ FlattenSeq(seqs) = IF n = 0 THEN seqs ELSE Flat(seqs, n)[n]
             /\ \A k \in 1 .. n :
                  Flat(seqs, n)[k] = IF k = 1 THEN seqs[k]
                                     ELSE Flat(seqs, n)[k - 1] \o seqs[k]
<1> DEFINE n == Len(seqs)
           g == Flat(seqs, n)
<1>1. n \in Nat
  OBVIOUS
<1>2. FlattenSeq(seqs) = IF n = 0 THEN seqs ELSE g[n]
  BY Zenon DEF FlattenSeq, Flat
<1>3. g = [i \in 1 .. n |-> IF i = 1 THEN seqs[i] ELSE g[i - 1] \o seqs[i]]
  BY <1>1, FlatExists, Zenon DEF Flat
<1> HIDE DEF g
<1>4. \A k \in 1 .. n : g[k] = IF k = 1 THEN seqs[k] ELSE g[k - 1] \o seqs[k]
  BY <1>3, Zenon
<1> QED BY <1>2, <1>4, Zenon DEF g

\* The adapters of the first n servers, if they are all there and in order.
Complete(ads, n) ==
  /\ ads \in Seq([server : 1 .. n, tool : 1 .. MaxTools])
  /\ \A s \in 1 .. n : \A t \in 1 .. listed[s] :
       \E i \in DOMAIN ads : ads[i] = [server |-> s, tool |-> t]
  /\ \A i, j \in DOMAIN ads :
       i < j => \/ ads[i].server < ads[j].server
                \/ /\ ads[i].server = ads[j].server
                   /\ ads[i].tool < ads[j].tool

\* No server, no adapter.
LEMMA NoAdapters == Complete(<< >>, 0)
<1>1. DOMAIN << >> = {} /\ 1 .. 0 = {}
  OBVIOUS
<1> QED BY <1>1 DEF Complete

\* Tools goes on with the adapters of the next client.
LEMMA AdaptersAppended ==
  ASSUME NEW k \in Nat, NEW ads, Complete(ads, k), listed[k + 1] \in 0 .. MaxTools
  PROVE  Complete(ads \o ClientTools([server |-> k + 1, tools |-> listed[k + 1]]),
                  k + 1)
<1> DEFINE m == k + 1
           n == listed[m]
           own == [i \in 1 .. n |-> [server |-> m, tool |-> i]]
           all == ads \o own
           Adapter == [server : 1 .. m, tool : 1 .. MaxTools]
<1>1. ClientTools([server |-> m, tools |-> n]) = own
  BY DEF ClientTools
<1>2. own \in Seq(Adapter) /\ Len(own) = n /\ n \in Nat
  <2>1. n \in Nat /\ MaxTools \in Nat
    BY PoolAssumption
  <2>2. \A i \in 1 .. n : [server |-> m, tool |-> i] \in Adapter
    BY <2>1
  <2> HIDE DEF Adapter
  <2>3. own \in [1 .. n -> Adapter]
    BY <2>2
  <2> HIDE DEF own
  <2> QED BY <2>1, <2>3
<1>3. ads \in Seq(Adapter)
  <2>1. [server : 1 .. k, tool : 1 .. MaxTools] \subseteq Adapter
    OBVIOUS
  <2>2. ads \in Seq([server : 1 .. k, tool : 1 .. MaxTools])
    BY DEF Complete
  <2> QED BY <2>1, <2>2, SeqMonotonic
<1> HIDE DEF Adapter
<1>4. /\ all \in Seq(Adapter)
      /\ DOMAIN all = 1 .. Len(ads) + n /\ DOMAIN ads = 1 .. Len(ads)
      /\ Len(ads) \in Nat
      /\ \A i \in 1 .. Len(ads) : all[i] = ads[i]
      /\ \A i \in 1 .. n : all[Len(ads) + i] = [server |-> m, tool |-> i]
  BY <1>2, <1>3
<1>5. \A i \in DOMAIN ads : ads[i] \in [server : 1 .. k, tool : 1 .. MaxTools]
  <2>1. ads \in Seq([server : 1 .. k, tool : 1 .. MaxTools])
    BY DEF Complete
  <2> QED BY <1>4, <2>1, ElementOfSeq
<1> HIDE DEF own, all
<1>6. ASSUME NEW i \in DOMAIN all, i \notin DOMAIN ads
      PROVE  i - Len(ads) \in 1 .. n
             /\ all[i] = [server |-> m, tool |-> i - Len(ads)]
  <2>1. i - Len(ads) \in 1 .. n /\ Len(ads) + (i - Len(ads)) = i
    BY <1>2, <1>4, <1>6
  <2> QED BY <1>4, <2>1
<1>7. ASSUME NEW s \in 1 .. m, NEW t \in 1 .. listed[s]
      PROVE  \E i \in DOMAIN all : all[i] = [server |-> s, tool |-> t]
  <2>1. CASE s = m
    <3>1. Len(ads) + t \in DOMAIN all
      BY <1>2, <1>4, <2>1
    <3> QED BY <1>4, <2>1, <3>1
  <2>2. CASE s # m
    <3>1. PICK i \in DOMAIN ads : ads[i] = [server |-> s, tool |-> t]
      BY <2>2 DEF Complete
    <3>2. i \in DOMAIN all
      BY <1>2, <1>4, <3>1
    <3> QED BY <1>4, <3>1, <3>2
  <2> QED BY <2>1, <2>2
<1>8. ASSUME NEW i \in DOMAIN all, NEW j \in DOMAIN all, i < j
      PROVE  \/ all[i].server < all[j].server
             \/ /\ all[i].server = all[j].server
                /\ all[i].tool < all[j].tool
  <2>1. CASE j \in DOMAIN ads
    <3>1. i \in DOMAIN ads
      BY <1>2, <1>4, <1>8, <2>1
    <3>2. \/ ads[i].server < ads[j].server
          \/ ads[i].server = ads[j].server /\ ads[i].tool < ads[j].tool
      BY <1>8, <2>1, <3>1 DEF Complete
    <3>3. all[i] = ads[i] /\ all[j] = ads[j]
      BY <1>4, <2>1, <3>1
    <3> QED BY <3>2, <3>3
  <2>2. CASE i \in DOMAIN ads /\ j \notin DOMAIN ads
    <3>1. all[i].server \in 1 .. k
      BY <1>4, <1>5, <2>2
    <3>2. all[j].server = m
      BY <1>6, <2>2
    <3> QED BY <3>1, <3>2
  <2>3. CASE i \notin DOMAIN ads
    <3>1. j \notin DOMAIN ads
      BY <1>2, <1>4, <1>8, <2>3
    <3>2. /\ all[i] = [server |-> m, tool |-> i - Len(ads)]
          /\ all[j] = [server |-> m, tool |-> j - Len(ads)]
      BY <1>6, <2>3, <3>1
    <3>3. i - Len(ads) < j - Len(ads)
      BY <1>2, <1>4, <1>8
    <3> QED BY <3>2, <3>3
  <2> QED BY <2>1, <2>2, <2>3
<1> QED BY <1>1, <1>4, <1>7, <1>8 DEF Complete, all, Adapter

\* The clients are those of the first servers, in order.
InOrder ==
  \A i \in DOMAIN clients : clients[i] = [server |-> i, tools |-> listed[i]]

\* Pool.Tools, with a client for each of the first servers.
LEMMA PoolToolsComplete ==
  ASSUME InOrder, clients \in Seq([server : Servers, tools : 0 .. MaxTools])
  PROVE  Complete(PoolTools, Len(clients))
<1> DEFINE n == Len(clients)
           seqs == [i \in DOMAIN clients |-> ClientTools(clients[i])]
           g == Flat(seqs, n)
           S == {k \in Nat : k + 1 \in 1 .. n => Complete(g[k + 1], k + 1)}
<1>1. n \in Nat /\ DOMAIN clients = 1 .. n
  OBVIOUS
<1>2. PICK X : seqs \in Seq(X)
  <2>1. seqs \in Seq({ClientTools(clients[i]) : i \in 1 .. n})
    BY <1>1
  <2> QED BY <2>1
<1>3. DOMAIN seqs = 1 .. n /\ Len(seqs) = n
  BY <1>1
<1>4. \A k \in 1 .. n : /\ seqs[k] = ClientTools([server |-> k, tools |-> listed[k]])
                        /\ listed[k] \in 0 .. MaxTools
  <2> SUFFICES ASSUME NEW k \in 1 .. n
               PROVE  /\ seqs[k] = ClientTools([server |-> k, tools |-> listed[k]])
                      /\ listed[k] \in 0 .. MaxTools
    OBVIOUS
  <2>1. clients[k] = [server |-> k, tools |-> listed[k]]
    BY <1>1 DEF InOrder
  <2>2. clients[k] \in [server : Servers, tools : 0 .. MaxTools]
    BY <1>1, ElementOfSeq
  <2>3. listed[k] \in 0 .. MaxTools
    BY <2>1, <2>2
  <2> QED BY <1>1, <2>1, <2>3
<1> HIDE DEF seqs
<1>5. /\ FlattenSeq(seqs) = IF n = 0 THEN seqs ELSE g[n]
      /\ \A k \in 1 .. n : g[k] = IF k = 1 THEN seqs[k] ELSE g[k - 1] \o seqs[k]
  BY <1>2, <1>3, FlattenStep, Zenon
<1> HIDE DEF g, n
<1>6. 0 \in S
  <2> SUFFICES ASSUME 1 \in 1 .. n PROVE Complete(g[1], 1)
    OBVIOUS
  <2>1. g[1] = ClientTools([server |-> 1, tools |-> listed[1]])
    BY <1>4, <1>5
  <2>2. listed[1] \in 0 .. MaxTools /\ 0 + 1 = 1
    <3>1. \A j \in 1 .. n : listed[j] \in 0 .. MaxTools
      BY <1>4, Zenon
    <3> QED BY <3>1
  <2>3. Complete(<< >> \o ClientTools([server |-> 0 + 1, tools |-> listed[0 + 1]]), 0 + 1)
    BY <2>2, NoAdapters, AdaptersAppended
  <2>4. << >> \o g[1] = g[1]
    BY <2>1, <2>2 DEF ClientTools
  <2> QED BY <2>1, <2>3, <2>4
<1>7. ASSUME NEW k \in Nat, k \in S PROVE k + 1 \in S
  <2> DEFINE m == k + 1
  <2> SUFFICES ASSUME m + 1 \in 1 .. n PROVE Complete(g[m + 1], m + 1)
    OBVIOUS
  <2>1. m \in 1 .. n /\ (m + 1) - 1 = m /\ m + 1 # 1
    BY <1>1
  <2>2. Complete(g[m], m)
    BY <1>7, <2>1
  <2>3. g[m + 1] = g[m] \o ClientTools([server |-> m + 1, tools |-> listed[m + 1]])
    BY <1>4, <1>5, <2>1
  <2>4. listed[m + 1] \in 0 .. MaxTools /\ m \in Nat
    <3>1. \A j \in 1 .. n : listed[j] \in 0 .. MaxTools
      BY <1>4, Zenon
    <3> QED BY <3>1
  <2> HIDE DEF m
  <2> QED BY <2>2, <2>3, <2>4, AdaptersAppended
<1>8. Nat \subseteq S
  <2> HIDE DEF S
  <2> QED BY <1>6, <1>7, Numbers
<1>9. PoolTools = FlattenSeq(seqs)
  BY DEF PoolTools, seqs
<1>10. CASE n = 0
  <2>1. seqs = << >>
    BY <1>3, <1>10
  <2> QED BY <1>5, <1>9, <1>10, <2>1, NoAdapters DEF n
<1>11. CASE n # 0
  <2>1. n - 1 \in Nat /\ (n - 1) + 1 = n /\ n \in 1 .. n
    BY <1>1, <1>11
  <2>2. n - 1 \in S
    BY <1>8, <2>1
  <2>3. Complete(g[n], n)
    BY <2>1, <2>2
  <2> QED BY <1>5, <1>9, <1>11, <2>3 DEF n
<1> QED BY <1>10, <1>11

\* What Load reports of a configuration in the file: every field and every
\* server at fault, and nothing else.
LEMMA ErrorsAreRight ==
  ASSUME NEW c \in Configs
  PROVE  /\ Len(c.servers) \in 0 .. MaxServers
         /\ DOMAIN c.servers = 1 .. Len(c.servers)
         /\ Errors(c) = [fields |-> FaultyFields(c), servers |-> Errors(c).servers]
         /\ FaultyFields(c) \subseteq Required \cup {"perRequestTimeout"}
         /\ Errors(c).servers \subseteq Servers \X Faults
         /\ Errors(c).servers = ErrorsUpTo(c.servers, Len(c.servers))
<1> DEFINE servers == c.servers
           n == Len(servers)
<1>1. PICK Names : servers \in Seq(MCPServer(Names)) /\ n <= MaxServers
  BY StartupAssumption
<1>2. n \in 0 .. MaxServers /\ DOMAIN servers = 1 .. n /\ n \in Nat
  BY <1>1, PoolAssumption
<1> HIDE DEF n
<1>3. ScannedRight(servers, n)
  BY <1>1, <1>2, ScanIsRight DEF n
<1>4. PICK errs : errs = Seen(servers, n).errs
  OBVIOUS
<1>5. Errors(c) = [fields |-> FaultyFields(c), servers |-> errs]
  BY <1>2, <1>4, ErrorsIsLastSeen, Zenon
<1>6. errs = ErrorsUpTo(servers, n) /\ errs \subseteq (1 .. n) \X Faults
  BY <1>3, <1>4 DEF ScannedRight, ErrorsUpTo
<1>7. errs \subseteq Servers \X Faults
  <2>1. 1 .. n \subseteq Servers
    BY <1>2, PoolAssumption DEF Servers
  <2> QED BY <1>6, <2>1
<1>8. FaultyFields(c) \subseteq Required \cup {"perRequestTimeout"}
  BY StartupAssumption DEF FaultyFields
<1>9. Errors(c).servers = errs
  BY <1>5
<1> HIDE DEF servers
<1> QED BY <1>2, <1>5, <1>6, <1>7, <1>8, <1>9 DEF n, servers

\* Valid accepts exactly the well-formed configurations: the loop over the
\* servers, with the names it remembers and its early continue, finds a fault
\* if and only if there is one.
THEOREM ValidIsWellFormed ==
  ASSUME NEW c \in Configs
  PROVE  Valid(c) <=> WellFormed(c)
<1>1. PICK errs : errs = Errors(c).servers
  OBVIOUS
<1>2. Errors(c) = [fields |-> FaultyFields(c), servers |-> errs]
  BY <1>1, ErrorsAreRight
<1>3. errs = ErrorsUpTo(c.servers, Len(c.servers))
  BY <1>1, ErrorsAreRight
<1>4. Valid(c) <=> FaultyFields(c) = {} /\ errs = {}
  <2>1. Errors(c).fields = FaultyFields(c) /\ Errors(c).servers = errs
    BY <1>2
  <2> QED BY <1>2, <2>1 DEF Valid
<1>5. errs = {} <=> \A i \in DOMAIN c.servers : FaultsOf(c.servers, i) = {}
  <2>1. \A i \in DOMAIN c.servers :
          /\ Shown(FaultsOf(c.servers, i)) \subseteq Faults
          /\ Shown(FaultsOf(c.servers, i)) = {} <=> FaultsOf(c.servers, i) = {}
    BY DEF Shown, FaultsOf
  <2>2. DOMAIN c.servers = 1 .. Len(c.servers)
    BY ErrorsAreRight
  <2>3. ASSUME NEW i \in DOMAIN c.servers, NEW f \in Shown(FaultsOf(c.servers, i))
        PROVE  <<i, f>> \in errs
    BY <1>3, <2>1, <2>2 DEF ErrorsUpTo
  <2>4. ASSUME NEW e \in errs
        PROVE  e[1] \in DOMAIN c.servers /\ Shown(FaultsOf(c.servers, e[1])) # {}
    BY <1>3, <2>2 DEF ErrorsUpTo
  <2> QED BY <2>1, <2>3, <2>4
<1> QED BY <1>4, <1>5 DEF WellFormed

\* What Valid can find.
Report == [fields : SUBSET (Required \cup {"perRequestTimeout"}),
           servers : SUBSET (Servers \X Faults)]

\* Errors finds nothing else.
LEMMA ReportTypes ==
  ASSUME NEW c \in Configs
  PROVE  NoErrors \in Report /\ Errors(c) \in Report
<1>1. NoErrors \in Report
  BY DEF NoErrors, Report
<1>2. PICK F, E : F = FaultyFields(c) /\ E = Errors(c).servers
  OBVIOUS
<1>3. Errors(c) = [fields |-> F, servers |-> E]
  BY <1>2, ErrorsAreRight
<1>4. F \in SUBSET (Required \cup {"perRequestTimeout"}) /\ E \in SUBSET (Servers \X Faults)
  BY <1>2, ErrorsAreRight
<1> QED BY <1>1, <1>3, <1>4 DEF Report, Faults

\* newTransport refuses no server that Valid accepted.
LEMMA TransportAccepted ==
  ASSUME NEW c \in Configs, Valid(c), NEW s \in DOMAIN c.servers
  PROVE  ~TransportFails(c.servers[s])
<1>1. FaultsOf(c.servers, s) = {}
  BY ValidIsWellFormed DEF WellFormed
<1>2. PICK Names : c.servers[s] \in MCPServer(Names)
  <2>1. PICK Names : c.servers \in Seq(MCPServer(Names))
    BY StartupAssumption
  <2>2. c.servers[s] \in MCPServer(Names)
    BY <2>1, ErrorsAreRight, ElementOfSeq
  <2> QED BY <2>2
<1>3. c.servers[s].transport \in {"stdio", "streamable-http", "sse", "unknown"}
  BY <1>2 DEF MCPServer
<1> QED BY <1>1, <1>3 DEF FaultsOf, Faults, TransportFails

-----------------------------------------------------------------------------
(* The inductive invariant.                                                *)

\* Where run() is, and how far it got.
Located ==
  /\ pc \in {"load", "prepare"} => specs = << >> /\ spec = 1 /\ clients = << >>
  /\ pc \in {"connect", "list"} => /\ specs = cfg.servers
                                   /\ spec \in 1 .. Len(specs)
                                   /\ Len(clients) = spec - 1
  /\ pc \in {"pooled", "serving"} => /\ specs = cfg.servers
                                     /\ Len(clients) = Len(specs)
  /\ pc = "closing" => closing \in 1 .. Len(clients)

\* The servers whose session somebody still has to close.
Owed ==
  CASE pc = "list" -> 1 .. Len(clients) + 1
    [] pc = "closing" -> closing .. Len(clients)
    [] pc = "returned" -> {}
    [] OTHER -> 1 .. Len(clients)

\* Exactly the sessions that are owed a call of Close are there, dead or
\* alive; a session was closed once if it is closed, and no session is before
\* run() ends.
Ledger ==
  /\ \A s \in Servers : session[s] \in {"open", "dead"} <=> s \in Owed
  /\ \A s \in Servers : closes[s] = IF session[s] = "closed" THEN 1 ELSE 0
  /\ pc \notin {"closing", "returned"} => \A s \in Servers : session[s] # "closed"

\* What run() knows of the configuration.
Checked ==
  /\ pc \notin {"load", "returned"} => Valid(cfg)
  /\ (\E s \in Servers : session[s] # "none") => Valid(cfg)
  /\ report \in {NoErrors, Errors(cfg)}
  /\ err = "config" => ~Valid(cfg)
  /\ err \notin {"transport", "deps"}

\* The adapters in use are all there.
Served == pc = "serving" => Complete(adapters, Len(clients))

\* The inductive invariant.
IInv == TypeOK /\ Located /\ InOrder /\ Ledger /\ Checked /\ Served

-----------------------------------------------------------------------------
(* It holds initially, and every action keeps it.                          *)

\* There is no session yet, and no client.
LEMMA InitIInv ==
  ASSUME Init
  PROVE  IInv
<1>1. TypeOK
  <2>1. report \in Report
    BY ReportTypes DEF Init
  <2>2. PoolTypeOK
    BY PoolAssumption DEF Init, PoolInit, PoolTypeOK, Servers
  <2> QED BY <2>1, <2>2 DEF Init, TypeOK, Causes, Report
<1>2. Located /\ InOrder /\ Served
  BY DEF Init, PoolInit, Located, InOrder, Served
<1>3. Ledger
  BY DEF Init, PoolInit, Ledger, Owed
<1>4. Checked
  BY DEF Init, PoolInit, Checked
<1> QED BY <1>1, <1>2, <1>3, <1>4 DEF IInv

\* run() returns before there is anything to close.
LEMMA LoadFailsStep ==
  ASSUME IInv, LoadFails
  PROVE  IInv'
<1> USE DEF LoadFails, ReturnEarly, poolVars
<1>1. TypeOK'
  BY DEF IInv, TypeOK, PoolTypeOK, Causes
<1>2. Located' /\ InOrder' /\ Served'
  BY DEF IInv, Located, InOrder, Served
<1>3. Ledger'
  BY DEF IInv, Located, Ledger, Owed
<1>4. Checked'
  BY DEF IInv, Checked
<1> QED BY <1>1, <1>2, <1>3, <1>4 DEF IInv

\* The report is what Errors finds, and only a valid configuration goes on.
LEMMA LoadStep ==
  ASSUME IInv, Load
  PROVE  IInv'
<1> USE DEF Load, ReturnEarly, poolVars
<1>1. TypeOK'
  <2>1. report' \in Report
    BY ReportTypes DEF IInv, TypeOK
  <2>2. PoolTypeOK'
    BY DEF IInv, TypeOK, PoolTypeOK
  <2> QED BY <2>1, <2>2 DEF IInv, TypeOK, Causes, Report
<1>2. Located' /\ InOrder' /\ Served'
  BY DEF IInv, Located, InOrder, Served
<1>3. Ledger'
  BY DEF IInv, Located, Ledger, Owed
<1>4. Checked'
  BY DEF IInv, Checked
<1> QED BY <1>1, <1>2, <1>3, <1>4 DEF IInv

\* Nor is there a session when the environment is wrong.
LEMMA PrepareFailsStep ==
  ASSUME IInv, PrepareFails
  PROVE  IInv'
<1> USE DEF PrepareFails, ReturnEarly, poolVars
<1>1. TypeOK'
  BY DEF IInv, TypeOK, PoolTypeOK, Causes
<1>2. Located' /\ InOrder' /\ Served'
  BY DEF IInv, Located, InOrder, Served
<1>3. Ledger'
  BY DEF IInv, Located, Ledger, Owed
<1>4. Checked'
  BY DEF IInv, Checked
<1> QED BY <1>1, <1>2, <1>3, <1>4 DEF IInv

\* The specs are those of the configuration, and no server is connected to.
LEMMA PrepareStep ==
  ASSUME IInv, Prepare
  PROVE  IInv'
<1> USE DEF Prepare, poolVars
<1>1. TypeOK'
  BY DEF IInv, TypeOK, PoolTypeOK, Causes
<1>2. Located'
  <2>1. Len(cfg.servers) \in Nat /\ (cfg.servers # << >> => Len(cfg.servers) > 0)
    BY StartupAssumption DEF IInv, TypeOK
  <2> QED BY <2>1 DEF IInv, Located
<1>3. InOrder' /\ Served'
  BY DEF IInv, InOrder, Served
<1>4. Ledger'
  BY DEF IInv, Ledger, Owed
<1>5. Checked'
  BY DEF IInv, Checked
<1> QED BY <1>1, <1>2, <1>3, <1>4, <1>5 DEF IInv

\* The adapters are those of every server, and validate has nothing to refuse.
LEMMA BuildRunnerStep ==
  ASSUME IInv, BuildRunner
  PROVE  IInv'
<1> USE DEF BuildRunner, BeginClose
<1>1. Complete(PoolTools, Len(clients)) /\ Len(clients) \in 0 .. MaxServers
  <2>1. Len(clients) = Len(cfg.servers) /\ cfg \in Configs
    BY DEF IInv, Located, TypeOK
  <2>2. InOrder /\ clients \in Seq([server : Servers, tools : 0 .. MaxTools])
    BY DEF IInv, TypeOK, PoolTypeOK
  <2> QED BY <2>1, <2>2, PoolToolsComplete, ErrorsAreRight
<1>2. ~DepsIncomplete
  <2>1. Valid(cfg) /\ cfg \in Configs
    BY DEF IInv, Checked, TypeOK
  <2>2. FaultyFields(cfg) = {}
    BY <2>1, ValidIsWellFormed DEF WellFormed
  <2> QED BY <2>2 DEF FaultyFields, DepsIncomplete
<1>3. TypeOK'
  <2>1. adapters' \in Seq([server : Servers, tool : 1 .. MaxTools])
    <3>1. PICK S, T : /\ S = [server : 1 .. Len(clients), tool : 1 .. MaxTools]
                      /\ T = [server : Servers, tool : 1 .. MaxTools]
      OBVIOUS
    <3>2. S \subseteq T
      BY <1>1, <3>1, PoolAssumption DEF Servers
    <3>3. PoolTools \in Seq(S)
      BY <1>1, <3>1 DEF Complete
    <3>4. PoolTools \in Seq(T)
      BY <3>2, <3>3, SeqMonotonic
    <3> QED BY <3>1, <3>4
  <2> QED BY <1>2, <2>1 DEF IInv, TypeOK, PoolTypeOK
<1>4. Located' /\ InOrder'
  BY <1>2 DEF IInv, Located, InOrder
<1>5. Ledger'
  BY <1>2 DEF IInv, Ledger, Owed
<1>6. Checked'
  BY <1>2 DEF IInv, Checked
<1>7. Served'
  BY <1>1, <1>2 DEF Served, Complete
<1> QED BY <1>3, <1>4, <1>5, <1>6, <1>7 DEF IInv

\* With the pool in use, every session is still owed to the first client.
LEMMA RunReturnsStep ==
  ASSUME IInv, RunReturns
  PROVE  IInv'
<1> USE DEF RunReturns, BeginClose
<1>1. TypeOK'
  BY PoolAssumption DEF IInv, TypeOK, PoolTypeOK, Causes
<1>2. Located'
  <2>1. Len(clients) \in Nat /\ (clients # << >> => Len(clients) > 0)
    BY DEF IInv, TypeOK, PoolTypeOK
  <2> QED BY <2>1 DEF IInv, Located
<1>3. InOrder' /\ Served'
  BY DEF IInv, InOrder, Served
<1>4. Ledger'
  BY DEF IInv, Ledger, Owed
<1>5. Checked'
  BY DEF IInv, Checked
<1> QED BY <1>1, <1>2, <1>3, <1>4, <1>5 DEF IInv

\* SIGTERM itself closes nothing.
LEMMA SigtermStep ==
  ASSUME IInv, Sigterm
  PROVE  IInv'
<1> USE DEF Sigterm, poolVars
<1>1. TypeOK'
  BY DEF IInv, TypeOK, PoolTypeOK
<1>2. Located' /\ InOrder'
  BY DEF IInv, Located, InOrder
<1>3. Ledger'
  BY DEF IInv, Ledger, Owed
<1>4. Checked'
  BY DEF IInv, Checked
<1>5. Served'
  BY DEF IInv, Served, Complete
<1> QED BY <1>1, <1>2, <1>3, <1>4, <1>5 DEF IInv

\* newTransport has nothing to refuse; without a session, all clients are owed.
LEMMA ConnectFailsStep ==
  ASSUME IInv, ConnectFails, UNCHANGED <<cfg, report>>
  PROVE  IInv'
<1> USE DEF ConnectFails, Abort, BeginClose
<1>1. ~TransportFails(specs[spec])
  <2>1. /\ Valid(cfg) /\ cfg \in Configs
        /\ specs = cfg.servers /\ spec \in 1 .. Len(cfg.servers)
    BY DEF IInv, Checked, TypeOK, Located
  <2> QED BY <2>1, TransportAccepted, ErrorsAreRight
<1>2. TypeOK'
  BY <1>1, PoolAssumption DEF IInv, TypeOK, PoolTypeOK, Causes
<1>3. Located'
  <2>1. Len(clients) \in Nat /\ (clients # << >> => Len(clients) > 0)
    BY DEF IInv, TypeOK, PoolTypeOK
  <2> QED BY <2>1 DEF IInv, Located
<1>4. InOrder' /\ Served'
  BY DEF IInv, InOrder, Served
<1>5. Ledger'
  BY DEF IInv, Ledger, Owed
<1>6. Checked'
  BY <1>1 DEF IInv, Checked
<1> QED BY <1>2, <1>3, <1>4, <1>5, <1>6 DEF IInv

\* While it connects, the server it is at is one of those there are.
LEMMA AtServer ==
  ASSUME IInv, pc \in {"connect", "list"}
  PROVE  /\ spec \in Servers /\ spec \in 1 .. Len(specs)
         /\ spec = Len(clients) + 1 /\ Len(clients) \in Nat /\ Len(specs) \in Nat
         /\ DOMAIN clients = 1 .. Len(clients)
<1>1. /\ cfg \in Configs /\ specs = cfg.servers
      /\ spec \in 1 .. Len(specs) /\ Len(clients) = spec - 1
      /\ clients \in Seq([server : Servers, tools : 0 .. MaxTools])
  BY DEF IInv, Located, TypeOK, PoolTypeOK
<1>2. Len(specs) \in 0 .. MaxServers
  BY <1>1, ErrorsAreRight
<1> QED BY <1>1, <1>2, PoolAssumption DEF Servers

\* The new session is owed by Connect, until it is in the pool.
LEMMA ConnectedStep ==
  ASSUME IInv, Connected, UNCHANGED <<cfg, report>>
  PROVE  IInv'
<1> USE DEF Connected
<1>1. TypeOK'
  <2>1. session' \in [Servers -> {"none", "open", "dead", "closed"}]
    BY DEF IInv, TypeOK, PoolTypeOK
  <2> QED BY <2>1 DEF IInv, TypeOK, PoolTypeOK
<1>2. Located' /\ InOrder' /\ Served'
  BY DEF IInv, Located, InOrder, Served
<1>3. Ledger'
  <2>1. session \in [Servers -> {"none", "open", "dead", "closed"}]
    BY DEF IInv, TypeOK, PoolTypeOK
  <2>2. Owed = 1 .. Len(clients) /\ Owed' = (1 .. Len(clients)) \cup {spec}
    BY AtServer DEF Owed
  <2> QED BY <2>1, <2>2, AtServer DEF IInv, Ledger
<1>4. Checked'
  BY DEF IInv, Checked
<1> QED BY <1>1, <1>2, <1>3, <1>4 DEF IInv

\* Connect pays what it owes itself: the session is in no client.
LEMMA ListFailsStep ==
  ASSUME IInv, ListFails, UNCHANGED <<cfg, report>>
  PROVE  IInv'
<1> USE DEF ListFails, CloseSession, Abort, BeginClose
<1>1. TypeOK'
  <2>1. session' \in [Servers -> {"none", "open", "dead", "closed"}]
    BY DEF IInv, TypeOK, PoolTypeOK
  <2>2. closes' \in [Servers -> Nat]
    <3>1. closes \in [Servers -> Nat] /\ closes' = [closes EXCEPT ![spec] = @ + 1]
      BY DEF IInv, TypeOK, PoolTypeOK
    <3> QED BY <3>1, AtServer
  <2>3. closing' \in 0 .. MaxServers + 1
    BY PoolAssumption
  <2>4. pc' \in {"closing", "returned"} /\ err' = "list"
    OBVIOUS
  <2> QED BY <2>1, <2>2, <2>3, <2>4 DEF IInv, TypeOK, PoolTypeOK, Causes
<1>2. Located'
  BY AtServer DEF Located
<1>3. InOrder' /\ Served'
  BY DEF IInv, InOrder, Served
<1>4. Ledger'
  <2>1. /\ session \in [Servers -> {"none", "open", "dead", "closed"}]
        /\ closes \in [Servers -> Nat]
    BY DEF IInv, TypeOK, PoolTypeOK
  <2>2. Owed = (1 .. Len(clients)) \cup {spec} /\ Owed' = 1 .. Len(clients)
    BY AtServer DEF Owed
  <2> QED BY <2>1, <2>2, AtServer DEF IInv, Ledger
<1>5. Checked'
  BY DEF IInv, Checked
<1> QED BY <1>1, <1>2, <1>3, <1>4, <1>5 DEF IInv

\* The session moves from Connect to the pool.
LEMMA ListedStep ==
  ASSUME IInv, Listed, UNCHANGED <<cfg, report>>
  PROVE  IInv'
<1>1. PICK n \in 0 .. MaxTools :
        /\ listed' = [listed EXCEPT ![spec] = n]
        /\ clients' = Append(clients, [server |-> spec, tools |-> n])
  BY DEF Listed
<1> USE DEF Listed, NextSpec
<1>2. clients \in Seq([server : Servers, tools : 0 .. MaxTools])
      /\ listed \in [Servers -> 0 .. MaxTools]
  BY DEF IInv, TypeOK, PoolTypeOK
<1>3. [server |-> spec, tools |-> n] \in [server : Servers, tools : 0 .. MaxTools]
  BY AtServer
<1>4. /\ clients' \in Seq([server : Servers, tools : 0 .. MaxTools])
      /\ Len(clients') = Len(clients) + 1
      /\ DOMAIN clients' = 1 .. Len(clients) + 1
      /\ \A i \in 1 .. Len(clients) : clients'[i] = clients[i]
      /\ clients'[Len(clients) + 1] = [server |-> spec, tools |-> n]
  BY <1>1, <1>2, <1>3
<1>5. TypeOK'
  <2>1. listed' \in [Servers -> 0 .. MaxTools]
    BY <1>1, <1>2
  <2>2. spec' \in 1 .. MaxServers + 1
    BY AtServer, PoolAssumption DEF Servers
  <2> QED BY <1>4, <2>1, <2>2 DEF IInv, TypeOK, PoolTypeOK
<1>6. Located'
  BY <1>4, AtServer DEF IInv, Located
<1>7. InOrder'
  <2> SUFFICES ASSUME NEW i \in 1 .. Len(clients) + 1
               PROVE  clients'[i] = [server |-> i, tools |-> listed'[i]]
    BY <1>4 DEF InOrder
  <2>1. CASE i = Len(clients) + 1
    BY <1>1, <1>2, <1>4, <2>1, AtServer
  <2>2. CASE i # Len(clients) + 1
    <3>1. i \in DOMAIN clients /\ i # spec
      BY <2>2, AtServer
    <3>2. listed'[i] = listed[i]
      BY <1>1, <1>2, <3>1
    <3> QED BY <1>4, <3>1, <3>2, AtServer DEF IInv, InOrder
  <2> QED BY <2>1, <2>2
<1>8. Served'
  BY AtServer DEF Served
<1>9. Ledger'
  <2>1. Owed = 1 .. Len(clients) + 1 /\ Owed' = Owed
    BY <1>4, AtServer DEF Owed
  <2> QED BY <2>1 DEF IInv, Ledger
<1>10. Checked'
  BY DEF IInv, Checked
<1> QED BY <1>5, <1>6, <1>7, <1>8, <1>9, <1>10 DEF IInv

\* A session that died is still owed a call of Close.
LEMMA SessionDiesStep ==
  ASSUME IInv, NEW s \in Servers, SessionDies(s), UNCHANGED <<cfg, report>>
  PROVE  IInv'
<1> USE DEF SessionDies
<1>1. session \in [Servers -> {"none", "open", "dead", "closed"}]
  BY DEF IInv, TypeOK, PoolTypeOK
<1>2. TypeOK'
  <2>1. session' \in [Servers -> {"none", "open", "dead", "closed"}]
    BY <1>1
  <2> QED BY <2>1 DEF IInv, TypeOK, PoolTypeOK
<1>3. Located' /\ InOrder'
  BY DEF IInv, Located, InOrder
<1>4. Served'
  BY DEF IInv, Served, Complete
<1>5. Ledger'
  <2>1. Owed' = Owed
    BY DEF Owed
  <2> QED BY <1>1, <2>1 DEF IInv, Ledger
<1>6. Checked'
  BY <1>1 DEF IInv, Checked
<1> QED BY <1>2, <1>3, <1>4, <1>5, <1>6 DEF IInv

\* Close pays for one client after the other, until none is left.
LEMMA CloseClientStep ==
  ASSUME IInv, CloseClient, UNCHANGED <<cfg, report>>
  PROVE  IInv'
<1> USE DEF CloseClient, CloseSession, EndsAtLast
<1>1. /\ session \in [Servers -> {"none", "open", "dead", "closed"}]
      /\ closes \in [Servers -> Nat]
      /\ clients \in Seq([server : Servers, tools : 0 .. MaxTools])
  BY DEF IInv, TypeOK, PoolTypeOK
<1>2. closing \in 1 .. Len(clients) /\ Len(clients) \in Nat
  BY <1>1 DEF IInv, Located
<1>3. clients[closing].server = closing /\ closing \in Servers
  <2>1. clients[closing] = [server |-> closing, tools |-> listed[closing]]
    BY <1>1, <1>2 DEF IInv, InOrder
  <2>2. clients[closing] \in [server : Servers, tools : 0 .. MaxTools]
    BY <1>1, <1>2, ElementOfSeq
  <2> QED BY <2>1, <2>2
<1>4. \/ closing = Len(clients) /\ pc' = "returned" /\ clients' = << >> /\ UNCHANGED closing
      \/ closing # Len(clients) /\ closing' = closing + 1 /\ UNCHANGED <<pc, clients>>
  OBVIOUS
<1>5. TypeOK'
  <2>1. session' \in [Servers -> {"none", "open", "dead", "closed"}]
        /\ closes' \in [Servers -> Nat]
    BY <1>1, <1>3
  <2>2. closing' \in 0 .. MaxServers + 1
    <3>1. closing \in 1 .. MaxServers
      BY <1>3 DEF Servers
    <3> QED BY <1>4, <3>1, PoolAssumption
  <2>3. clients' \in Seq([server : Servers, tools : 0 .. MaxTools])
    <3>1. clients' = << >> \/ clients' = clients
      BY <1>4
    <3> QED BY <1>1, <3>1, EmptySeq
  <2>4. pc' \in {"closing", "returned"}
    BY <1>4
  <2> QED BY <2>1, <2>2, <2>3, <2>4 DEF IInv, TypeOK, PoolTypeOK
<1>6. Located'
  BY <1>2, <1>4 DEF Located
<1>7. InOrder'
  BY <1>4 DEF IInv, InOrder
<1>8. Served'
  BY <1>4 DEF Served
<1>9. Ledger'
  <2>1. Owed = closing .. Len(clients) /\ Owed' = Owed \ {closing}
    <3>1. Owed = closing .. Len(clients)
      BY DEF Owed
    <3>2. CASE closing = Len(clients)
      BY <1>2, <1>4, <3>1, <3>2 DEF Owed
    <3>3. CASE closing # Len(clients)
      BY <1>2, <1>4, <3>1, <3>3 DEF Owed
    <3> QED BY <3>1, <3>2, <3>3
  <2>2. closing \in Owed
    BY <1>2, <2>1
  <2>3. /\ session' = [session EXCEPT ![closing] = "closed"]
        /\ closes' = [closes EXCEPT ![closing] = @ + 1]
    BY <1>3
  <2>4. closes[closing] = 0
    BY <1>3, <2>2 DEF IInv, Ledger
  <2>5. ASSUME NEW s \in Servers
        PROVE  /\ session'[s] \in {"open", "dead"} <=> s \in Owed'
               /\ closes'[s] = IF session'[s] = "closed" THEN 1 ELSE 0
    BY <1>1, <1>3, <2>1, <2>2, <2>3, <2>4 DEF IInv, Ledger
  <2>6. pc' \in {"closing", "returned"}
    BY <1>4
  <2> QED BY <2>5, <2>6 DEF Ledger
<1>10. Checked'
  <2>1. Valid(cfg)
    BY DEF IInv, Checked
  <2> QED BY <1>4, <2>1 DEF IInv, Checked
<1> QED BY <1>5, <1>6, <1>7, <1>8, <1>9, <1>10 DEF IInv

\* So every step keeps the invariant.
LEMMA NextIInv ==
  ASSUME IInv, [Next]_vars
  PROVE  IInv'
<1>1. CASE LoadFails
  BY <1>1, LoadFailsStep
<1>2. CASE Load
  BY <1>2, LoadStep
<1>3. CASE PrepareFails
  BY <1>3, PrepareFailsStep
<1>4. CASE Prepare
  BY <1>4, PrepareStep
<1>5. CASE BuildRunner
  BY <1>5, BuildRunnerStep
<1>6. CASE RunReturns
  BY <1>6, RunReturnsStep
<1>7. CASE Pool
  BY <1>7, ConnectFailsStep, ConnectedStep, ListFailsStep, ListedStep,
     CloseClientStep, SessionDiesStep DEF Pool
<1>8. CASE Sigterm
  BY <1>8, SigtermStep
<1>9. CASE UNCHANGED vars
  <2>1. TypeOK'
    BY <1>9 DEF IInv, TypeOK, PoolTypeOK, vars, poolVars
  <2>2. Located' /\ InOrder' /\ Checked'
    BY <1>9 DEF IInv, Located, InOrder, Checked, vars, poolVars
  <2>3. Ledger' /\ Served'
    BY <1>9 DEF IInv, Ledger, Owed, Served, Complete, vars, poolVars
  <2> QED BY <2>1, <2>2, <2>3 DEF IInv
<1> QED BY <1>1, <1>2, <1>3, <1>4, <1>5, <1>6, <1>7, <1>8, <1>9 DEF Next, Over

\* And it holds in every state.
LEMMA Invariant == Spec => []IInv
BY InitIInv, NextIInv, PTL DEF Spec

-----------------------------------------------------------------------------
(* The theorems.                                                           *)

\* The variables, the report and the lists of clients and adapters among
\* them, have their types, whatever is in the file.
THEOREM TypeCorrect == Spec => []TypeOK
<1>1. IInv => TypeOK
  BY DEF IInv
<1> QED BY <1>1, Invariant, PTL

\* No server is connected to and no tool is in use under a configuration that
\* is not well-formed, and neither newTransport nor RunnerDeps.validate
\* refuses what Valid accepted.
THEOREM GoodConfigConnects == Spec => []OnlyGoodConfigConnects
<1>1. IInv => OnlyGoodConfigConnects
  <2> SUFFICES ASSUME IInv PROVE OnlyGoodConfigConnects
    OBVIOUS
  <2>1. Valid(cfg) => WellFormed(cfg) /\ report = NoErrors
    <3>1. cfg \in Configs /\ report \in {NoErrors, Errors(cfg)}
      BY DEF IInv, TypeOK, Checked
    <3> QED BY <3>1, ValidIsWellFormed DEF Valid, NoErrors
  <2> QED BY <2>1 DEF IInv, Checked, OnlyGoodConfigConnects
<1> QED BY <1>1, Invariant, PTL

\* An operator learns of every faulty server and what is wrong with it, but for
\* what a missing or taken name hides, and of nothing else.
THEOREM EveryFaultyServerIsNamed == Spec => []FaultsAreReported
<1>1. IInv => FaultsAreReported
  <2> SUFFICES ASSUME IInv PROVE FaultsAreReported
    OBVIOUS
  <2>1. /\ cfg \in Configs /\ report \in {NoErrors, Errors(cfg)}
        /\ err = "config" => ~Valid(cfg)
    BY DEF IInv, TypeOK, Checked
  <2>2. Errors(cfg).servers = ErrorsUpTo(cfg.servers, Len(cfg.servers))
    BY <2>1, ErrorsAreRight
  <2>3. DOMAIN cfg.servers = 1 .. Len(cfg.servers)
    BY <2>1, ErrorsAreRight
  <2> QED BY <2>1, <2>2, <2>3, ValidIsWellFormed
          DEF FaultsAreReported, ErrorsUpTo
<1> QED BY <1>1, Invariant, PTL

\* Whatever ends run(), at whichever server and call, every session that was
\* opened has been closed exactly once when it returns.
THEOREM EverySessionIsClosed == Spec => []NoSessionLeft
<1>1. IInv => NoSessionLeft
  BY DEF IInv, TypeOK, PoolTypeOK, Ledger, Owed, NoSessionLeft
<1> QED BY <1>1, Invariant, PTL

\* When the process serves, no session of a configured server was closed, and
\* there is exactly one adapter for every listed tool, in order.
THEOREM AllServersServe == Spec => []ServesWithEveryServer
<1>1. IInv => ServesWithEveryServer
  <2> SUFFICES ASSUME IInv, pc = "serving" PROVE ServesWithEveryServer
    BY DEF ServesWithEveryServer
  <2>1. /\ cfg \in Configs /\ specs = cfg.servers /\ Len(clients) = Len(specs)
        /\ Complete(adapters, Len(specs))
        /\ \A s \in Servers : s \in 1 .. Len(specs) => session[s] \in {"open", "dead"}
    BY DEF IInv, TypeOK, Located, Served, Ledger, Owed
  <2>2. DOMAIN specs = 1 .. Len(specs) /\ Len(specs) \in 0 .. MaxServers
    BY <2>1, ErrorsAreRight
  <2>3. \A s \in DOMAIN specs : session[s] \in {"open", "dead"}
    BY <2>1, <2>2, PoolAssumption DEF Servers
  <2> QED BY <2>1, <2>2, <2>3 DEF Complete, ServesWithEveryServer
<1> QED BY <1>1, Invariant, PTL
=============================================================================
