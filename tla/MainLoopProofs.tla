--------------------------- MODULE MainLoopProofs ---------------------------
(***************************************************************************)
(* Proofs about MainLoop, for all flows, packets and rules and for every   *)
(* size of the buffers, the ring of seconds and the lists.                 *)
(***************************************************************************)
EXTENDS MainLoop, Lemmas, FiniteSetTheorems

---------------------------------------------------------------------------
(* The DNS cache                                                           *)

AnswerRecords == [name : Nat, data : Nat, ttl : Nat]

\* The cache after k answers, if c gives it after k - 1.
IngestStep(cache, answers, c, k) ==
    IF k = 0 THEN cache
    ELSE IF Names(answers[k])
         THEN Insert(c[k - 1], answers[k].data, DnsEntry(answers[k]))
         ELSE c[k - 1]

\* The recursion of Ingest has a solution: suppose it had none for the first m
\* answers, and none for fewer than m had the same fate.
LEMMA IngestDefined ==
    ASSUME NEW cache, NEW answers, Len(answers) \in Nat
    PROVE  \E c : /\ c = [k \in 0 .. Len(answers) |-> IngestStep(cache, answers, c, k)]
                  /\ Ingest(cache, answers) = c[Len(answers)]
<1> DEFINE Solves(c, m) == c = [k \in 0 .. m |-> IngestStep(cache, answers, c, k)]
           n == Len(answers)
           Bad == {m \in 0 .. n : ~ \E c : Solves(c, m)}
<1>1. Bad = {}
  <2> SUFFICES ASSUME Bad # {} PROVE FALSE
    OBVIOUS
  <2>1. PICK m \in Bad : \A k \in Bad : m <= k
    <3>1. Bad \subseteq Nat
      OBVIOUS
    <3> HIDE DEF Bad
    <3> QED BY <3>1, LeastOf
  <2>2. CASE m = 0
    <3> DEFINE c == [k \in 0 .. 0 |-> cache]
    <3>1. \A k \in 0 .. 0 : IngestStep(cache, answers, c, k) = cache
      BY DEF IngestStep
    <3>2. Solves(c, 0)
      BY <3>1
    <3> QED BY <2>1, <2>2, <3>2
  <2>3. CASE m # 0
    <3>1. m \in Nat \ {0} /\ m - 1 \in 0 .. n /\ m - 1 \notin Bad
      BY <2>1, <2>3
    <3>2. PICK c : Solves(c, m - 1)
      BY <3>1
    <3> DEFINE d == [k \in 0 .. m |-> IF k < m THEN c[k] ELSE IngestStep(cache, answers, c, m)]
    <3>3. ASSUME NEW k \in 0 .. m PROVE d[k] = IngestStep(cache, answers, d, k)
      <4>1. k # 0 => d[k - 1] = c[k - 1]
        BY <3>1
      <4>2. IngestStep(cache, answers, d, k) = IngestStep(cache, answers, c, k)
        BY <4>1 DEF IngestStep
      <4>3. CASE k = m
        BY <3>1, <4>2, <4>3
      <4>4. CASE k # m
        <5>1. k \in 0 .. m - 1 /\ k < m
          BY <3>1, <4>4
        <5>2. c[k] = IngestStep(cache, answers, c, k)
          BY <3>2, <5>1
        <5> QED BY <4>2, <5>1, <5>2
      <4> QED BY <4>3, <4>4
    <3>4. Solves(d, m)
      BY <3>3
    <3> QED BY <2>1, <3>4
  <2> QED BY <2>2, <2>3
<1>2. \E c : Solves(c, n)
  BY <1>1
<1> DEFINE c == CHOOSE c : Solves(c, n)
<1>3. Solves(c, n)
  BY <1>2
<1>4. Ingest(cache, answers) = c[n]
  BY DEF Ingest, IngestStep
<1> QED
  BY <1>3, <1>4

\* The last answer of a message for an address is what the cache keeps.
LEMMA IngestKeepsLast ==
    ASSUME NEW cache, NEW answers \in Seq(AnswerRecords), NEW ip
    PROVE  LET new == Ingest(cache, answers)
               places == Naming(answers, ip)
           IN /\ places = {} => /\ ip \in DOMAIN new <=> ip \in DOMAIN cache
                                /\ ip \in DOMAIN cache => new[ip] = cache[ip]
              /\ places # {} => /\ ip \in DOMAIN new
                                /\ new[ip] = DnsEntry(answers[Max(places)])
<1> DEFINE n == Len(answers)
           N(k) == {j \in Naming(answers, ip) : j <= k}
           Old(k, d) == /\ ip \in DOMAIN d <=> ip \in DOMAIN cache
                        /\ ip \in DOMAIN cache => d[ip] = cache[ip]
           New(d, j) == ip \in DOMAIN d /\ d[ip] = DnsEntry(answers[j])
           Newest(k, j) == j \in N(k) /\ \A i \in N(k) : i <= j
<1>1. n \in Nat /\ Naming(answers, ip) \subseteq 1 .. n
  BY DEF Naming
<1>2. PICK c : /\ c = [k \in 0 .. n |-> IngestStep(cache, answers, c, k)]
               /\ Ingest(cache, answers) = c[n]
  BY <1>1, IngestDefined
<1> DEFINE OK(k) == \/ N(k) = {} /\ Old(k, c[k])
                    \/ \E j \in 1 .. n : Newest(k, j) /\ New(c[k], j)
           Bad == {k \in 0 .. n : ~ OK(k)}
<1>3. OK(0)
  <2>1. N(0) = {}
    BY <1>1
  <2>2. c[0] = cache
    BY <1>1, <1>2 DEF IngestStep
  <2> QED BY <2>1, <2>2
<1>4. ASSUME NEW k \in 1 .. n, OK(k - 1) PROVE OK(k)
  <2> DEFINE r == answers[k]
             d == c[k - 1]
  <2>1. k \in 0 .. n /\ k # 0 /\ k \in Nat /\ k - 1 \in 0 .. n
    BY <1>1
  <2>2. c[k] = IF Names(r) THEN Insert(d, r.data, DnsEntry(r)) ELSE d
    BY <1>2, <2>1 DEF IngestStep
  <2>3. CASE Names(r) /\ r.data = ip
    <3>1. k \in N(k) /\ \A i \in N(k) : i <= k
      BY <2>1, <2>3 DEF Naming
    <3>2. New(c[k], k)
      BY <2>2, <2>3 DEF Insert
    <3> QED BY <3>1, <3>2
  <2>4. CASE ~ (Names(r) /\ r.data = ip)
    <3>1. N(k) = N(k - 1)
      <4>1. k \notin Naming(answers, ip)
        BY <2>4 DEF Naming
      <4> QED BY <1>1, <2>1, <4>1
    <3>2. /\ ip \in DOMAIN c[k] <=> ip \in DOMAIN d
          /\ ip \in DOMAIN d => c[k][ip] = d[ip]
      BY <2>2, <2>4 DEF Insert
    <3>3. CASE N(k - 1) = {} /\ Old(k - 1, d)
      BY <3>1, <3>2, <3>3
    <3>4. CASE \E j \in 1 .. n : Newest(k - 1, j) /\ New(d, j)
      BY <3>1, <3>2, <3>4
    <3> QED BY <1>4, <3>3, <3>4
  <2> QED BY <2>3, <2>4
<1>5. OK(n)
  <2> SUFFICES ASSUME Bad # {} PROVE FALSE
    BY <1>1
  <2>1. Bad \subseteq Nat
    OBVIOUS
  <2>2. PICK k \in Bad : \A i \in Bad : k <= i
    <3> HIDE DEF Bad
    <3> QED BY <2>1, LeastOf
  <2>3. k \in 0 .. n /\ ~ OK(k)
    BY <2>2
  <2> HIDE DEF OK
  <2>4. k # 0
    BY <1>3, <2>3
  <2>5. k \in 1 .. n /\ k - 1 \in 0 .. n /\ k \in Nat /\ ~ (k <= k - 1)
    BY <1>1, <2>3, <2>4
  <2>6. k - 1 \notin Bad
    BY <2>2, <2>5
  <2>7. OK(k - 1)
    BY <2>5, <2>6
  <2> QED BY <1>4, <2>3, <2>5, <2>7
<1>6. N(n) = Naming(answers, ip)
  BY <1>1
<1>7. CASE N(n) = {} /\ Old(n, c[n])
  BY <1>2, <1>6, <1>7
<1>8. CASE \E j \in 1 .. n : Newest(n, j) /\ New(c[n], j)
  <2>1. PICK j \in 1 .. n : Newest(n, j) /\ New(c[n], j)
    BY <1>8
  <2> DEFINE places == Naming(answers, ip)
  <2>2. places \subseteq 0 .. n /\ places # {} /\ j \in places /\ \A i \in places : i <= j
    BY <1>1, <1>6, <2>1
  <2>3. Max(places) \in places /\ \A i \in places : i <= Max(places)
    BY <1>1, <2>2, MinMax
  <2>4. Max(places) = j
    <3> HIDE DEF places
    <3>1. Max(places) \in 0 .. n /\ j \in 0 .. n /\ Max(places) <= j /\ j <= Max(places)
      BY <2>2, <2>3
    <3> QED BY <3>1
  <2> QED BY <1>2, <2>1, <2>2, <2>4
<1> QED
  BY <1>5, <1>7, <1>8

---------------------------------------------------------------------------
(* Counts and their order                                                  *)

\* Entries of different labels are put in an order.
LEMMA AheadIsOrder ==
    ASSUME NEW E, E \subseteq [label : Nat, count : Nat],
           \A a, b \in E : a.label = b.label => a = b
    PROVE  /\ \A a \in E : ~ Ahead(a, a)
           /\ \A a, b \in E : a = b \/ Ahead(a, b) \/ Ahead(b, a)
           /\ \A a, b, c \in E : Ahead(a, b) /\ Ahead(b, c) => Ahead(a, c)
<1>1. \A a \in E : a.label \in Nat /\ a.count \in Nat
  OBVIOUS
<1> QED
  BY <1>1 DEF Ahead

\* The number of entries ahead gives every entry a place of its own.
LEMMA PlaceOfEntry ==
    ASSUME NEW E, IsFiniteSet(E), E \subseteq [label : Nat, count : Nat],
           \A a, b \in E : a.label = b.label => a = b,
           NEW Rank, \A e \in E : Rank[e] = Cardinality({d \in E : Ahead(d, e)})
    PROVE  /\ Cardinality(E) \in Nat
           /\ \A e \in E : Rank[e] \in 0 .. Cardinality(E) - 1
           /\ \A i \in 1 .. Cardinality(E) : \E e \in E : Rank[e] = i - 1
           /\ \A a, b \in E : Rank[a] = Rank[b] => a = b
           /\ \A a, b \in E : Rank[a] < Rank[b] => Ahead(a, b)
<1> DEFINE n == Cardinality(E)
           AheadOf(e) == {d \in E : Ahead(d, e)}
<1>1. n \in Nat
  BY FS_CardinalityType
<1>0. /\ \A a \in E : ~ Ahead(a, a)
      /\ \A a, b \in E : a = b \/ Ahead(a, b) \/ Ahead(b, a)
      /\ \A a, b, c \in E : Ahead(a, b) /\ Ahead(b, c) => Ahead(a, c)
  BY AheadIsOrder
<1>2. ASSUME NEW e \in E
      PROVE  IsFiniteSet(AheadOf(e)) /\ Rank[e] = Cardinality(AheadOf(e)) /\ Rank[e] \in 0 .. n - 1
  <2>1. IsFiniteSet(E \ {e}) /\ Cardinality(E \ {e}) = n - 1
    BY FS_RemoveElement
  <2>2. AheadOf(e) \in SUBSET (E \ {e})
    BY <1>0
  <2>3. IsFiniteSet(AheadOf(e)) /\ Cardinality(AheadOf(e)) <= n - 1
    BY <2>1, <2>2, FS_Subset
  <2>4. Cardinality(AheadOf(e)) \in Nat
    BY <2>3, FS_CardinalityType
  <2> QED BY <1>1, <2>3, <2>4
<1>3. ASSUME NEW a \in E, NEW b \in E, Ahead(a, b) PROVE Rank[a] < Rank[b]
  <2>1. AheadOf(a) \cup {a} \in SUBSET AheadOf(b)
    BY <1>0, <1>3
  <2>2. a \notin AheadOf(a)
    BY <1>0
  <2>3. Cardinality(AheadOf(a) \cup {a}) = Cardinality(AheadOf(a)) + 1
    BY <1>2, <2>2, FS_AddElement
  <2>4. Cardinality(AheadOf(a) \cup {a}) <= Cardinality(AheadOf(b))
    BY <1>2, <2>1, FS_Subset
  <2>5. Rank[a] = Cardinality(AheadOf(a)) /\ Rank[a] \in Nat
    BY <1>1, <1>2
  <2>6. Rank[b] = Cardinality(AheadOf(b)) /\ Rank[b] \in Nat
    BY <1>1, <1>2
  <2> HIDE DEF AheadOf
  <2> QED BY <2>3, <2>4, <2>5, <2>6
<1>4. \A e \in E : Rank[e] \in Nat
  <2>1. \A e \in E : Rank[e] \in 0 .. n - 1
    BY <1>2
  <2>2. 0 .. n - 1 \subseteq Nat
    BY <1>1
  <2> QED BY <2>1, <2>2, Zenon
<1>5. ASSUME NEW a \in E, NEW b \in E PROVE Rank[a] < Rank[b] => Ahead(a, b)
  <2>1. Rank[a] \in Nat /\ Rank[b] \in Nat
    BY <1>4
  <2> QED BY <1>0, <1>3, <2>1
<1>6. ASSUME NEW a \in E, NEW b \in E PROVE Rank[a] = Rank[b] => a = b
  <2>1. Rank[a] \in Nat /\ Rank[b] \in Nat
    BY <1>4
  <2> QED BY <1>0, <1>3, <2>1
<1> DEFINE f == [e \in E |-> Rank[e]]
<1>7. f \in Surjection(E, 0 .. n - 1)
  <2>1. f \in Injection(E, 0 .. n - 1)
    BY <1>2, <1>6 DEF Injection, IsInjective
  <2>2. IsFiniteSet(0 .. n - 1) /\ Cardinality(0 .. n - 1) = n
    BY <1>1, FS_Interval
  <2> QED BY <2>1, <2>2, FS_Injection
<1>8. ASSUME NEW i \in 1 .. n PROVE \E e \in E : Rank[e] = i - 1
  <2>1. i - 1 \in 0 .. n - 1
    BY <1>1
  <2>2. PICK e \in E : f[e] = i - 1
    BY <1>7, <2>1, Zenon DEF Surjection
  <2> QED BY <2>2
<1> QED
  BY <1>1, <1>2, <1>5, <1>6, <1>8

\* What a map of counts may be.
IsCounter(map) ==
    IsFiniteSet(DOMAIN map) /\ \A l \in DOMAIN map : l \in Nat /\ map[l] \in Nat

\* An entry for each label of a map.
LEMMA LabelsAreEntries ==
    ASSUME NEW map, IsCounter(map)
    PROVE  /\ IsFiniteSet(Labeled(map)) /\ Labeled(map) \subseteq [label : Nat, count : Nat]
           /\ Cardinality(Labeled(map)) = Cardinality(DOMAIN map)
           /\ \A a, b \in Labeled(map) : a.label = b.label => a = b
<1> DEFINE f == [l \in DOMAIN map |-> [label |-> l, count |-> map[l]]]
<1>1. f \in Bijection(DOMAIN map, Labeled(map))
  <2>1. f \in [DOMAIN map -> Labeled(map)]
    BY DEF Labeled
  <2>2. \A a, b \in DOMAIN map : f[a] = f[b] => a = b
    <3>1. \A l \in DOMAIN map : f[l].label = l
      OBVIOUS
    <3> HIDE DEF f
    <3> QED BY <3>1
  <2>3. \A e \in Labeled(map) : \E l \in DOMAIN map : f[l] = e
    BY DEF Labeled
  <2> QED BY <2>1, <2>2, <2>3 DEF Bijection, Injection, Surjection, IsInjective
<1>2. ExistsBijection(DOMAIN map, Labeled(map))
  BY <1>1 DEF ExistsBijection
<1>3. IsFiniteSet(Labeled(map)) /\ Cardinality(Labeled(map)) = Cardinality(DOMAIN map)
  BY <1>2, FS_Bijection DEF IsCounter
<1>4. Labeled(map) \subseteq [label : Nat, count : Nat]
  BY DEF Labeled, IsCounter
<1>5. \A a, b \in Labeled(map) : a.label = b.label => a = b
  BY DEF Labeled
<1> QED
  BY <1>3, <1>4, <1>5

\* A list of top_n has the entries that no other is ahead of, in their order.
LEMMA TopIsSorted ==
    ASSUME NEW map, IsCounter(map)
    PROVE  LET list == Top(map) IN
           /\ DOMAIN list = 1 .. Len(list)
           /\ Len(list) = Atmost(Cardinality(DOMAIN map), TopN) /\ Len(list) \in Nat
           /\ \A i \in DOMAIN list :
                 /\ list[i] \in Labeled(map)
                 /\ i > 1 => Ahead(list[i - 1], list[i])
                 /\ \A e \in Labeled(map) \ {list[j] : j \in DOMAIN list} : Ahead(list[i], e)
<1> DEFINE E == Labeled(map)
           R == [e \in E |-> Cardinality({d \in E : Ahead(d, e)})]
           n == Cardinality(E)
           m == Atmost(n, TopN)
           list == Top(map)
<1>1. /\ IsFiniteSet(E) /\ E \subseteq [label : Nat, count : Nat] /\ n = Cardinality(DOMAIN map)
      /\ \A a, b \in E : a.label = b.label => a = b
  BY LabelsAreEntries
<1>2. list = [i \in 1 .. m |-> CHOOSE e \in E : R[e] = i - 1]
  <2> DEFINE r(e) == Cardinality({d \in E : Ahead(d, e)})
             At(i) == CHOOSE e \in E : r(e) = i - 1
             Nth(i) == CHOOSE e \in E : R[e] = i - 1
  <2>1. list = [i \in 1 .. m |-> At(i)]
    BY DEF Top
  <2>2. \A e \in E : R[e] = r(e)
    OBVIOUS
  <2> HIDE DEF E, R, r, list, m
  <2>3. \A i : At(i) = Nth(i)
    BY <2>2
  <2> HIDE DEF At, Nth
  <2>4. list = [i \in 1 .. m |-> Nth(i)]
    BY <2>1, <2>3
  <2> QED BY <2>4 DEF Nth
<1>3. /\ n \in Nat
      /\ \A e \in E : R[e] \in 0 .. n - 1
      /\ \A i \in 1 .. n : \E e \in E : R[e] = i - 1
      /\ \A a, b \in E : R[a] = R[b] => a = b
      /\ \A a, b \in E : R[a] < R[b] => Ahead(a, b)
  <2> HIDE DEF E
  <2> QED BY <1>1, PlaceOfEntry
<1> HIDE DEF E, R, n
<1>4. m \in Nat /\ m <= n /\ TopN \in Nat
  BY <1>3, LimitsAssumption DEF Atmost
<1>5. DOMAIN list = 1 .. m /\ Len(list) = m
  BY <1>2, <1>4
<1>6. ASSUME NEW i \in 1 .. m PROVE list[i] \in E /\ R[list[i]] = i - 1
  <2>1. \E e \in E : R[e] = i - 1
    BY <1>3, <1>4
  <2> QED BY <1>2, <2>1
<1>7. ASSUME NEW i \in 1 .. m, i > 1 PROVE Ahead(list[i - 1], list[i])
  <2>1. i - 1 \in 1 .. m /\ i \in Nat
    BY <1>4, <1>7
  <2>2. list[i - 1] \in E /\ R[list[i - 1]] = (i - 1) - 1 /\ list[i] \in E /\ R[list[i]] = i - 1
    BY <1>6, <2>1
  <2> QED BY <1>3, <2>1, <2>2
<1>8. ASSUME NEW i \in 1 .. m, NEW e \in E, \A j \in 1 .. m : list[j] # e
      PROVE  Ahead(list[i], e)
  <2>1. R[e] \in Nat /\ i \in Nat
    BY <1>3, <1>4
  <2>2. ~ (R[e] < m)
    <3> SUFFICES ASSUME R[e] < m PROVE FALSE
      OBVIOUS
    <3>1. R[e] + 1 \in 1 .. m /\ (R[e] + 1) - 1 = R[e]
      BY <1>4, <2>1
    <3>2. list[R[e] + 1] \in E /\ R[list[R[e] + 1]] = R[e]
      BY <1>6, <3>1
    <3> QED BY <1>3, <1>8, <3>1, <3>2
  <2>3. R[list[i]] = i - 1 /\ list[i] \in E /\ i <= m
    BY <1>6, <1>4
  <2>4. R[list[i]] < R[e]
    BY <1>4, <2>1, <2>2, <2>3
  <2> QED BY <1>3, <2>3, <2>4
<1> QED
  BY <1>1, <1>4, <1>5, <1>6, <1>7, <1>8 DEF E, n

---------------------------------------------------------------------------
(* What names and labels are                                               *)

\* Labels are numbers, and every flow has one of a host and one of a process.
LEMMA LabelsOfFlows ==
    /\ Labels \subseteq Nat /\ Hosts \subseteq Nat /\ Ips \subseteq Nat
    /\ \A f \in Flows : /\ f.ip \in Ips /\ ProcessLabel(f) \in Labels
                        /\ \A host \in Hosts \cup {NoName} : HostLabel(f, host) \in Labels
<1>1. Answers \subseteq AnswerRecords
  <2>1. \A p \in Packets : p.answers \in Seq(AnswerRecords)
    BY FlowsAssumption DEF AnswerRecords
  <2>2. \A p \in Packets : ToSet(p.answers) \subseteq AnswerRecords
    BY <2>1 DEF ToSet
  <2> QED BY <2>2 DEF Answers
<1>2. Hosts \subseteq Nat /\ Ips \subseteq Nat
  BY <1>1, FlowsAssumption DEF Hosts, Ips, AnswerRecords
<1>3. \A f \in Flows : f.ip \in Ips
  BY FlowsAssumption DEF Ips
<1>4. \A f \in Flows : ProcessLabel(f) \in Labels /\ ProcessLabel(f) \in Nat
  BY FlowsAssumption DEF Labels, ProcessLabel
<1>5. Labels \subseteq Nat
  BY <1>2, <1>4 DEF Labels
<1>6. \A f \in Flows, host \in Hosts \cup {NoName} : HostLabel(f, host) \in Labels
  BY <1>3 DEF Labels, HostLabel
<1> QED
  BY <1>2, <1>3, <1>4, <1>5, <1>6

\* An answer that names an address makes an entry that is not over.
LEMMA RenewedIs ==
    ASSUME NEW p \in Packets, NEW ip
    PROVE  LET places == Naming(AnswersOf(p), ip)
               entry == DnsEntry(AnswersOf(p)[Max(places)])
           IN /\ AnswersOf(p) \in Seq(AnswerRecords)
              /\ places # {} => /\ ip \in Ips
                                /\ entry \in Entries /\ entry.hostname # NoName
                                /\ entry.left > 0
              /\ ip \in Ips => Renewed[p][ip] = IF places = {} THEN Nothing ELSE entry
<1> DEFINE answers == AnswersOf(p)
           places == Naming(answers, ip)
           k == Max(places)
<1>1. answers \in Seq(AnswerRecords) /\ Len(answers) \in Nat
  BY FlowsAssumption DEF AnswersOf, AnswerRecords
<1>2. ASSUME places # {}
      PROVE  /\ ip \in Ips
             /\ DnsEntry(answers[k]) \in Entries /\ DnsEntry(answers[k]).hostname # NoName
             /\ DnsEntry(answers[k]).left > 0 /\ answers = p.answers
  <2>1. k \in places
    <3>1. places \subseteq 0 .. Len(answers)
      BY <1>1 DEF Naming
    <3> QED BY <1>1, <1>2, <3>1, MinMax
  <2>2. k \in DOMAIN answers /\ Names(answers[k]) /\ answers[k].data = ip
    BY <2>1 DEF Naming
  <2>3. answers = p.answers
    BY <2>2 DEF AnswersOf
  <2> DEFINE a == answers[k]
  <2>4. a \in Answers /\ a \in AnswerRecords
    BY <1>1, <2>2, <2>3 DEF Answers, ToSet
  <2> HIDE DEF a
  <2>5. ip \in Ips /\ a.name \in Hosts /\ a.name # NoName
    BY <2>2, <2>4 DEF Ips, Hosts, Names, a
  <2>6. DnsEntry(a).left \in Nat /\ DnsEntry(a).left > 0
    <3> DEFINE t == IF a.ttl = 0 THEN 1 ELSE a.ttl
    <3>1. t \in Nat /\ t > 0 /\ Grain \in Nat /\ Grain > 0
      BY <2>4, LimitsAssumption DEF AnswerRecords
    <3>2. DnsEntry(a).left = Grain * t
      BY DEF DnsEntry
    <3> HIDE DEF t
    <3> QED BY <3>1, <3>2
  <2>7. DnsEntry(a).hostname = a.name /\ DnsEntry(a) \in Entries
    BY <2>5, <2>6 DEF DnsEntry, Entries
  <2> QED BY <2>3, <2>5, <2>6, <2>7 DEF a
<1>3. ip \in Ips => Renewed[p][ip] = IF places = {} THEN Nothing ELSE DnsEntry(answers[k])
  BY <1>2 DEF Renewed
<1> QED
  BY <1>1, <1>2, <1>3

\* What a drained packet leaves in the cache.
LEMMA IngestRenews ==
    ASSUME NEW p \in Packets, NEW cache, DOMAIN cache \subseteq Ips
    PROVE  LET new == Ingest(cache, AnswersOf(p)) IN
           /\ DOMAIN new \subseteq Ips
           /\ \A ip \in Ips :
                 /\ Renewed[p][ip] = Nothing =>
                       /\ ip \in DOMAIN new <=> ip \in DOMAIN cache
                       /\ ip \in DOMAIN cache => new[ip] = cache[ip]
                 /\ Renewed[p][ip] # Nothing =>
                       /\ ip \in DOMAIN new /\ new[ip] = Renewed[p][ip]
                       /\ new[ip] \in Entries /\ new[ip].hostname # NoName /\ new[ip].left > 0
<1> DEFINE answers == AnswersOf(p)
           new == Ingest(cache, answers)
<1>1. answers \in Seq(AnswerRecords)
  BY RenewedIs
<1>2. ASSUME NEW ip \in DOMAIN new PROVE ip \in Ips
  BY <1>1, IngestKeepsLast, RenewedIs
<1>3. ASSUME NEW ip \in Ips, Naming(answers, ip) = {}
      PROVE  /\ Renewed[p][ip] = Nothing
             /\ ip \in DOMAIN new <=> ip \in DOMAIN cache
             /\ ip \in DOMAIN cache => new[ip] = cache[ip]
  BY <1>1, <1>3, IngestKeepsLast, RenewedIs
<1>4. ASSUME NEW ip \in Ips, Naming(answers, ip) # {}
      PROVE  /\ Renewed[p][ip] # Nothing
             /\ ip \in DOMAIN new /\ new[ip] = Renewed[p][ip]
             /\ new[ip] \in Entries /\ new[ip].hostname # NoName /\ new[ip].left > 0
  <2> DEFINE e == DnsEntry(answers[Max(Naming(answers, ip))])
  <2>1. e \in Entries /\ e.hostname # NoName /\ e.left > 0 /\ Renewed[p][ip] = e
    BY <1>4, RenewedIs
  <2>2. ip \in DOMAIN new /\ new[ip] = e
    BY <1>1, <1>4, IngestKeepsLast
  <2> HIDE DEF e
  <2>3. e # Nothing
    BY <2>1 DEF Nothing
  <2> QED BY <2>1, <2>2, <2>3
<1> QED
  BY <1>2, <1>3, <1>4

---------------------------------------------------------------------------
(* The buffers and the loop                                                *)

\* A buffer keeps its type.
LEMMA BuffersStay ==
    ASSUME BuffersOK, [Next]_vars
    PROVE  BuffersOK'
<1> USE DEF BuffersOK
<1>1. ASSUME NEW p \in Packets, Capture(p) PROVE BuffersOK'
  <2> DEFINE r == [packet |-> p, state |-> "busy"]
  <2>1. r \in Records
    BY DEF Records
  <2> HIDE DEF r
  <2>2. DNS_EVENTS' = Append(DNS_EVENTS, r)
    BY <1>1 DEF Capture, r
  <2>3. DNS_EVENTS' \in Seq(Records) /\ Len(DNS_EVENTS') = Len(DNS_EVENTS) + 1
        /\ Len(DNS_EVENTS) \in Nat
    BY <2>1, <2>2, AppendOf
  <2>4. packets' \in 0 .. MaxPackets
    BY <1>1, LimitsAssumption DEF Capture
  <2>5. Len(DNS_EVENTS) < DnsCap /\ EVENTS' = EVENTS /\ flows' = flows
    BY <1>1 DEF Capture
  <2>6. DnsCap \in Nat
    BY LimitsAssumption
  <2> QED BY <2>3, <2>4, <2>5, <2>6
<1>2. CASE EndCaptures
  <2>1. PICK i \in DOMAIN DNS_EVENTS, st \in {"ready", "discarded"} : EndCapture(i, st)
    BY <1>2 DEF EndCaptures
  <2>2. DNS_EVENTS' = [DNS_EVENTS EXCEPT ![i] = [DNS_EVENTS[i] EXCEPT !.state = st]]
        /\ UNCHANGED <<EVENTS, packets, flows>>
    BY <2>1 DEF EndCapture
  <2>3. [DNS_EVENTS[i] EXCEPT !.state = st] \in Records
    <3>1. DNS_EVENTS[i] \in Records
      BY <2>1
    <3> QED BY <3>1, <2>1 DEF Records
  <2>4. DNS_EVENTS' \in Seq(Records) /\ Len(DNS_EVENTS') = Len(DNS_EVENTS)
    BY <2>2, <2>3
  <2> QED BY <2>2, <2>4
<1>3. ASSUME NEW f \in Flows, Report(f) PROVE BuffersOK'
  BY <1>3, LimitsAssumption DEF Report
<1>4. CASE TakePacket
  <2>1. DNS_EVENTS # <<>> /\ DNS_EVENTS' = Tail(DNS_EVENTS) /\ UNCHANGED <<EVENTS, packets, flows>>
    BY <1>4 DEF TakePacket, Readable
  <2>2. DNS_EVENTS' \in Seq(Records) /\ Len(DNS_EVENTS') = Len(DNS_EVENTS) - 1
        /\ Len(DNS_EVENTS) \in Nat
    BY <2>1, TailOf
  <2>3. DnsCap \in Nat
    BY LimitsAssumption
  <2> QED BY <2>1, <2>2, <2>3
<1>5. CASE Handle
  <2>1. EVENTS # <<>> /\ EVENTS' = Tail(EVENTS) /\ UNCHANGED <<DNS_EVENTS, packets, flows>>
    BY <1>5 DEF Handle
  <2>2. EVENTS' \in Seq(Flows)
    BY <2>1, TailOf
  <2> QED BY <2>1, <2>2
<1>6. CASE CaptureFails \/ UNCHANGED vars
  BY <1>6 DEF CaptureFails, vars, kernel
<1>7. CASE Pass \/ TurnDriver \/ StartDns \/ EndDns \/ StartEvents \/ EndEvents \/ Tick
           \/ Announce \/ Reload
  BY <1>7 DEF Pass, TurnDriver, StartDns, EndDns, StartEvents, EndEvents, Tick, Announce,
              Reload, kernel
<1> QED
  BY <1>1, <1>2, <1>3, <1>4, <1>5, <1>6, <1>7 DEF Next, Hooks, Daemon

\* The loop keeps its type, and the clock its bound.
LEMMA LoopStays ==
    ASSUME BuffersOK, LoopOK, [Next]_vars
    PROVE  LoopOK'
<1> USE DEF LoopOK
<1>1. CASE Pass
  <2>1. moment' \in 0 .. Grain - 1
    <3>1. moment' = (moment + 1) % Grain /\ moment + 1 \in Nat /\ Grain \in Nat /\ Grain > 0
      BY <1>1, LimitsAssumption DEF Pass
    <3> QED BY <3>1
  <2>2. due' \in 0 .. MaxLag
    <3>1. MaxLag \in Nat
      BY LimitsAssumption
    <3> QED BY <1>1, <3>1 DEF Pass
  <2> QED BY <1>1, <2>1, <2>2 DEF Pass, loop, kernel
<1>2. CASE TurnDriver
  <2>1. (dns_ready \/ Readable(DNS_EVENTS)) \in BOOLEAN /\ (ev_ready \/ EVENTS # <<>>) \in BOOLEAN
    BY Zenon
  <2>2. dns_ready' \in BOOLEAN /\ ev_ready' \in BOOLEAN
    BY <1>2, <2>1, Zenon DEF TurnDriver
  <2>3. UNCHANGED <<main, moment, due, rules_rx>>
    BY <1>2 DEF TurnDriver, clock, kernel
  <2> QED BY <2>2, <2>3
<1>3. CASE StartDns \/ EndDns \/ StartEvents \/ EndEvents
  BY <1>3 DEF StartDns, EndDns, StartEvents, EndEvents, clock, kernel
<1>4. CASE Tick
  <2>1. due' \in 0 .. MaxLag
    <3>1. MaxLag \in Nat
      BY LimitsAssumption
    <3> QED BY <1>4, <3>1 DEF Tick
  <2> QED BY <1>4, <2>1 DEF Tick, loop, kernel
<1>5. CASE Hooks \/ EndCaptures \/ TakePacket \/ Handle \/ UNCHANGED vars
  BY <1>5 DEF Hooks, Capture, CaptureFails, Report, EndCaptures, EndCapture, TakePacket,
              Handle, vars, loop, clock, kernel
<1>6. CASE Announce \/ Reload
  BY <1>6 DEF Announce, Reload, loop, clock
<1> QED
  BY <1>1, <1>2, <1>3, <1>4, <1>5, <1>6 DEF Next, Daemon

---------------------------------------------------------------------------
(* The names                                                               *)

\* The cache agrees with what was heard, and holds what is promised.
NamesInv == NamesOK /\ CacheIsHeard /\ PromisesHold

\* What is left of an entry stays in range.
LEMMA ElapsedIsEntry ==
    ASSUME NEW e \in Entries
    PROVE  /\ Elapsed(e) \in Entries /\ Elapsed(e).hostname = e.hostname
           /\ Elapsed(e).left = IF e.left > 0 THEN e.left - 1 ELSE 0
  BY DEF Elapsed, Entries

\* Nothing that names rest on has moved.
LEMMA NamesUntouched ==
    ASSUME NamesInv, UNCHANGED <<DNS_EVENTS, dns_ready, main, dns_cache, heard, promised>>
    PROVE  NamesInv'
  BY DEF NamesInv, NamesOK, CacheIsHeard, PromisesHold, NamesKept, Upcoming, Counts

\* A record that is captured comes after those that can be read.
LEMMA NamesAtCapture ==
    ASSUME NamesInv, BuffersOK, NEW p \in Packets, Capture(p)
    PROVE  NamesInv'
<1> DEFINE r == [packet |-> p, state |-> "busy"]
<1>1. /\ DNS_EVENTS' = Append(DNS_EVENTS, r)
      /\ UNCHANGED <<dns_ready, main, dns_cache, heard, promised>>
  BY DEF Capture, loop
<1>2. r \in Records /\ DNS_EVENTS \in Seq(Records)
  BY DEF Records, BuffersOK
<1> HIDE DEF r
<1>3. /\ Len(DNS_EVENTS) \in Nat /\ DOMAIN DNS_EVENTS = 1 .. Len(DNS_EVENTS)
      /\ DOMAIN DNS_EVENTS' = 1 .. Len(DNS_EVENTS) + 1
      /\ \A i \in 1 .. Len(DNS_EVENTS) : DNS_EVENTS'[i] = DNS_EVENTS[i]
  BY <1>1, <1>2
<1>4. ASSUME NEW ip PROVE Upcoming(ip) \subseteq Upcoming(ip)'
  <2>1. ASSUME NEW i \in Upcoming(ip) PROVE i \in Upcoming(ip)'
    <3>1. i \in 1 .. Len(DNS_EVENTS) /\ i \in DOMAIN DNS_EVENTS'
          /\ 1 .. i \subseteq 1 .. Len(DNS_EVENTS)
      BY <1>3 DEF Upcoming
    <3> QED BY <1>3, <2>1, <3>1 DEF Upcoming
  <2> QED BY <2>1
<1>5. PromisesHold'
  <2>1. \A ip \in Ips : Upcoming(ip) # {} => Upcoming(ip)' # {}
    BY <1>4
  <2> QED BY <1>1, <2>1 DEF NamesInv, PromisesHold, NamesKept
<1> QED
  BY <1>1, <1>5 DEF NamesInv, NamesOK, CacheIsHeard

\* The end of a capture does not touch the records that can be read.
LEMMA NamesAtEndCapture ==
    ASSUME NamesInv, BuffersOK, NEW k \in DOMAIN DNS_EVENTS, NEW st, EndCapture(k, st)
    PROVE  NamesInv'
<1>1. /\ DNS_EVENTS[k].state = "busy"
      /\ DNS_EVENTS' = [DNS_EVENTS EXCEPT ![k] = [DNS_EVENTS[k] EXCEPT !.state = st]]
      /\ UNCHANGED <<dns_ready, main, dns_cache, heard, promised>>
  BY DEF EndCapture, loop
<1>2. /\ DOMAIN DNS_EVENTS' = DOMAIN DNS_EVENTS /\ DOMAIN DNS_EVENTS = 1 .. Len(DNS_EVENTS)
      /\ Len(DNS_EVENTS) \in Nat
      /\ \A i \in DOMAIN DNS_EVENTS : i # k => DNS_EVENTS'[i] = DNS_EVENTS[i]
  BY <1>1 DEF BuffersOK
<1>3. ASSUME NEW ip PROVE Upcoming(ip) \subseteq Upcoming(ip)'
  <2>1. ASSUME NEW i \in Upcoming(ip) PROVE i \in Upcoming(ip)'
    <3>1. i \in DOMAIN DNS_EVENTS /\ k \notin 1 .. i /\ 1 .. i \subseteq DOMAIN DNS_EVENTS /\ i \in 1 .. i
      BY <1>1, <1>2 DEF Upcoming
    <3>2. \A j \in 1 .. i : DNS_EVENTS'[j] = DNS_EVENTS[j]
      BY <1>2, <3>1
    <3> QED BY <1>2, <2>1, <3>1, <3>2 DEF Upcoming
  <2> QED BY <2>1
<1>4. PromisesHold'
  <2>1. \A ip \in Ips : Upcoming(ip) # {} => Upcoming(ip)' # {}
    BY <1>3
  <2> QED BY <1>1, <2>1 DEF NamesInv, PromisesHold, NamesKept
<1> QED
  BY <1>1, <1>4 DEF NamesInv, NamesOK, CacheIsHeard

\* A moment takes as much from a promise as from the entry that keeps it.
LEMMA NamesAtPass ==
    ASSUME NamesInv, Pass
    PROVE  NamesInv'
<1>1. /\ DOMAIN dns_cache' = DOMAIN dns_cache
      /\ \A ip \in DOMAIN dns_cache : dns_cache'[ip] = Elapsed(dns_cache[ip])
      /\ heard' = [ip \in Ips |-> Elapsed(heard[ip])]
      /\ promised' = [ip \in Ips |-> IF promised[ip] > 0 THEN promised[ip] - 1 ELSE 0]
      /\ UNCHANGED <<DNS_EVENTS, dns_ready, main>>
  BY DEF Pass, kernel, loop
<1>2. /\ DOMAIN dns_cache \subseteq Ips /\ \A ip \in DOMAIN dns_cache : dns_cache[ip] \in Entries
      /\ heard \in [Ips -> Entries] /\ promised \in [Ips -> Nat]
  BY DEF NamesInv, NamesOK
<1>3. NamesOK'
  <2>1. heard' \in [Ips -> Entries]
    BY <1>1, <1>2, ElapsedIsEntry
  <2>2. promised' \in [Ips -> Nat]
    BY <1>1, <1>2
  <2>3. \A ip \in DOMAIN dns_cache' : dns_cache'[ip] \in Entries
    BY <1>1, <1>2, ElapsedIsEntry
  <2> QED BY <1>1, <1>2, <2>1, <2>2, <2>3 DEF NamesOK
<1>4. CacheIsHeard'
  <2>1. ASSUME NEW ip \in Ips
        PROVE  IF ip \in DOMAIN dns_cache' THEN dns_cache'[ip] = heard'[ip]
               ELSE heard'[ip].left = 0
    <3>1. heard[ip] \in Entries /\ heard'[ip] = Elapsed(heard[ip])
      BY <1>1, <1>2
    <3>2. IF ip \in DOMAIN dns_cache THEN dns_cache[ip] = heard[ip] ELSE heard[ip].left = 0
      BY DEF NamesInv, CacheIsHeard
    <3> QED BY <1>1, <3>1, <3>2, ElapsedIsEntry
  <2> QED BY <2>1 DEF CacheIsHeard
<1>5. ASSUME NEW ip \in Ips, promised'[ip] > 0
      PROVE  NamesKept(ip)' \/ ((Upcoming(ip) # {})' /\ (dns_ready \/ main = "dns")')
  <2>1. promised[ip] \in Nat /\ promised[ip] > 0 /\ promised'[ip] = promised[ip] - 1
    BY <1>1, <1>2, <1>5
  <2>2. CASE NamesKept(ip)
    <3>1. dns_cache[ip] \in Entries /\ dns_cache[ip].left \in Nat /\ ip \in DOMAIN dns_cache'
      BY <1>1, <1>2, <2>2 DEF NamesKept, Entries
    <3>2. dns_cache'[ip].hostname # NoName /\ dns_cache'[ip].left = dns_cache[ip].left - 1
      BY <1>1, <2>1, <2>2, <3>1, ElapsedIsEntry DEF NamesKept
    <3> QED BY <2>1, <2>2, <3>1, <3>2 DEF NamesKept
  <2>3. CASE Upcoming(ip) # {} /\ (dns_ready \/ main = "dns")
    BY <1>1, <2>3 DEF Upcoming
  <2> QED BY <2>1, <2>2, <2>3 DEF NamesInv, PromisesHold
<1>6. PromisesHold'
  BY <1>1, <1>5 DEF NamesInv, PromisesHold
<1> QED
  BY <1>3, <1>4, <1>6 DEF NamesInv

\* The driver makes a promise of what it wakes the DNS arm for.
LEMMA NamesAtTurn ==
    ASSUME NamesInv, BuffersOK, LoopOK, TurnDriver
    PROVE  NamesInv'
<1>1. /\ main = "select" /\ UNCHANGED <<DNS_EVENTS, main, dns_cache, heard>>
      /\ dns_ready' = (dns_ready \/ Readable(DNS_EVENTS))
      /\ promised' = [ip \in Ips |->
            IF Upcoming(ip) = {} THEN promised[ip]
            ELSE Renewed[DNS_EVENTS[Max(Upcoming(ip))].packet][ip].left]
  BY DEF TurnDriver, kernel
<1>2. promised \in [Ips -> Nat] /\ DNS_EVENTS \in Seq(Records)
  BY DEF NamesInv, NamesOK, BuffersOK
<1>3. ASSUME NEW ip \in Ips, Upcoming(ip) # {}
      PROVE  /\ dns_ready'
             /\ Renewed[DNS_EVENTS[Max(Upcoming(ip))].packet][ip].left \in Nat
  <2>1. PICK i \in Upcoming(ip) : TRUE
    BY <1>3
  <2>2. Readable(DNS_EVENTS)
    <3>1. i \in 1 .. Len(DNS_EVENTS) /\ Len(DNS_EVENTS) \in Nat /\ 1 \in 1 .. i
      BY <1>2, <2>1 DEF Upcoming
    <3>2. DNS_EVENTS[1].state # "busy" /\ DNS_EVENTS # <<>>
      BY <3>1, <2>1 DEF Upcoming
    <3> QED BY <3>2, <1>2 DEF Readable
  <2>3. Max(Upcoming(ip)) \in Upcoming(ip)
    <3>1. Upcoming(ip) \subseteq 0 .. Len(DNS_EVENTS) /\ Len(DNS_EVENTS) \in Nat
      BY <1>2 DEF Upcoming
    <3> QED BY <1>3, <3>1, MinMax
  <2>4. DNS_EVENTS[Max(Upcoming(ip))] \in Records
    <3>1. Max(Upcoming(ip)) \in DOMAIN DNS_EVENTS
      BY <2>3 DEF Upcoming
    <3> QED BY <1>2, <3>1, ElementsOf
  <2> DEFINE p == DNS_EVENTS[Max(Upcoming(ip))].packet
  <2>5. p \in Packets /\ Renewed[p][ip] # Nothing
    BY <2>3, <2>4 DEF Upcoming, Records
  <2> HIDE DEF p
  <2>6. Renewed[p][ip].left \in Nat
    BY <2>5, RenewedIs DEF Entries
  <2> QED BY <1>1, <2>2, <2>6, Zenon DEF p
<1>4. promised' \in [Ips -> Nat]
  BY <1>1, <1>2, <1>3
<1>5. ASSUME NEW ip \in Ips, promised'[ip] > 0
      PROVE  NamesKept(ip)' \/ ((Upcoming(ip) # {})' /\ (dns_ready \/ main = "dns")')
  <2>1. CASE Upcoming(ip) = {}
    <3>1. promised'[ip] = promised[ip]
      BY <1>1, <2>1
    <3>2. NamesKept(ip)
      BY <1>5, <2>1, <3>1 DEF NamesInv, PromisesHold
    <3> QED BY <1>1, <3>1, <3>2 DEF NamesKept
  <2>2. CASE Upcoming(ip) # {}
    <3>1. (Upcoming(ip) # {})'
      BY <1>1, <2>2 DEF Upcoming
    <3> QED BY <1>3, <2>2, <3>1
  <2> QED BY <2>1, <2>2
<1>6. PromisesHold'
  <2>1. main' = "select"
    BY <1>1
  <2> QED BY <1>5, <2>1 DEF PromisesHold
<1> QED
  BY <1>1, <1>4, <1>6 DEF NamesInv, NamesOK, CacheIsHeard

\* A packet that is drained renews what it names, and uncovers the next.
LEMMA NamesAtTake ==
    ASSUME NamesInv, BuffersOK, TakePacket
    PROVE  NamesInv'
<1> DEFINE r == Head(DNS_EVENTS)
           p == r.packet
           new == [ip \in Ips |-> IF r.state = "ready" THEN Renewed[p][ip] ELSE Nothing]
<1>1. /\ main = "dns" /\ Readable(DNS_EVENTS) /\ DNS_EVENTS' = Tail(DNS_EVENTS)
      /\ UNCHANGED <<main, dns_ready>>
      /\ dns_cache' = IF r.state = "ready" THEN Ingest(dns_cache, AnswersOf(p)) ELSE dns_cache
      /\ heard' = [ip \in Ips |-> IF new[ip] = Nothing THEN heard[ip] ELSE new[ip]]
      /\ promised' = [ip \in Ips |-> IF new[ip] = Nothing THEN promised[ip]
                                    ELSE Atmost(promised[ip], new[ip].left)]
  BY DEF TakePacket, loop
<1>2. /\ DOMAIN dns_cache \subseteq Ips /\ \A ip \in DOMAIN dns_cache : dns_cache[ip] \in Entries
      /\ heard \in [Ips -> Entries] /\ promised \in [Ips -> Nat]
  BY DEF NamesInv, NamesOK
<1>3. DNS_EVENTS \in Seq(Records) /\ DNS_EVENTS # <<>>
  BY <1>1 DEF BuffersOK, Readable
<1>4. /\ r = DNS_EVENTS[1] /\ r \in Records /\ DNS_EVENTS' \in Seq(Records)
      /\ Len(DNS_EVENTS) \in Nat \ {0} /\ Len(DNS_EVENTS') = Len(DNS_EVENTS) - 1
      /\ \A i \in 1 .. Len(DNS_EVENTS) - 1 : DNS_EVENTS'[i] = DNS_EVENTS[i + 1]
  BY <1>1, <1>3, TailOf
<1>5. p \in Packets
  BY <1>4 DEF Records
<1>6. /\ DOMAIN dns_cache' \subseteq Ips
      /\ \A ip \in Ips :
            /\ new[ip] = Nothing =>
                  /\ ip \in DOMAIN dns_cache' <=> ip \in DOMAIN dns_cache
                  /\ ip \in DOMAIN dns_cache => dns_cache'[ip] = dns_cache[ip]
            /\ new[ip] # Nothing =>
                  /\ ip \in DOMAIN dns_cache' /\ dns_cache'[ip] = new[ip]
                  /\ new[ip] \in Entries /\ new[ip].hostname # NoName /\ new[ip].left > 0
  <2> DEFINE after == Ingest(dns_cache, AnswersOf(p))
  <2>1. CASE r.state = "ready"
    <3>1. dns_cache' = after /\ \A ip \in Ips : new[ip] = Renewed[p][ip]
      BY <1>1, <2>1
    <3>2. /\ DOMAIN after \subseteq Ips
          /\ \A ip \in Ips :
                /\ Renewed[p][ip] = Nothing =>
                      /\ ip \in DOMAIN after <=> ip \in DOMAIN dns_cache
                      /\ ip \in DOMAIN dns_cache => after[ip] = dns_cache[ip]
                /\ Renewed[p][ip] # Nothing =>
                      /\ ip \in DOMAIN after /\ after[ip] = Renewed[p][ip]
                      /\ after[ip] \in Entries /\ after[ip].hostname # NoName
                      /\ after[ip].left > 0
      BY <1>2, <1>5, IngestRenews
    <3> HIDE DEF after, new
    <3> QED BY <3>1, <3>2
  <2>2. CASE r.state # "ready"
    <3>1. dns_cache' = dns_cache /\ \A ip \in Ips : new[ip] = Nothing
      BY <1>1, <2>2
    <3> HIDE DEF new
    <3> QED BY <1>2, <3>1
  <2> QED BY <2>1, <2>2
<1>7. \A ip \in Ips : new[ip] = IF r.state = "ready" THEN Renewed[p][ip] ELSE Nothing
  OBVIOUS
<1> HIDE DEF new, r
<1>8. NamesOK'
  <2>1. heard' \in [Ips -> Entries]
    BY <1>1, <1>2, <1>6
  <2>2. promised' \in [Ips -> Nat]
    BY <1>1, <1>2, <1>6 DEF Atmost, Entries
  <2>3. \A ip \in DOMAIN dns_cache' : dns_cache'[ip] \in Entries
    BY <1>2, <1>6
  <2> QED BY <1>6, <2>1, <2>2, <2>3 DEF NamesOK
<1>9. CacheIsHeard'
  <2>1. ASSUME NEW ip \in Ips
        PROVE  IF ip \in DOMAIN dns_cache' THEN dns_cache'[ip] = heard'[ip]
               ELSE heard'[ip].left = 0
    <3>1. IF ip \in DOMAIN dns_cache THEN dns_cache[ip] = heard[ip] ELSE heard[ip].left = 0
      BY DEF NamesInv, CacheIsHeard
    <3>2. heard'[ip] = IF new[ip] = Nothing THEN heard[ip] ELSE new[ip]
      BY <1>1
    <3> QED BY <1>6, <3>1, <3>2
  <2> QED BY <2>1 DEF CacheIsHeard
<1>10. ASSUME NEW ip \in Ips, promised'[ip] > 0
       PROVE  NamesKept(ip)' \/ ((Upcoming(ip) # {})' /\ (dns_ready \/ main = "dns")')
  <2>1. promised'[ip] = IF new[ip] = Nothing THEN promised[ip]
                        ELSE Atmost(promised[ip], new[ip].left)
    BY <1>1
  <2>2. CASE new[ip] # Nothing
    <3>1. new[ip].left \in Nat /\ promised[ip] \in Nat
      BY <1>2, <1>6, <2>2 DEF Entries
    <3>2. new[ip].left >= promised'[ip]
      BY <2>1, <2>2, <3>1 DEF Atmost
    <3> QED BY <1>6, <2>2, <3>2 DEF NamesKept
  <2>3. CASE new[ip] = Nothing /\ NamesKept(ip)
    BY <1>6, <2>1, <2>3 DEF NamesKept
  <2>4. CASE new[ip] = Nothing /\ Upcoming(ip) # {}
    <3>1. PICK i \in Upcoming(ip) : TRUE
      BY <2>4
    <3>2. i # 1
      BY <1>4, <1>7, <2>4, <3>1 DEF Upcoming
    <3>3. i \in 1 .. Len(DNS_EVENTS) /\ i - 1 \in 1 .. Len(DNS_EVENTS) - 1
          /\ i - 1 \in DOMAIN DNS_EVENTS' /\ DNS_EVENTS'[i - 1] = DNS_EVENTS[i]
      BY <1>3, <1>4, <3>1, <3>2 DEF Upcoming
    <3>4. ASSUME NEW j \in 1 .. i - 1 PROVE DNS_EVENTS'[j].state # "busy"
      <4>1. j + 1 \in 1 .. i /\ j \in 1 .. Len(DNS_EVENTS) - 1
        BY <1>4, <3>3
      <4> QED BY <1>4, <3>1, <4>1 DEF Upcoming
    <3>5. (i - 1) \in Upcoming(ip)'
      BY <3>1, <3>3, <3>4 DEF Upcoming
    <3> QED BY <1>1, <3>5
  <2>5. promised[ip] > 0 \/ new[ip] # Nothing
    BY <1>10, <2>1
  <2> QED BY <2>2, <2>3, <2>4, <2>5 DEF NamesInv, PromisesHold
<1>11. PromisesHold'
  BY <1>1, <1>10 DEF PromisesHold
<1> QED
  BY <1>8, <1>9, <1>11 DEF NamesInv

\* The arms hand over: the events arm is polled when nothing is upcoming.
LEMMA NamesAtArms ==
    ASSUME NamesInv, BuffersOK, StartDns \/ EndDns \/ StartEvents \/ EndEvents
    PROVE  NamesInv'
<1>1. UNCHANGED <<DNS_EVENTS, dns_cache, heard, promised>>
  BY DEF StartDns, EndDns, StartEvents, EndEvents, kernel
<1>2. \A ip : Upcoming(ip)' = Upcoming(ip)
  BY <1>1 DEF Upcoming
<1>3. \A ip : NamesKept(ip) => NamesKept(ip)'
  BY <1>1 DEF NamesKept
<1>4. main = "events" => ~ dns_ready
  BY DEF NamesInv, PromisesHold
<1>5. \A ip \in Ips : promised[ip] > 0 =>
          NamesKept(ip) \/ (Upcoming(ip) # {} /\ (dns_ready \/ main = "dns"))
  BY DEF NamesInv, PromisesHold
<1>6. CASE StartDns
  <2>1. main' = "dns"
    BY <1>6 DEF StartDns
  <2> QED BY <1>1, <1>2, <1>3, <1>5, <2>1 DEF NamesInv, NamesOK, CacheIsHeard, PromisesHold
<1>7. CASE EndDns
  <2>1. ASSUME NEW ip \in Ips PROVE Upcoming(ip) = {}
    <3>1. ASSUME NEW i \in Upcoming(ip) PROVE FALSE
      <4>1. i \in 1 .. Len(DNS_EVENTS) /\ Len(DNS_EVENTS) \in Nat /\ 1 \in 1 .. i
        BY <3>1 DEF Upcoming, BuffersOK
      <4>2. DNS_EVENTS[1].state # "busy" /\ DNS_EVENTS # <<>>
        BY <3>1, <4>1 DEF Upcoming
      <4> QED BY <1>7, <4>2 DEF EndDns, Readable, BuffersOK
    <3> QED BY <3>1
  <2>2. main' = "select"
    BY <1>7 DEF EndDns
  <2> QED BY <1>1, <1>3, <1>5, <2>1, <2>2 DEF NamesInv, NamesOK, CacheIsHeard, PromisesHold
<1>8. CASE StartEvents
  <2>1. main = "select" /\ main' = "events" /\ ~ dns_ready /\ ~ dns_ready'
    BY <1>8 DEF StartEvents
  <2> QED BY <1>1, <1>3, <1>5, <2>1 DEF NamesInv, NamesOK, CacheIsHeard, PromisesHold
<1>9. CASE EndEvents
  <2>1. main = "events" /\ main' = "select"
    BY <1>9 DEF EndEvents
  <2> QED BY <1>1, <1>3, <1>4, <1>5, <2>1 DEF NamesInv, NamesOK, CacheIsHeard, PromisesHold
<1> QED
  BY <1>6, <1>7, <1>8, <1>9

\* Only what is over is evicted.
LEMMA NamesAtTick ==
    ASSUME NamesInv, Tick
    PROVE  NamesInv'
<1>1. /\ main = "select" /\ ~ dns_ready
      /\ dns_cache' = [ip \in Kept(dns_cache) |-> dns_cache[ip]]
      /\ UNCHANGED <<DNS_EVENTS, main, dns_ready, heard, promised>>
  BY DEF Tick, kernel, loop
<1>2. /\ DOMAIN dns_cache \subseteq Ips /\ \A ip \in DOMAIN dns_cache : dns_cache[ip] \in Entries
      /\ heard \in [Ips -> Entries] /\ promised \in [Ips -> Nat]
  BY DEF NamesInv, NamesOK
<1>3. /\ DOMAIN dns_cache' \subseteq DOMAIN dns_cache
      /\ \A ip \in DOMAIN dns_cache' : dns_cache'[ip] = dns_cache[ip]
      /\ \A ip \in DOMAIN dns_cache : ip \in DOMAIN dns_cache' \/ dns_cache[ip].left = 0
  <2>1. \A ip \in DOMAIN dns_cache : dns_cache[ip].left \in Nat
    BY <1>2 DEF Entries
  <2> QED BY <1>1, <2>1 DEF Kept
<1>4. CacheIsHeard'
  <2>1. ASSUME NEW ip \in Ips
        PROVE  IF ip \in DOMAIN dns_cache' THEN dns_cache'[ip] = heard'[ip]
               ELSE heard'[ip].left = 0
    <3>1. IF ip \in DOMAIN dns_cache THEN dns_cache[ip] = heard[ip] ELSE heard[ip].left = 0
      BY DEF NamesInv, CacheIsHeard
    <3> QED BY <1>1, <1>3, <3>1
  <2> QED BY <2>1 DEF CacheIsHeard
<1>5. ASSUME NEW ip \in Ips, promised'[ip] > 0 PROVE NamesKept(ip)'
  <2>1. NamesKept(ip) /\ promised'[ip] = promised[ip] /\ promised[ip] \in Nat
    BY <1>1, <1>2, <1>5 DEF NamesInv, PromisesHold
  <2>2. dns_cache[ip].left # 0
    BY <1>5, <2>1 DEF NamesKept
  <2> QED BY <1>3, <2>1, <2>2 DEF NamesKept
<1> QED
  BY <1>1, <1>2, <1>3, <1>4, <1>5 DEF NamesInv, NamesOK, PromisesHold

\* The names keep to the invariant at every step.
LEMMA NamesStay ==
    ASSUME NamesInv, BuffersOK, LoopOK, [Next]_vars
    PROVE  NamesInv'
<1>1. CASE EndCaptures
  BY <1>1, NamesAtEndCapture DEF EndCaptures
<1>2. ASSUME NEW p \in Packets, Capture(p) PROVE NamesInv'
  BY <1>2, NamesAtCapture
<1>3. CASE CaptureFails \/ (\E f \in Flows : Report(f)) \/ Handle \/ Announce \/ Reload
           \/ UNCHANGED vars
  <2>1. UNCHANGED <<DNS_EVENTS, dns_ready, main, dns_cache, heard, promised>>
    BY <1>3 DEF CaptureFails, Report, Handle, Announce, Reload, vars, kernel, loop
  <2> QED BY <2>1, NamesUntouched
<1> QED
  BY <1>1, <1>2, <1>3, NamesAtPass, NamesAtTurn, NamesAtTake, NamesAtArms, NamesAtTick
     DEF Next, Hooks, Daemon

---------------------------------------------------------------------------
(* The counts                                                              *)

\* A set of places, and with one more place at the end.
LEMMA OneMore ==
    ASSUME NEW n \in Nat, NEW A, A \subseteq 1 .. n
    PROVE  /\ IsFiniteSet(A) /\ Cardinality(A) \in 0 .. n
           /\ Cardinality(A \cup {n + 1}) = Cardinality(A) + 1
<1>1. IsFiniteSet(1 .. n) /\ Cardinality(1 .. n) = n
  BY FS_Interval
<1>2. IsFiniteSet(A) /\ Cardinality(A) <= n
  BY <1>1, FS_Subset
<1>3. Cardinality(A) \in Nat
  BY <1>2, FS_CardinalityType
<1>4. n + 1 \notin A
  OBVIOUS
<1> QED
  BY <1>2, <1>3, <1>4, FS_AddElement

\* The list made of a tally is the one that is due.
LEMMA TopOfTally ==
    ASSUME NEW S, IsFiniteSet(S), NEW label, \A i \in S : label[i] \in Nat,
           NEW map, Tally(map, S, label)
    PROVE  TopOf(Top(map), S, label)
<1> DEFINE labels == {label[i] : i \in S}
           list == Top(map)
<1>1. DOMAIN map = labels /\ \A l \in labels : map[l] = CountOf(S, label, l)
  BY DEF Tally
<1>2. IsCounter(map)
  <2>1. IsFiniteSet(labels)
    <3> DEFINE f == [i \in S |-> label[i]]
    <3>1. f \in Surjection(S, labels)
      BY DEF Surjection
    <3> QED BY <3>1, FS_Surjection
  <2>2. ASSUME NEW l \in labels PROVE l \in Nat /\ map[l] \in Nat
    <3>1. {i \in S : label[i] = l} \in SUBSET S
      OBVIOUS
    <3>2. IsFiniteSet({i \in S : label[i] = l})
      BY <3>1, FS_Subset
    <3>3. CountOf(S, label, l) \in Nat
      BY <3>2, FS_CardinalityType DEF CountOf
    <3> QED BY <1>1, <3>3
  <2> QED BY <1>1, <2>1, <2>2 DEF IsCounter
<1> HIDE DEF labels, list
<1>3. /\ DOMAIN list = 1 .. Len(list)
      /\ Len(list) = Atmost(Cardinality(labels), TopN)
      /\ \A i \in DOMAIN list :
            /\ list[i] \in Labeled(map)
            /\ i > 1 => Ahead(list[i - 1], list[i])
            /\ \A e \in Labeled(map) \ {list[j] : j \in DOMAIN list} : Ahead(list[i], e)
  BY <1>1, <1>2, TopIsSorted DEF list
<1>4. ASSUME NEW i \in DOMAIN list
      PROVE  /\ list[i].label \in labels
             /\ list[i].count = CountOf(S, label, list[i].label)
  BY <1>1, <1>3 DEF Labeled
<1>5. ASSUME NEW i \in DOMAIN list, NEW l \in labels \ {list[j].label : j \in DOMAIN list}
      PROVE  Ahead(list[i], [label |-> l, count |-> CountOf(S, label, l)])
  <2> DEFINE e == [label |-> l, count |-> CountOf(S, label, l)]
  <2>1. e \in Labeled(map)
    BY <1>1 DEF Labeled
  <2>2. e.label = l
    OBVIOUS
  <2>3. \A j \in DOMAIN list : list[j] # e
    BY <2>2
  <2> HIDE DEF e
  <2>4. Ahead(list[i], e)
    BY <1>3, <2>1, <2>3
  <2> QED BY <2>4 DEF e
<1> QED
  BY <1>3, <1>4, <1>5 DEF TopOf, labels, list

\* Only the labels of the places that are counted matter.
LEMMA TopOfSame ==
    ASSUME NEW S, NEW label, NEW new, \A i \in S : new[i] = label[i],
           NEW list, TopOf(list, S, label)
    PROVE  TopOf(list, S, new)
<1>1. {new[i] : i \in S} = {label[i] : i \in S}
  OBVIOUS
<1>2. \A l : CountOf(S, new, l) = CountOf(S, label, l)
  <2>1. ASSUME NEW l PROVE {i \in S : new[i] = l} = {i \in S : label[i] = l}
    OBVIOUS
  <2> QED BY <2>1 DEF CountOf
<1> QED
  BY <1>1, <1>2 DEF TopOf

\* Counting a label keeps a tally.
LEMMA TallyGrows ==
    ASSUME NEW n \in Nat, NEW label, NEW new, \A i \in 1 .. n : new[i] = label[i],
           NEW map, Tally(map, 1 .. n, label)
    PROVE  Tally(Counted(map, new[n + 1]), 1 .. n + 1, new)
<1> DEFINE x == new[n + 1]
           more == Counted(map, x)
<1>1. 1 .. n + 1 = (1 .. n) \cup {n + 1}
  OBVIOUS
<1>2. DOMAIN more = {new[i] : i \in 1 .. n + 1}
  <2>1. DOMAIN more = {label[i] : i \in 1 .. n} \cup {x}
    BY DEF Counted, Tally
  <2> QED BY <1>1, <2>1
<1>3. ASSUME NEW l \in DOMAIN more PROVE more[l] = CountOf(1 .. n + 1, new, l)
  <2> DEFINE A == {i \in 1 .. n : label[i] = l}
             B == {i \in 1 .. n + 1 : new[i] = l}
  <2>1. Cardinality(A) \in Nat /\ Cardinality(A \cup {n + 1}) = Cardinality(A) + 1
    <3>1. A \subseteq 1 .. n
      OBVIOUS
    <3> HIDE DEF A
    <3>2. Cardinality(A) \in 0 .. n
      BY <3>1, OneMore
    <3>3. Cardinality(A \cup {n + 1}) = Cardinality(A) + 1
      BY <3>1, OneMore, Zenon
    <3> QED BY <3>2, <3>3
  <2>2. B = IF x = l THEN A \cup {n + 1} ELSE A
    BY <1>1
  <2>3. l \in DOMAIN map => map[l] = Cardinality(A)
    BY DEF Tally, CountOf
  <2>4. l \notin DOMAIN map => A = {}
    BY DEF Tally
  <2>5. more[l] = (IF l \in DOMAIN map THEN map[l] ELSE 0) + (IF l = x THEN 1 ELSE 0)
    BY <1>3 DEF Counted
  <2>6. (IF l \in DOMAIN map THEN map[l] ELSE 0) = Cardinality(A)
    BY <2>3, <2>4, FS_EmptySet
  <2>7. Cardinality(B) = Cardinality(A) + (IF l = x THEN 1 ELSE 0)
    <3> HIDE DEF A, B
    <3> QED BY <2>1, <2>2
  <2> QED BY <2>5, <2>6, <2>7 DEF CountOf
<1> QED
  BY <1>2, <1>3 DEF Tally

\* A label that occurs is counted, and no more often than there are places.
LEMMA CountInRange ==
    ASSUME NEW n \in Nat, NEW S, S \subseteq 1 .. n, NEW label, NEW i \in S
    PROVE  CountOf(S, label, label[i]) \in 1 .. n
<1> DEFINE A == {j \in S : label[j] = label[i]}
<1>1. A \subseteq 1 .. n /\ A # {}
  OBVIOUS
<1> HIDE DEF A
<1>2. IsFiniteSet(A) /\ Cardinality(A) \in 0 .. n /\ Cardinality(A) # 0
  BY <1>1, OneMore, FS_EmptySet
<1> QED
  BY <1>2 DEF CountOf, A

\* What Accumulator::record changes.
LEMMA RecordIs ==
    ASSUME DOMAIN acc = DOMAIN NewAccumulator, NEW f, NEW host, NEW verdict
    PROVE  LET new == Record(f, host, verdict) IN
           /\ DOMAIN new = DOMAIN NewAccumulator
           /\ new.total_events = acc.total_events + 1
           /\ new.total_allowed = acc.total_allowed + (IF verdict = "allow" THEN 1 ELSE 0)
           /\ new.total_denied = acc.total_denied + (IF verdict = "deny" THEN 1 ELSE 0)
           /\ new.per_process = Counted(acc.per_process, ProcessLabel(f))
           /\ new.per_host = Counted(acc.per_host, HostLabel(f, host))
           /\ new.activity = [acc.activity EXCEPT ![Buckets] = acc.activity[Buckets] + 1]
<1> HIDE DEF Counted
<1> QED
  BY DEF Record, NewAccumulator

\* The counters, their snapshot and the ring agree with the log.
CountsInv ==
    /\ log \in Seq(Evaluations) /\ FlowsInOnePlace
    /\ DOMAIN acc = DOMAIN NewAccumulator /\ acc.total_allowed \in Nat
    /\ acc.activity \in [1 .. Buckets -> Nat] /\ Ring(published.activity)
    /\ AccountsForLog /\ SnapshotCountsLog /\ ActivityInOrder

\* Every place of the log has a label.
LEMMA LogLabels ==
    ASSUME log \in Seq(Evaluations)
    PROVE  /\ Len(log) \in Nat /\ DOMAIN log = 1 .. Len(log) /\ IsFiniteSet(DOMAIN log)
           /\ \A i \in DOMAIN log : /\ HostOf[i] \in Labels /\ ProcessOf[i] \in Labels
                                    /\ HostOf[i] \in Nat /\ ProcessOf[i] \in Nat
<1>1. Len(log) \in Nat /\ DOMAIN log = 1 .. Len(log)
  OBVIOUS
<1>2. IsFiniteSet(DOMAIN log)
  BY <1>1, FS_Interval
<1>3. ASSUME NEW i \in DOMAIN log
      PROVE  /\ HostOf[i] \in Labels /\ ProcessOf[i] \in Labels
  <2>1. log[i].flow \in Flows /\ log[i].host \in Hosts \cup {NoName}
    <3>1. log[i] \in Evaluations
      BY <1>1
    <3> QED BY <3>1 DEF Evaluations
  <2>2. HostOf[i] = HostLabel(log[i].flow, log[i].host) /\ ProcessOf[i] = ProcessLabel(log[i].flow)
    BY DEF HostOf, ProcessOf
  <2> QED BY <2>1, <2>2, LabelsOfFlows
<1> QED
  BY <1>1, <1>2, <1>3, LabelsOfFlows

\* What keeps the counters in their range.
LEMMA CountsInRange ==
    ASSUME CountsInv, BuffersOK
    PROVE  StatsOK
<1> DEFINE n == Len(log)
<1>1. /\ n \in Nat /\ DOMAIN log = 1 .. n
      /\ \A i \in DOMAIN log : HostOf[i] \in Labels /\ ProcessOf[i] \in Labels
  BY LogLabels DEF CountsInv
<1>2. flows \in Nat /\ n <= flows
  BY <1>1 DEF CountsInv, FlowsInOnePlace, BuffersOK
<1>3. ASSUME NEW map, NEW label, Tally(map, DOMAIN log, label),
             \A i \in DOMAIN log : label[i] \in Labels
      PROVE  Counts(map)
  <2>1. ASSUME NEW l \in DOMAIN map PROVE l \in Labels /\ map[l] \in 1 .. flows
    <3>1. PICK i \in DOMAIN log : l = label[i]
      BY <1>3 DEF Tally
    <3>2. map[l] = CountOf(DOMAIN log, label, label[i])
      BY <1>3, <3>1 DEF Tally
    <3>3. map[l] \in 1 .. n
      BY <1>1, <3>1, <3>2, CountInRange
    <3> QED BY <1>2, <1>3, <3>1, <3>3
  <2> QED BY <2>1 DEF Counts
<1>4. ASSUME NEW list, NEW label, TopOf(list, Published, label),
             \A i \in DOMAIN log : label[i] \in Labels
      PROVE  Listing(list)
  <2>1. ASSUME NEW k \in DOMAIN list PROVE list[k].label \in Labels /\ list[k].count \in 1 .. flows
    <3>1. PICK i \in Published : list[k].label = label[i]
      BY <1>4 DEF TopOf
    <3>2. list[k].count = CountOf(Published, label, label[i])
      BY <1>4, <3>1 DEF TopOf
    <3>3. Published \subseteq 1 .. n
      BY <1>1 DEF Published
    <3>4. list[k].count \in 1 .. n
      BY <1>1, <3>1, <3>2, <3>3, CountInRange
    <3> QED BY <1>1, <1>2, <1>4, <3>1, <3>3, <3>4
  <2> QED BY <2>1 DEF Listing
<1>5. Ring(acc.activity)
  <2>1. ASSUME NEW j \in 1 .. Buckets PROVE acc.activity[j] \in 0 .. flows
    <3>1. Buckets \in Nat /\ Buckets - j + 1 \in 1 .. Buckets /\ Buckets - (Buckets - j + 1) + 1 = j
      BY LimitsAssumption
    <3> DEFINE k == Buckets - j + 1
               A == {i \in DOMAIN log : log[i].age = k - 1}
    <3>2. acc.activity[Buckets - k + 1] = Cardinality(A) /\ A \subseteq 1 .. n
      BY <1>1, <3>1 DEF CountsInv, ActivityInOrder
    <3>3. Cardinality(A) \in 0 .. n
      <4> HIDE DEF A
      <4> QED BY <1>1, <3>2, OneMore
    <3> QED BY <1>2, <3>1, <3>2, <3>3
  <2> QED BY <2>1 DEF CountsInv, Ring
<1>6. acc.total_allowed \in 0 .. flows
  <2> DEFINE A == {i \in DOMAIN log : log[i].verdict = "deny"}
  <2>1. acc.total_denied = Cardinality(A) /\ acc.total_allowed + acc.total_denied = n /\ A \subseteq 1 .. n
    BY <1>1 DEF CountsInv, AccountsForLog
  <2>2. Cardinality(A) \in 0 .. n
    <3> HIDE DEF A
    <3> QED BY <1>1, <2>1, OneMore
  <2>3. acc.total_allowed \in Nat
    BY DEF CountsInv
  <2> HIDE DEF A
  <2> QED BY <1>1, <1>2, <2>1, <2>2, <2>3
<1> QED
  BY <1>1, <1>3, <1>4, <1>5, <1>6 DEF CountsInv, AccountsForLog, SnapshotCountsLog, StatsOK

\* At the start there is nothing to count.
LEMMA CountsInit ==
    ASSUME Init
    PROVE  CountsInv
<1>1. /\ log = <<>> /\ acc = NewAccumulator /\ published = Snapshot(NewAccumulator)
      /\ EVENTS = <<>> /\ flows = 0
  BY DEF Init
<1>2. /\ DOMAIN log = {} /\ Len(log) = 0 /\ log \in Seq(Evaluations) /\ Published = {}
  BY <1>1 DEF Published
<1>3. /\ acc.total_events = 0 /\ acc.total_allowed = 0 /\ acc.total_denied = 0
      /\ acc.per_host = <<>> /\ acc.per_process = <<>>
      /\ acc.activity = [i \in 1 .. Buckets |-> 0]
  BY <1>1 DEF NewAccumulator
<1>4. /\ published.total_events = 0 /\ published.total_allowed = 0 /\ published.total_denied = 0
      /\ published.top_hosts = Top(acc.per_host) /\ published.top_processes = Top(acc.per_process)
      /\ published.activity = acc.activity
  BY <1>1, <1>3 DEF Snapshot
<1>5. \A S, e : S = {} => Cardinality({i \in S : e[i]}) = 0
  BY FS_EmptySet
<1>6. \A label : Tally(<<>>, {}, label)
  BY DEF Tally
<1>7. \A label : TopOf(Top(<<>>), {}, label)
  BY <1>6, TopOfTally, FS_EmptySet
<1>8. AccountsForLog
  <2>1. {i \in DOMAIN log : log[i].verdict = "deny"} = {}
    BY <1>2
  <2> QED BY <1>2, <1>3, <1>6, <2>1, FS_EmptySet DEF AccountsForLog
<1>9. SnapshotCountsLog
  <2>1. {i \in Published : log[i].verdict = "deny"} = {}
    BY <1>2
  <2> QED BY <1>2, <1>3, <1>4, <1>7, <2>1, FS_EmptySet DEF SnapshotCountsLog
<1>10. ActivityInOrder
  <2>1. ASSUME NEW k \in 1 .. Buckets
        PROVE  acc.activity[Buckets - k + 1] = Cardinality({i \in DOMAIN log : log[i].age = k - 1})
    <3>1. {i \in DOMAIN log : log[i].age = k - 1} = {}
      BY <1>2
    <3>2. Buckets - k + 1 \in 1 .. Buckets
      BY LimitsAssumption
    <3> QED BY <1>3, <3>1, <3>2, FS_EmptySet
  <2> QED BY <2>1 DEF ActivityInOrder
<1>11. FlowsInOnePlace
  BY <1>1, <1>2 DEF FlowsInOnePlace
<1>12. acc.activity \in [1 .. Buckets -> Nat] /\ Ring(published.activity)
  BY <1>1, <1>3, <1>4 DEF Ring
<1> QED
  BY <1>1, <1>2, <1>3, <1>8, <1>9, <1>10, <1>11, <1>12 DEF CountsInv

\* A flow that is handled is counted once and joins the log, unpublished.
LEMMA CountsAtHandle ==
    ASSUME CountsInv, BuffersOK, NamesOK, Handle
    PROVE  CountsInv'
<1> DEFINE n == Len(log)
           f == Head(EVENTS)
           host == LookupHost(f.ip)
           verdict == IF host \in DeniedHosts THEN "deny" ELSE "allow"
           e == [flow |-> f, host |-> host, verdict |-> verdict, age |-> 0]
<1>1. /\ EVENTS # <<>> /\ EVENTS' = Tail(EVENTS) /\ acc' = Record(f, host, verdict)
      /\ log' = Append(log, e) /\ UNCHANGED <<flows, published>>
  BY DEF Handle
<1>2. /\ f \in Flows /\ EVENTS' \in Seq(Flows) /\ Len(EVENTS) \in Nat
      /\ Len(EVENTS') = Len(EVENTS) - 1
  BY <1>1, TailOf DEF BuffersOK
<1>3. host \in Hosts \cup {NoName}
  BY DEF LookupHost, NamesOK, Entries
<1>4. verdict \in {"allow", "deny"}
  OBVIOUS
<1> HIDE DEF f, host, verdict
<1>5. e \in Evaluations /\ e.flow = f /\ e.host = host /\ e.verdict = verdict /\ e.age = 0
  <2>1. 0 \in 0 .. Buckets
    BY LimitsAssumption
  <2> QED BY <1>2, <1>3, <1>4, <2>1 DEF Evaluations
<1> HIDE DEF e
<1>6. log \in Seq(Evaluations) /\ n \in Nat /\ DOMAIN log = 1 .. n
  BY LogLabels DEF CountsInv
<1>7. /\ log' \in Seq(Evaluations) /\ Len(log') = n + 1 /\ DOMAIN log' = 1 .. n + 1
      /\ \A i \in 1 .. n : log'[i] = log[i]
      /\ log'[n + 1] = e
  BY <1>1, <1>5, <1>6, AppendOf
<1>8. 1 .. n + 1 = (1 .. n) \cup {n + 1} /\ n + 1 \notin 1 .. n
  BY <1>6
<1>9. /\ \A i \in 1 .. n : HostOf'[i] = HostOf[i] /\ ProcessOf'[i] = ProcessOf[i]
      /\ HostOf'[n + 1] = HostLabel(f, host) /\ ProcessOf'[n + 1] = ProcessLabel(f)
  <2>1. HostOf' = [i \in 1 .. n + 1 |-> HostLabel(log'[i].flow, log'[i].host)]
        /\ ProcessOf' = [i \in 1 .. n + 1 |-> ProcessLabel(log'[i].flow)]
    BY <1>7 DEF HostOf, ProcessOf
  <2>2. \A i \in 1 .. n : HostOf[i] = HostLabel(log[i].flow, log[i].host)
                          /\ ProcessOf[i] = ProcessLabel(log[i].flow)
    BY <1>6 DEF HostOf, ProcessOf
  <2> QED BY <1>5, <1>7, <1>8, <2>1, <2>2
<1>10. /\ DOMAIN acc' = DOMAIN NewAccumulator
       /\ acc'.total_events = acc.total_events + 1
       /\ acc'.total_allowed = acc.total_allowed + (IF verdict = "allow" THEN 1 ELSE 0)
       /\ acc'.total_denied = acc.total_denied + (IF verdict = "deny" THEN 1 ELSE 0)
       /\ acc'.per_process = Counted(acc.per_process, ProcessLabel(f))
       /\ acc'.per_host = Counted(acc.per_host, HostLabel(f, host))
       /\ acc'.activity = [acc.activity EXCEPT ![Buckets] = acc.activity[Buckets] + 1]
  BY <1>1, RecordIs DEF CountsInv
<1>11. AccountsForLog'
  <2> DEFINE A == {i \in 1 .. n : log[i].verdict = "deny"}
             B == {i \in 1 .. n + 1 : log'[i].verdict = "deny"}
  <2>1. B = IF verdict = "deny" THEN A \cup {n + 1} ELSE A
    BY <1>5, <1>7, <1>8
  <2>2. A \subseteq 1 .. n
    OBVIOUS
  <2>3. /\ acc.total_events = n /\ acc.total_allowed + acc.total_denied = acc.total_events
        /\ acc.total_denied = Cardinality(A) /\ acc.total_allowed \in Nat
    BY <1>6 DEF CountsInv, AccountsForLog
  <2>4. Tally(acc.per_host, 1 .. n, HostOf) /\ Tally(acc.per_process, 1 .. n, ProcessOf)
    BY <1>6 DEF CountsInv, AccountsForLog
  <2> HIDE DEF A, B
  <2>5. Tally(acc'.per_host, 1 .. n + 1, HostOf') /\ Tally(acc'.per_process, 1 .. n + 1, ProcessOf')
    <3>1. Tally(Counted(acc.per_host, HostOf'[n + 1]), 1 .. n + 1, HostOf')
      BY <1>6, <1>9, <2>4, TallyGrows
    <3>2. Tally(Counted(acc.per_process, ProcessOf'[n + 1]), 1 .. n + 1, ProcessOf')
      BY <1>6, <1>9, <2>4, TallyGrows
    <3> QED BY <1>9, <1>10, <3>1, <3>2
  <2>6. Cardinality(A) \in 0 .. n
    BY <1>6, <2>2, OneMore
  <2>7. Cardinality(A \cup {n + 1}) = Cardinality(A) + 1
    BY <1>6, <2>2, OneMore, Zenon
  <2>8. acc'.total_denied = Cardinality(B)
    <3>1. acc'.total_denied = Cardinality(A) + (IF verdict = "deny" THEN 1 ELSE 0)
      BY <1>10, <2>3
    <3> QED BY <2>1, <2>6, <2>7, <3>1
  <2>9. acc'.total_events = n + 1 /\ acc'.total_allowed + acc'.total_denied = acc'.total_events
    BY <1>4, <1>6, <1>10, <2>3, <2>6
  <2> QED BY <1>7, <2>5, <2>8, <2>9 DEF AccountsForLog, B
<1>12. SnapshotCountsLog'
  <2>1. Published' = Published /\ Published \subseteq 1 .. n
    BY <1>5, <1>6, <1>7, <1>8 DEF Published
  <2>2. \A i \in Published : /\ HostOf'[i] = HostOf[i] /\ ProcessOf'[i] = ProcessOf[i]
                             /\ log'[i] = log[i]
    BY <1>7, <1>9, <2>1
  <2>3. TopOf(published.top_hosts, Published, HostOf')
        /\ TopOf(published.top_processes, Published, ProcessOf')
    BY <2>2, TopOfSame DEF CountsInv, SnapshotCountsLog
  <2>4. {i \in Published : log'[i].verdict = "deny"} = {i \in Published : log[i].verdict = "deny"}
    BY <2>2
  <2> QED BY <1>1, <2>1, <2>3, <2>4 DEF CountsInv, SnapshotCountsLog
<1>13. acc'.activity \in [1 .. Buckets -> Nat] /\ Buckets \in Nat \ {0}
  BY <1>10, LimitsAssumption DEF CountsInv
<1>14. ActivityInOrder'
  <2>1. ASSUME NEW k \in 1 .. Buckets
        PROVE  acc'.activity[Buckets - k + 1] = Cardinality({i \in DOMAIN log' : log'[i].age = k - 1})
    <3> DEFINE A == {i \in 1 .. n : log[i].age = k - 1}
               B == {i \in 1 .. n + 1 : log'[i].age = k - 1}
               j == Buckets - k + 1
    <3>1. acc.activity[j] = Cardinality(A) /\ acc.activity \in [1 .. Buckets -> Nat]
      BY <1>6 DEF CountsInv, ActivityInOrder
    <3>2. j \in 1 .. Buckets /\ (k = 1 <=> j = Buckets)
      BY <1>13
    <3>3. B = IF k = 1 THEN A \cup {n + 1} ELSE A
      <4>1. e.age = k - 1 <=> k = 1
        BY <1>5, <1>13
      <4> QED BY <1>7, <1>8, <4>1
    <3>4. A \subseteq 1 .. n
      OBVIOUS
    <3>5. acc'.activity[j] = acc.activity[j] + (IF k = 1 THEN 1 ELSE 0)
      <4> HIDE DEF A, B
      <4>1. acc.activity[j] \in Nat
        BY <3>1, <3>2
      <4>2. acc'.activity[j] = IF j = Buckets THEN acc.activity[j] + 1 ELSE acc.activity[j]
        BY <1>10, <3>1, <3>2
      <4> HIDE DEF j
      <4> QED BY <3>2, <4>1, <4>2
    <3> HIDE DEF A, B, j
    <3>6. Cardinality(A) \in 0 .. n
      BY <1>6, <3>4, OneMore
    <3>7. Cardinality(A \cup {n + 1}) = Cardinality(A) + 1
      BY <1>6, <3>4, OneMore, Zenon
    <3>8. acc'.activity[j] = Cardinality(B)
      BY <3>1, <3>3, <3>5, <3>6, <3>7
    <3> QED BY <1>7, <3>8 DEF B, j
  <2> QED BY <2>1 DEF ActivityInOrder
<1>15. FlowsInOnePlace'
  BY <1>1, <1>2, <1>6, <1>7 DEF CountsInv, FlowsInOnePlace
<1>16. acc'.total_allowed \in Nat /\ Ring(published.activity)'
  BY <1>1, <1>10 DEF CountsInv, Ring
<1> QED
  BY <1>7, <1>10, <1>11, <1>12, <1>13, <1>14, <1>15, <1>16 DEF CountsInv

\* A tick publishes the whole log, and turns the ring by one second.
LEMMA CountsAtTick ==
    ASSUME CountsInv, BuffersOK, LoopOK, Tick
    PROVE  CountsInv'
<1> DEFINE n == Len(log)
           Older(a) == IF a + 1 < Buckets THEN a + 1 ELSE Buckets
<1>1. /\ due > 0 /\ due' = due - 1
      /\ acc' = [acc EXCEPT !.activity = Rotate(acc.activity)]
      /\ published' = Snapshot(acc') /\ log' = Aged(due - due')
      /\ UNCHANGED <<EVENTS, flows>>
  BY DEF Tick, kernel
<1>2. /\ log \in Seq(Evaluations) /\ n \in Nat /\ DOMAIN log = 1 .. n /\ IsFiniteSet(DOMAIN log)
      /\ Buckets \in Nat \ {0}
  BY LogLabels, LimitsAssumption DEF CountsInv
<1>3. log' = [i \in 1 .. n |-> [log[i] EXCEPT !.age = Older(log[i].age)]]
  <2>1. due - due' = 1
    BY <1>1 DEF LoopOK
  <2> QED BY <1>1, <1>2, <2>1 DEF Aged
<1>4. ASSUME NEW i \in 1 .. n
      PROVE  /\ log'[i] \in Evaluations /\ log'[i].age = Older(log[i].age)
             /\ log'[i].flow = log[i].flow /\ log'[i].host = log[i].host
             /\ log'[i].verdict = log[i].verdict
             /\ log[i].age \in 0 .. Buckets
  <2>1. log[i] \in Evaluations
    BY <1>2
  <2>2. log'[i] = [log[i] EXCEPT !.age = Older(log[i].age)]
    BY <1>3
  <2>3. log[i].age \in 0 .. Buckets /\ Older(log[i].age) \in 0 .. Buckets
    BY <1>2, <2>1 DEF Evaluations
  <2> HIDE DEF Older
  <2> QED BY <2>1, <2>2, <2>3 DEF Evaluations
<1>5. log' \in Seq(Evaluations) /\ DOMAIN log' = 1 .. n /\ Len(log') = n
  <2>1. log' \in [1 .. n -> Evaluations]
    BY <1>3, <1>4
  <2> QED BY <1>2, <2>1
<1>6. HostOf' = HostOf /\ ProcessOf' = ProcessOf
  BY <1>2, <1>4, <1>5 DEF HostOf, ProcessOf
<1>7. Published' = DOMAIN log
  <2>1. ASSUME NEW i \in 1 .. n PROVE log'[i].age > 0
    BY <1>2, <1>4
  <2> QED BY <1>2, <1>5, <2>1 DEF Published
<1>8. {i \in 1 .. n : log'[i].verdict = "deny"} = {i \in 1 .. n : log[i].verdict = "deny"}
  BY <1>4
<1>9. /\ DOMAIN acc' = DOMAIN acc
      /\ acc'.total_events = acc.total_events /\ acc'.total_allowed = acc.total_allowed
      /\ acc'.total_denied = acc.total_denied
      /\ acc'.per_host = acc.per_host /\ acc'.per_process = acc.per_process
      /\ acc'.activity = Rotate(acc.activity)
  BY <1>1 DEF CountsInv, NewAccumulator
<1>10. AccountsForLog'
  BY <1>2, <1>5, <1>6, <1>8, <1>9 DEF CountsInv, AccountsForLog
<1>11. /\ published'.total_events = acc'.total_events
       /\ published'.total_allowed = acc'.total_allowed
       /\ published'.total_denied = acc'.total_denied
       /\ published'.top_hosts = Top(acc'.per_host)
       /\ published'.top_processes = Top(acc'.per_process)
       /\ published'.activity = acc'.activity
  BY <1>1 DEF Snapshot
<1>12. SnapshotCountsLog'
  <2>1. Cardinality(1 .. n) = n
    BY <1>2, FS_Interval
  <2>2. /\ acc'.total_events = n /\ acc'.total_allowed + acc'.total_denied = acc'.total_events
        /\ acc'.total_denied = Cardinality({i \in 1 .. n : log'[i].verdict = "deny"})
        /\ Tally(acc'.per_host, 1 .. n, HostOf) /\ Tally(acc'.per_process, 1 .. n, ProcessOf)
    BY <1>5, <1>6, <1>10 DEF AccountsForLog
  <2>3. \A i \in 1 .. n : HostOf[i] \in Nat /\ ProcessOf[i] \in Nat
    BY <1>2, LogLabels
  <2>4. TopOf(Top(acc'.per_host), 1 .. n, HostOf)
        /\ TopOf(Top(acc'.per_process), 1 .. n, ProcessOf)
    BY <1>2, <2>2, <2>3, TopOfTally
  <2> QED BY <1>2, <1>6, <1>7, <1>11, <2>1, <2>2, <2>4 DEF SnapshotCountsLog
<1>13. /\ acc'.activity \in [1 .. Buckets -> Nat]
       /\ acc'.activity[Buckets] = 0
       /\ \A j \in 1 .. Buckets - 1 : acc'.activity[j] = acc.activity[j + 1]
  <2> DEFINE a == acc.activity
             b == Append(a, 0)
  <2>1. a \in Seq(Nat) /\ Len(a) = Buckets /\ 0 \in Nat
    BY <1>2 DEF CountsInv
  <2> HIDE DEF a
  <2>2. /\ b \in Seq(Nat) /\ Len(b) = Buckets + 1 /\ b[Buckets + 1] = 0
        /\ \A j \in 1 .. Buckets : b[j] = a[j]
    BY <2>1, AppendOf
  <2> HIDE DEF b
  <2>3. b # <<>>
    BY <1>2, <2>2
  <2>4. /\ Tail(b) \in Seq(Nat) /\ Len(Tail(b)) = Buckets
        /\ \A j \in 1 .. Buckets : Tail(b)[j] = b[j + 1]
    BY <1>2, <2>2, <2>3, TailOf
  <2>5. acc'.activity = Tail(b)
    BY <1>9 DEF Rotate, a, b
  <2>6. Tail(b) \in [1 .. Buckets -> Nat]
    <3> DEFINE t == Tail(b)
    <3>1. t \in Seq(Nat) /\ Len(t) = Buckets
      BY <2>4
    <3> HIDE DEF t
    <3>2. t \in [1 .. Buckets -> Nat]
      BY <3>1
    <3> QED BY <3>2 DEF t
  <2>7. \A j \in 1 .. Buckets - 1 : Tail(b)[j] = a[j + 1]
    BY <1>2, <2>2, <2>4
  <2>8. Tail(b)[Buckets] = 0
    BY <1>2, <2>2, <2>4
  <2> QED BY <2>5, <2>6, <2>7, <2>8 DEF a
<1>14. ASSUME NEW k \in 1 .. Buckets
       PROVE  acc'.activity[Buckets - k + 1] = Cardinality({i \in DOMAIN log' : log'[i].age = k - 1})
  <2> DEFINE B == {i \in DOMAIN log' : log'[i].age = k - 1}
  <2>1. CASE k = 1
    <3>1. B = {}
      BY <1>2, <1>4, <1>5, <2>1
    <3>2. Buckets - k + 1 = Buckets
      BY <1>2, <2>1
    <3> QED BY <1>13, <3>1, <3>2, FS_EmptySet
  <2>2. CASE k # 1
    <3> DEFINE h == k - 1
               A == {i \in DOMAIN log : log[i].age = h - 1}
    <3>1. h \in 1 .. Buckets /\ Buckets - k + 1 \in 1 .. Buckets - 1
          /\ (Buckets - k + 1) + 1 = Buckets - h + 1
      BY <1>2, <2>2
    <3>2. acc.activity[Buckets - h + 1] = Cardinality(A)
      BY <3>1 DEF CountsInv, ActivityInOrder
    <3>3. B = A
      <4>1. ASSUME NEW i \in 1 .. n PROVE log'[i].age = k - 1 <=> log[i].age = h - 1
        BY <1>2, <1>4
      <4> QED BY <1>2, <1>5, <4>1
    <3> QED BY <1>13, <3>1, <3>2, <3>3
  <2> QED BY <2>1, <2>2
<1>15. Ring(published.activity)'
  <2>1. ASSUME NEW j \in 1 .. Buckets PROVE acc'.activity[j] \in 0 .. flows'
    <3> DEFINE k == Buckets - j + 1
               B == {i \in DOMAIN log' : log'[i].age = k - 1}
    <3>1. k \in 1 .. Buckets /\ Buckets - k + 1 = j
      BY <1>2
    <3>2. acc'.activity[j] = Cardinality(B)
      BY <1>14, <3>1
    <3>3. B \subseteq 1 .. n
      BY <1>5
    <3> HIDE DEF B
    <3>4. Cardinality(B) \in 0 .. n
      BY <1>2, <3>3, OneMore
    <3>5. n <= flows' /\ flows' \in Nat
      BY <1>1, <1>2 DEF CountsInv, FlowsInOnePlace, BuffersOK
    <3> QED BY <1>2, <3>2, <3>4, <3>5
  <2> QED BY <1>11, <1>13, <2>1 DEF Ring
<1>16. FlowsInOnePlace' /\ acc'.total_allowed \in Nat
  BY <1>1, <1>5, <1>9 DEF CountsInv, FlowsInOnePlace
<1> QED
  BY <1>5, <1>9, <1>10, <1>12, <1>13, <1>14, <1>15, <1>16 DEF CountsInv, ActivityInOrder

\* The counts keep to the invariant at every step.
LEMMA CountsStay ==
    ASSUME CountsInv, BuffersOK, LoopOK, NamesOK, [Next]_vars
    PROVE  CountsInv'
<1>1. ASSUME UNCHANGED stats, flows' \in Nat, flows' >= flows, FlowsInOnePlace'
      PROVE  CountsInv'
  <2>1. UNCHANGED <<acc, published, log>>
    BY <1>1 DEF stats
  <2>2. AccountsForLog' /\ SnapshotCountsLog' /\ ActivityInOrder'
    BY <2>1 DEF CountsInv, AccountsForLog, SnapshotCountsLog, ActivityInOrder, Published,
                HostOf, ProcessOf
  <2>3. Ring(published.activity)'
    <3>1. 0 .. flows \subseteq 0 .. flows'
      BY <1>1 DEF BuffersOK
    <3> QED BY <2>1, <3>1 DEF CountsInv, Ring
  <2> QED BY <1>1, <2>1, <2>2, <2>3 DEF CountsInv
<1>2. ASSUME NEW f \in Flows, Report(f) PROVE CountsInv'
  <2>1. UNCHANGED stats /\ flows' = flows + 1 /\ EVENTS' = Append(EVENTS, f)
    BY <1>2 DEF Report
  <2>2. Len(EVENTS') = Len(EVENTS) + 1 /\ Len(EVENTS) \in Nat /\ Len(log) \in Nat
    BY <2>1, LogLabels DEF BuffersOK, CountsInv
  <2>3. FlowsInOnePlace'
    BY <2>1, <2>2 DEF CountsInv, FlowsInOnePlace, stats
  <2>4. flows' \in Nat /\ flows' >= flows
    BY <2>1 DEF BuffersOK
  <2> QED BY <1>1, <2>1, <2>3, <2>4
<1>3. ASSUME UNCHANGED <<stats, flows, EVENTS>> PROVE CountsInv'
  <2>1. FlowsInOnePlace' /\ flows' \in Nat /\ flows' >= flows
    BY <1>3 DEF CountsInv, FlowsInOnePlace, stats, BuffersOK
  <2> QED BY <1>1, <1>3, <2>1
<1>4. CASE (\E p \in Packets : Capture(p)) \/ CaptureFails \/ EndCaptures \/ UNCHANGED vars
  BY <1>3, <1>4 DEF Capture, CaptureFails, EndCaptures, EndCapture, vars, kernel
<1>5. CASE Pass \/ TurnDriver \/ StartDns \/ TakePacket \/ EndDns \/ StartEvents \/ EndEvents
           \/ Announce \/ Reload
  BY <1>3, <1>5 DEF Pass, TurnDriver, StartDns, TakePacket, EndDns, StartEvents, EndEvents,
                    Announce, Reload, kernel
<1> QED
  BY <1>2, <1>4, <1>5, CountsAtHandle, CountsAtTick DEF Next, Hooks, Daemon

---------------------------------------------------------------------------
(* The theorems                                                            *)

LEMMA InitOK ==
    ASSUME Init
    PROVE  BuffersOK /\ LoopOK /\ NamesInv
<1>1. BuffersOK
  BY LimitsAssumption DEF Init, BuffersOK
<1>2. LoopOK
  <2>1. 0 \in 0 .. Grain - 1 /\ 1 \in 0 .. MaxLag
    BY LimitsAssumption
  <2>2. dns_ready \in BOOLEAN /\ ev_ready \in BOOLEAN /\ rules_rx \in BOOLEAN
    BY Zenon DEF Init
  <2> QED BY <2>1, <2>2 DEF Init, LoopOK
<1>3. Nothing \in Entries /\ Nothing.left = 0
  BY DEF Nothing, Entries
<1>4. DOMAIN dns_cache = {}
  BY DEF Init
<1>5. NamesInv
  BY <1>3, <1>4 DEF Init, NamesInv, NamesOK, CacheIsHeard, PromisesHold
<1> QED
  BY <1>1, <1>2, <1>5

\* The inductive invariant of the select loop: the cache is what was heard, a
\* promised answer is cached or will be before the events arm is polled, and the
\* counters, their snapshot and the ring agree with the log.
THEOREM Invariant == Spec => []IInv
<1> DEFINE I == BuffersOK /\ LoopOK /\ NamesInv /\ CountsInv
<1>1. Init => I
  BY InitOK, CountsInit
<1>2. I /\ [Next]_vars => I'
  BY BuffersStay, LoopStays, NamesStay, CountsStay DEF NamesInv
<1>3. I => IInv
  BY CountsInRange DEF IInv, TypeOK, NamesInv, CountsInv
<1> QED
  BY <1>1, <1>2, <1>3, PTL DEF Spec

\* Each variable of the select loop stays in its range.
THEOREM TypeCorrect == Spec => []TypeOK
<1>1. IInv => TypeOK
  BY DEF IInv
<1> QED
  BY <1>1, Invariant, PTL

\* A flow is evaluated with a name if an answer for its address could be read
\* before the turn of the driver that woke the events arm: the biased select
\* drains the DNS arm first, and no tick evicts what is not over.
THEOREM NamedFlows == Spec => []FlowsAreNamed
<1>1. IInv => FlowsAreNamed
  <2> SUFFICES ASSUME IInv, main = "events", NEW ip \in Ips \ {UnspecifiedIp}, promised[ip] > 0
               PROVE  LookupHost(ip) # NoName
    BY DEF FlowsAreNamed
  <2>1. ~ dns_ready /\ NamesKept(ip)
    BY DEF IInv, PromisesHold
  <2>2. promised[ip] \in Nat /\ dns_cache[ip] \in Entries
    BY <2>1 DEF IInv, TypeOK, NamesOK, NamesKept
  <2>3. dns_cache[ip].left \in Nat /\ dns_cache[ip].left > 0
    BY <2>1, <2>2 DEF NamesKept, Entries
  <2> QED BY <2>1, <2>3 DEF NamesKept, LookupHost
<1> QED
  BY <1>1, Invariant, PTL

\* lookup_host gives the name of the last answer that was ingested while its TTL
\* is not over, and no name after that, whenever the eviction comes.
THEOREM CurrentNames == Spec => []NamesAreCurrent
<1>1. IInv => NamesAreCurrent
  <2> SUFFICES ASSUME IInv, NEW ip \in Ips \ {UnspecifiedIp}
               PROVE  LookupHost(ip) = IF heard[ip].left > 0 THEN heard[ip].hostname ELSE NoName
    BY DEF NamesAreCurrent
  <2>1. IF ip \in DOMAIN dns_cache THEN dns_cache[ip] = heard[ip] ELSE heard[ip].left = 0
    BY DEF IInv, CacheIsHeard
  <2> QED BY <2>1 DEF LookupHost
<1> QED
  BY <1>1, Invariant, PTL

\* A snapshot that clients read counts the flows up to the last tick, in all and
\* by verdict, and lists the most frequent hosts and processes in order.
THEOREM SnapshotsAreCounts == Spec => []SnapshotCountsLog
<1>1. IInv => SnapshotCountsLog
  BY DEF IInv
<1> QED
  BY <1>1, Invariant, PTL

\* Each bucket of the ring counts the flows of its own second, also when ticks
\* were overdue.
THEOREM SecondsInOrder == Spec => []ActivityInOrder
<1>1. IInv => ActivityInOrder
  BY DEF IInv
<1> QED
  BY <1>1, Invariant, PTL
=============================================================================
