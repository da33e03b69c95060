---------------------------- MODULE TuiAppProofs ----------------------------
(***************************************************************************)
(* Proofs about TuiApp, for every set of facts, every table size and any   *)
(* number of events and requests.                                          *)
(***************************************************************************)
EXTENDS TuiApp, Lemmas, FiniteSetTheorems

---------------------------------------------------------------------------
(* Facts and rows                                                          *)

\* What the assumption on the facts says of one of them.
LEMMA FactTyped ==
    /\ \A f \in Facts : f.exe \in Seq(STRING) /\ f.host \in Seq(STRING)
                        /\ f.ip \in Seq(STRING) /\ f.ip # Nothing
    /\ Nothing \notin Facts
<1>1. \A f \in Facts : DOMAIN f # {}
  BY FactsAssumption
<1>2. DOMAIN Nothing = {}
  BY DEF Nothing
<1> QED
  BY <1>1, <1>2, FactsAssumption

\* The fields of a row.
LEMMA RowFields ==
    /\ \A r \in Rows : /\ r.facts \in Facts /\ r.verdict \in {"allow", "deny"}
                       /\ r.label \in {"none", "pending", "rule"}
                       /\ r.count \in 1 .. MaxPushes
    /\ \A f, v, l, n : LET r == Row(f, v, l, n)
                       IN r.facts = f /\ r.verdict = v /\ r.label = l /\ r.count = n
    /\ \A f \in Facts, v \in {"allow", "deny"}, l \in {"none", "pending", "rule"},
          n \in 1 .. MaxPushes : Row(f, v, l, n) \in Rows
  BY DEF Rows, Row

\* No row counts more events than were received.
LEMMA CountBound ==
    ASSUME TypeOK, RowsAddUp
    PROVE  \A i \in 1 .. Len(events) : events[i].count \in 1 .. pushes
<1> SUFFICES ASSUME NEW i \in 1 .. Len(events) PROVE events[i].count \in 1 .. pushes
  OBVIOUS
<1>1. events[i] \in Rows /\ Len(events) \in Nat /\ DOMAIN events = 1 .. Len(events)
  BY DEF TypeOK
<1>2. PICK t \in Totals : TRUE
  BY DEF RowsAddUp
<1>3. t[i] = t[i - 1] + events[i].count /\ t[i] \in 0 .. pushes /\ t[i - 1] \in 0 .. pushes
  BY <1>1, <1>2 DEF Totals
<1>4. events[i].count \in Nat /\ events[i].count >= 1 /\ pushes \in Nat
  BY <1>1, RowFields DEF TypeOK, Rows
<1> QED
  BY <1>3, <1>4

---------------------------------------------------------------------------
(* What push does                                                          *)

\* An event takes over row i, is a new row r, or a new row for which the first
\* one makes room.
Updates(i, r) ==
    /\ i \in 1 .. Len(events) /\ AggKey(events[i].facts) = AggKey(r.facts)
    /\ r.count = events[i].count + 1
    /\ events' = [events EXCEPT ![i] = r] /\ gone' = gone
IsNew(r) ==
    r.count = 1 /\ \A i \in 1 .. Len(events) : AggKey(events[i].facts) # AggKey(r.facts)
Adds(r) ==
    /\ IsNew(r) /\ Len(events) < MAX_EVENTS
    /\ events' = Append(events, r) /\ gone' = gone
Drops(r) ==
    /\ IsNew(r) /\ Len(events) = MAX_EVENTS
    /\ events' = Append(Tail(events), r) /\ gone' = gone + events[1].count

\* The row that an event decided by some rules is shown as.
RowFor(f, decided, r) ==
    LET denied == \E d \in decided : RuleMatches(d, FlowOf(f)) IN
    /\ r \in Rows /\ r.facts = f
    /\ r.verdict = (IF denied THEN "deny" ELSE "allow")
    /\ r.label = (IF denied THEN "rule" ELSE "none")

LEMMA PushCases ==
    ASSUME TypeOK, RowsAddUp, NEW f \in Facts, NEW decided, GetEvent(f, decided)
    PROVE  \E r : RowFor(f, decided, r) /\ (Adds(r) \/ Drops(r) \/ \E i : Updates(i, r))
<1> DEFINE denied == \E d \in decided : RuleMatches(d, FlowOf(f))
           v == IF denied THEN "deny" ELSE "allow"
           l == IF denied THEN "rule" ELSE "none"
           same == {i \in DOMAIN events : AggKey(events[i].facts) = AggKey(f)}
<1> USE DEF TypeOK
<1>1. v \in {"allow", "deny"} /\ l \in {"none", "pending", "rule"}
  OBVIOUS
<1>2. /\ pushes < MaxPushes /\ pushes \in Nat /\ MaxPushes \in Nat
      /\ events' = Pushed(f, v, l)
      /\ gone' = IF events = <<>> \/ Head(events) \in Kept(events')
                 THEN gone ELSE gone + Head(events).count
  BY BoundsAssumption DEF GetEvent
<1>3. \A r : RowFor(f, decided, r) <=> r \in Rows /\ r.facts = f /\ r.verdict = v /\ r.label = l
  BY DEF RowFor
<1> HIDE DEF v, l
<1>4. DOMAIN events = 1 .. Len(events) /\ Len(events) \in Nat /\ KeysAreUnique
  BY DEF RowsAddUp
<1>5. CASE same # {}
  <2>1. PICK i \in same : TRUE
    BY <1>5
  <2>2. i \in 1 .. Len(events) /\ AggKey(events[i].facts) = AggKey(f) /\ same = {i}
    BY <2>1, <1>4 DEF KeysAreUnique
  <2> DEFINE r == Row(f, v, l, events[i].count + 1)
  <2>3. r \in Rows /\ r.facts = f /\ r.verdict = v /\ r.label = l /\ r.count = events[i].count + 1
    <3>1. events[i].count + 1 \in 1 .. MaxPushes
      BY <2>2, <1>2, CountBound
    <3> QED BY <3>1, <1>1, RowFields
  <2>4. events' = [events EXCEPT ![i] = r]
    BY <2>2, <1>2, <1>4, <1>5 DEF Pushed
  <2> HIDE DEF r
  <2>5. gone' = gone
    <3>1. CASE events = <<>>
      BY <3>1, <1>2
    <3>2. CASE events # <<>>
      <4>1. Head(events) = events[1] /\ 1 \in 1 .. Len(events)
        BY <3>2, TailOf
      <4>2. DOMAIN events' = DOMAIN events /\ AggKey(events'[1].facts) = AggKey(events[1].facts)
        BY <2>2, <2>3, <2>4, <4>1, <1>4
      <4>3. events[1] \in Kept(events')
        BY <4>1, <4>2, <1>4 DEF Kept, ToSet
      <4> QED BY <4>1, <4>3, <1>2
    <3> QED BY <3>1, <3>2
  <2>6. Updates(i, r)
    BY <2>2, <2>3, <2>4, <2>5 DEF Updates
  <2> QED BY <2>3, <2>6, <1>3
<1>6. CASE same = {}
  <2> DEFINE r == Row(f, v, l, 1)
  <2>1. r \in Rows /\ r.facts = f /\ r.verdict = v /\ r.label = l /\ r.count = 1
    <3>1. 1 \in 1 .. MaxPushes
      BY <1>2
    <3> QED BY <3>1, <1>1, RowFields
  <2>2. events' = Append(IF Len(events) = MAX_EVENTS THEN Tail(events) ELSE events, r)
    BY <1>2, <1>6 DEF Pushed
  <2> HIDE DEF r
  <2>3. IsNew(r)
    BY <2>1, <1>4, <1>6 DEF IsNew
  <2>4. CASE Len(events) = MAX_EVENTS
    <3>1. events # <<>> /\ Len(events) \in Nat \ {0}
      BY <2>4, BoundsAssumption
    <3>2. /\ Tail(events) \in Seq(Rows) /\ Head(events) = events[1]
          /\ Len(Tail(events)) = Len(events) - 1
          /\ \A i \in 1 .. Len(events) - 1 : Tail(events)[i] = events[i + 1]
      BY <3>1, TailOf
    <3>3. /\ Len(events') = Len(events) /\ events' \in Seq(Rows)
          /\ \A i \in 1 .. Len(events) - 1 : events'[i] = events[i + 1]
          /\ events'[Len(events)] = r
      <4>1. events' = Append(Tail(events), r)
        BY <2>2, <2>4
      <4>2. /\ events' \in Seq(Rows) /\ Len(events') = Len(Tail(events)) + 1
            /\ \A i \in 1 .. Len(Tail(events)) : events'[i] = Tail(events)[i]
            /\ events'[Len(Tail(events)) + 1] = r
        BY <4>1, <3>2, <2>1, AppendOf
      <4> QED BY <3>1, <3>2, <4>2
    <3>4. Head(events) \notin Kept(events')
      <4> SUFFICES ASSUME NEW i \in 1 .. Len(events)
                   PROVE  AggKey(events'[i].facts) # AggKey(events[1].facts)
        <5>1. DOMAIN events' = 1 .. Len(events)
          BY <3>3, ElementsOf
        <5> QED BY <3>2, <5>1 DEF Kept
      <4>1. CASE i = Len(events)
        BY <4>1, <3>1, <3>3, <2>3 DEF IsNew
      <4>2. CASE i # Len(events)
        <5>1. events'[i] = events[i + 1] /\ i + 1 \in DOMAIN events /\ 1 \in DOMAIN events
              /\ i + 1 # 1
          BY <4>2, <3>1, <3>3, <1>4
        <5> QED BY <5>1, <1>4 DEF KeysAreUnique
      <4> QED BY <4>1, <4>2
    <3>5. Drops(r)
      BY <3>1, <3>2, <3>4, <2>2, <2>3, <2>4, <1>2 DEF Drops
    <3> QED BY <3>5, <2>1, <1>3
  <2>5. CASE Len(events) # MAX_EVENTS
    <3>1. Len(events) < MAX_EVENTS
      BY <2>5, BoundsAssumption
    <3>2. events' = Append(events, r)
      BY <2>2, <2>5
    <3>3. gone' = gone
      <4>1. CASE events = <<>>
        BY <4>1, <1>2
      <4>2. CASE events # <<>>
        <5>1. Head(events) = events[1] /\ 1 \in 1 .. Len(events)
          BY <4>2, TailOf
        <5>2. events'[1] = events[1] /\ 1 \in DOMAIN events'
          BY <5>1, <3>2, <2>1, AppendOf
        <5>3. events[1] \in Kept(events')
          BY <5>1, <5>2, <1>4 DEF Kept, ToSet
        <5> QED BY <5>1, <5>3, <1>2
      <4> QED BY <4>1, <4>2
    <3>4. Adds(r)
      BY <3>1, <3>2, <3>3, <2>3 DEF Adds
    <3> QED BY <3>4, <2>1, <1>3
  <2> QED BY <2>4, <2>5
<1> QED
  BY <1>5, <1>6

\* In each of the three cases the table stays a table, and its rows are those
\* it had and r.
LEMMA PushShape ==
    ASSUME TypeOK, NEW r \in Rows, Adds(r) \/ Drops(r) \/ \E i : Updates(i, r)
    PROVE  /\ events' \in Seq(Rows) /\ Len(events') <= MAX_EVENTS
           /\ Len(events) <= Len(events')
           /\ \A j \in 1 .. Len(events') :
                 events'[j] = r \/ \E k \in 1 .. Len(events) : events'[j] = events[k]
           /\ \E j \in 1 .. Len(events') : events'[j] = r
<1>1. events \in Seq(Rows) /\ Len(events) \in Nat /\ Len(events) <= MAX_EVENTS
      /\ MAX_EVENTS \in Nat \ {0}
  BY BoundsAssumption DEF TypeOK
<1>2. ASSUME NEW i, Updates(i, r) PROVE /\ Len(events') = Len(events)
                                       /\ events' \in Seq(Rows) /\ events'[i] = r
                                       /\ i \in 1 .. Len(events)
                                       /\ \A j \in 1 .. Len(events) \ {i} : events'[j] = events[j]
  BY <1>1, <1>2 DEF Updates
<1>3. CASE \E i : Updates(i, r)
  BY <1>1, <1>2, <1>3
<1>4. CASE Adds(r)
  <2>1. /\ events' \in Seq(Rows) /\ Len(events') = Len(events) + 1
        /\ \A j \in 1 .. Len(events) : events'[j] = events[j]
        /\ events'[Len(events) + 1] = r
    BY <1>1, <1>4, AppendOf DEF Adds
  <2> QED BY <1>1, <1>4, <2>1 DEF Adds
<1>5. CASE Drops(r)
  <2>1. events # <<>>
    BY <1>1, <1>5 DEF Drops
  <2>2. /\ Tail(events) \in Seq(Rows) /\ Len(Tail(events)) = Len(events) - 1
        /\ \A j \in 1 .. Len(events) - 1 : Tail(events)[j] = events[j + 1]
    BY <1>1, <2>1, TailOf
  <2>3. /\ events' \in Seq(Rows) /\ Len(events') = Len(events)
        /\ \A j \in 1 .. Len(events) - 1 : events'[j] = events[j + 1]
        /\ events'[Len(events)] = r
    BY <1>1, <1>5, <2>2, AppendOf DEF Drops
  <2> QED BY <1>1, <2>1, <2>3
<1> QED
  BY <1>3, <1>4, <1>5

\* An event keeps the keys apart and the totals right.
LEMMA PushAddsUp ==
    ASSUME TypeOK, RowsAddUp, NEW r \in Rows, pushes' = pushes + 1,
           Adds(r) \/ Drops(r) \/ \E i : Updates(i, r)
    PROVE  KeysAreUnique' /\ (\E t \in Totals : t[Len(events)] = pushes)' /\ gone' \in 0 .. pushes'
<1>1. /\ events \in Seq(Rows) /\ Len(events) \in Nat /\ Len(events) <= MAX_EVENTS
      /\ DOMAIN events = 1 .. Len(events)
      /\ MAX_EVENTS \in Nat \ {0} /\ pushes \in Nat /\ gone \in 0 .. pushes
      /\ KeysAreUnique
  BY BoundsAssumption DEF TypeOK, RowsAddUp
<1>2. PICK t \in Totals : t[Len(events)] = pushes
  BY DEF RowsAddUp
<1>3. /\ t \in [0 .. Len(events) -> 0 .. pushes] /\ t[0] = gone
      /\ \A j \in 1 .. Len(events) : t[j] = t[j - 1] + events[j].count
  BY <1>1, <1>2 DEF Totals
<1>4. \A j \in 1 .. Len(events) : events[j].count \in 1 .. pushes
  BY CountBound
<1>5. ASSUME NEW i, Updates(i, r)
      PROVE  KeysAreUnique' /\ (\E u \in Totals : u[Len(events)] = pushes)' /\ gone' \in 0 .. pushes'
  <2>1. /\ i \in 1 .. Len(events) /\ Len(events') = Len(events) /\ events'[i] = r
        /\ \A j \in 1 .. Len(events) \ {i} : events'[j] = events[j]
        /\ DOMAIN events' = 1 .. Len(events)
        /\ gone' = gone /\ r.count = events[i].count + 1
        /\ AggKey(events[i].facts) = AggKey(r.facts)
    BY <1>1, <1>5 DEF Updates
  <2>2. \A j \in 1 .. Len(events) : AggKey(events'[j].facts) = AggKey(events[j].facts)
    BY <2>1
  <2>3. KeysAreUnique'
    BY <1>1, <2>1, <2>2 DEF KeysAreUnique
  <2> DEFINE u == [j \in 0 .. Len(events) |-> IF j < i THEN t[j] ELSE t[j] + 1]
  <2>4. u \in [0 .. Len(events') -> 0 .. pushes'] /\ u[0] = gone' /\ u[Len(events')] = pushes'
    BY <1>1, <1>2, <1>3, <2>1
  <2>5. \A j \in 1 .. Len(events) : u[j] = u[j - 1] + events'[j].count
    <3> SUFFICES ASSUME NEW j \in 1 .. Len(events) PROVE u[j] = u[j - 1] + events'[j].count
      OBVIOUS
    <3>1. j \in 0 .. Len(events) /\ j - 1 \in 0 .. Len(events)
          /\ t[j] \in Nat /\ t[j - 1] \in Nat /\ events[j].count \in Nat
      <4> HIDE DEF u
      <4>1. j \in 0 .. Len(events) /\ j - 1 \in 0 .. Len(events)
        BY <1>1
      <4>2. \A n \in 0 .. Len(events) : t[n] \in Nat
        BY <1>1, <1>3
      <4>3. events[j].count \in Nat
        BY <1>1, <1>4
      <4> QED BY <4>1, <4>2, <4>3
    <3>2. CASE j = i
      BY <1>3, <2>1, <3>1, <3>2
    <3>3. CASE j # i
      <4>1. events'[j] = events[j]
        BY <2>1, <3>3
      <4> QED BY <1>3, <2>1, <3>1, <3>3, <4>1
    <3> QED BY <3>2, <3>3
  <2>6. u \in Totals'
    BY <2>1, <2>4, <2>5 DEF Totals
  <2> QED BY <1>1, <2>1, <2>3, <2>4, <2>6
<1>6. CASE Adds(r)
  <2>1. /\ Len(events') = Len(events) + 1
        /\ \A j \in 1 .. Len(events) : events'[j] = events[j]
        /\ events'[Len(events) + 1] = r /\ events' \in Seq(Rows)
    BY <1>1, <1>6, AppendOf DEF Adds
  <2>2. DOMAIN events' = 1 .. Len(events) + 1 /\ gone' = gone /\ IsNew(r)
    BY <2>1, <1>6 DEF Adds
  <2>3. KeysAreUnique'
    BY <1>1, <2>1, <2>2 DEF KeysAreUnique, IsNew
  <2> DEFINE u == [j \in 0 .. Len(events) + 1 |-> IF j <= Len(events) THEN t[j] ELSE pushes + 1]
  <2>4. u \in [0 .. Len(events') -> 0 .. pushes'] /\ u[0] = gone' /\ u[Len(events')] = pushes'
    BY <1>1, <1>2, <1>3, <2>1, <2>2
  <2>5. \A j \in 1 .. Len(events) + 1 : u[j] = u[j - 1] + events'[j].count
    <3> SUFFICES ASSUME NEW j \in 1 .. Len(events) + 1 PROVE u[j] = u[j - 1] + events'[j].count
      OBVIOUS
    <3>1. CASE j = Len(events) + 1
      BY <1>1, <1>2, <2>1, <2>2, <3>1 DEF IsNew
    <3>2. CASE j # Len(events) + 1
      <4>1. j \in 1 .. Len(events) /\ j \in 0 .. Len(events) + 1 /\ j - 1 \in 0 .. Len(events) + 1
            /\ j <= Len(events) /\ j - 1 <= Len(events)
        BY <1>1, <3>2
      <4>2. u[j] = t[j] /\ u[j - 1] = t[j - 1] /\ events'[j] = events[j]
        BY <2>1, <4>1
      <4> QED BY <1>3, <4>1, <4>2
    <3> QED BY <3>1, <3>2
  <2>6. u \in Totals'
    BY <2>1, <2>2, <2>4, <2>5 DEF Totals
  <2> QED BY <1>1, <2>2, <2>3, <2>4, <2>6
<1>7. CASE Drops(r)
  <2>1. events # <<>> /\ Len(events) \in Nat \ {0}
    BY <1>1, <1>7 DEF Drops
  <2>2. /\ Tail(events) \in Seq(Rows) /\ Len(Tail(events)) = Len(events) - 1
        /\ \A j \in 1 .. Len(events) - 1 : Tail(events)[j] = events[j + 1]
    BY <1>1, <2>1, TailOf
  <2>3. /\ Len(events') = Len(events) /\ DOMAIN events' = 1 .. Len(events)
        /\ \A j \in 1 .. Len(events) - 1 : events'[j] = events[j + 1]
        /\ events'[Len(events)] = r
    BY <1>1, <1>7, <2>2, AppendOf DEF Drops
  <2>4. gone' = gone + events[1].count /\ IsNew(r)
    BY <1>7 DEF Drops
  <2>5. KeysAreUnique'
    <3> SUFFICES ASSUME NEW i \in 1 .. Len(events), NEW j \in 1 .. Len(events), i < j
                 PROVE  AggKey(events'[i].facts) # AggKey(events'[j].facts)
      BY <1>1, <2>3 DEF KeysAreUnique
    <3>1. events'[i] = events[i + 1] /\ i + 1 \in 1 .. Len(events)
      BY <2>1, <2>3
    <3>2. CASE j = Len(events)
      BY <2>3, <2>4, <3>1, <3>2 DEF IsNew
    <3>3. CASE j # Len(events)
      <4>1. j \in 1 .. Len(events) - 1 /\ j + 1 \in 1 .. Len(events) /\ i + 1 # j + 1
        BY <2>1, <3>3, SMTT(20)
      <4>2. events'[j] = events[j + 1]
        BY <2>3, <4>1
      <4> QED BY <1>1, <3>1, <4>1, <4>2 DEF KeysAreUnique
    <3> QED BY <3>2, <3>3
  <2> DEFINE u == [j \in 0 .. Len(events) |-> IF j < Len(events) THEN t[j + 1] ELSE pushes + 1]
  <2>6. t[1] = gone + events[1].count /\ t[1] \in 0 .. pushes
    BY <1>3, <2>1
  <2>7. u \in [0 .. Len(events') -> 0 .. pushes'] /\ u[0] = gone' /\ u[Len(events')] = pushes'
    BY <1>1, <1>3, <2>1, <2>3, <2>4, <2>6
  <2>8. \A j \in 1 .. Len(events) : u[j] = u[j - 1] + events'[j].count
    <3> SUFFICES ASSUME NEW j \in 1 .. Len(events) PROVE u[j] = u[j - 1] + events'[j].count
      OBVIOUS
    <3>1. CASE j = Len(events)
      BY <1>1, <1>2, <1>3, <2>1, <2>3, <2>4, <3>1 DEF IsNew
    <3>2. CASE j # Len(events)
      <4>1. /\ j \in 1 .. Len(events) - 1 /\ j + 1 \in 1 .. Len(events) /\ j < Len(events)
            /\ j - 1 < Len(events) /\ j - 1 \in 0 .. Len(events) /\ j \in 0 .. Len(events)
            /\ (j - 1) + 1 = j /\ (j + 1) - 1 = j
        BY <2>1, <3>2, SMTT(20)
      <4>2. events'[j] = events[j + 1]
        BY <2>3, <4>1
      <4>3. t[j + 1] = t[j] + events[j + 1].count
        BY <1>3, <4>1
      <4>4. u[j] = t[j + 1] /\ u[j - 1] = t[j]
        BY <4>1
      <4> QED BY <4>2, <4>3, <4>4
    <3> QED BY <3>1, <3>2
  <2>9. u \in Totals'
    BY <2>3, <2>7, <2>8 DEF Totals
  <2> QED BY <1>1, <2>4, <2>5, <2>6, <2>7, <2>9
<1> QED
  BY <1>5, <1>6, <1>7

---------------------------------------------------------------------------
(* The invariant                                                           *)

LEMMA InvariantInit == Init => IInv
<1> SUFFICES ASSUME Init PROVE IInv
  OBVIOUS
<1> USE DEF Init
<1>1. TypeOK
  <2>1. MAX_EVENTS \in Nat /\ MaxRules \in Nat /\ MaxFilter \in Nat /\ MaxPushes \in Nat
    BY BoundsAssumption
  <2>2. <<>> \in Seq(Rows) /\ <<>> \in Seq(Alphabet) /\ Len(<<>>) = 0
    OBVIOUS
  <2>3. rules \in 0 .. MaxRules /\ rules_state \in 0 .. rules
        /\ gone \in 0 .. pushes /\ pushes \in 0 .. MaxPushes
    BY <2>1
  <2>4. follow \in BOOLEAN /\ filter_mode \in BOOLEAN
    OBVIOUS
  <2>5. events \in Seq(Rows) /\ Len(events) <= MAX_EVENTS /\ state \in 0 .. Len(events)
        /\ filter \in Seq(Alphabet) /\ Len(filter) <= MaxFilter
    BY <2>1, <2>2
  <2> QED BY <2>3, <2>4, <2>5 DEF TypeOK
<1>2. RowsAddUp
  <2> DEFINE t == [i \in {0} |-> 0]
  <2>1. Len(events) = 0 /\ DOMAIN events = {} /\ 0 .. Len(events) = {0} /\ 0 .. pushes = {0}
    OBVIOUS
  <2>2. t \in Totals /\ t[Len(events)] = pushes
    BY <2>1 DEF Totals
  <2> HIDE DEF t
  <2> QED BY <2>1, <2>2 DEF RowsAddUp, KeysAreUnique
<1>3. MarksAreSound
  BY DEF MarksAreSound
<1> QED
  BY <1>1, <1>2, <1>3 DEF IInv, PromptsInLiveView, PickIsModal

\* An event that arrives.
LEMMA InvariantGetEvent ==
    ASSUME IInv, NEW f \in Facts, NEW decided \in SUBSET loaded, GetEvent(f, decided)
    PROVE  IInv'
<1>1. TypeOK /\ RowsAddUp /\ MarksAreSound /\ PromptsInLiveView /\ PickIsModal
  BY DEF IInv
<1>2. /\ pushes < MaxPushes /\ pushes' = pushes + 1 /\ latest' = f
      /\ state' = (IF follow THEN Len(events') ELSE state)
      /\ UNCHANGED <<follow, filter, filter_mode, modal, listing, view, daemon, picked>>
  BY DEF GetEvent
<1>3. PICK r : RowFor(f, decided, r) /\ (Adds(r) \/ Drops(r) \/ \E i : Updates(i, r))
  BY <1>1, PushCases
<1>4. r \in Rows /\ r.facts = f
  BY <1>3 DEF RowFor
<1>5. /\ events' \in Seq(Rows) /\ Len(events') <= MAX_EVENTS
      /\ Len(events) <= Len(events')
      /\ \A j \in 1 .. Len(events') :
            events'[j] = r \/ \E k \in 1 .. Len(events) : events'[j] = events[k]
      /\ \E j \in 1 .. Len(events') : events'[j] = r
  BY <1>1, <1>3, <1>4, PushShape
<1>6. KeysAreUnique' /\ (\E t \in Totals : t[Len(events)] = pushes)' /\ gone' \in 0 .. pushes'
  BY <1>1, <1>2, <1>3, <1>4, PushAddsUp
<1>7. DOMAIN events' = 1 .. Len(events') /\ DOMAIN events = 1 .. Len(events)
  BY <1>1, <1>5 DEF TypeOK
<1>8. TypeOK'
  <2>1. pushes' \in 0 .. MaxPushes
    BY <1>1, <1>2, BoundsAssumption DEF TypeOK
  <2>2. state' \in 0 .. Len(events')
    BY <1>1, <1>2, <1>5 DEF TypeOK
  <2> QED BY <1>1, <1>2, <1>5, <1>6, <2>1, <2>2 DEF TypeOK, listing, daemon
<1>9. RowsAddUp'
  BY <1>2, <1>4, <1>5, <1>6, <1>7 DEF RowsAddUp
<1>10. MarksAreSound'
  <2>1. ASSUME NEW j \in 1 .. Len(events'), events'[j].verdict = "deny"
        PROVE  /\ events'[j].label # "none"
               /\ events'[j].facts.ip # UnspecifiedIp =>
                     \E d \in asked : RuleMatches(d, FlowOf(events'[j].facts))
    <3>1. CASE events'[j] = r
      <4>1. PICK d \in decided : RuleMatches(d, FlowOf(f))
        BY <1>3, <2>1, <3>1 DEF RowFor
      <4>2. d \in asked /\ r.label = "rule"
        BY <1>1, <1>3, <4>1 DEF RowFor, TypeOK
      <4> QED BY <1>4, <3>1, <4>1, <4>2
    <3>2. CASE \E k \in 1 .. Len(events) : events'[j] = events[k]
      BY <1>1, <1>7, <2>1, <3>2 DEF MarksAreSound
    <3> QED BY <1>5, <3>1, <3>2
  <2> QED BY <1>2, <1>7, <2>1 DEF MarksAreSound, daemon
<1> QED
  BY <1>1, <1>2, <1>8, <1>9, <1>10 DEF IInv, PromptsInLiveView, PickIsModal

\* A string ends with itself.
LEMMA SuffixOfItself == \A s \in Seq(STRING) : IsSuffix(s, s)
  BY DEF IsSuffix, IsPrefix, Reverse

\* The TUI's idea of which rows a rule will match errs on one side only: what
\* it takes for alike, the rule matches.
LEMMA AlikeIsMatched ==
    ASSUME NEW f \in Facts, NEW g \in Facts, NEW by \in Kinds, Alike(g, f, by),
           g.ip # UnspecifiedIp
    PROVE  RuleMatches(RuleFor(f, by), FlowOf(g))
<1> DEFINE process == Clause("process_path", "exact", f.exe)
           host == Clause("dest_host", "suffix", f.host)
           ip == Clause("dest_ip", "exact", f.ip)
<1>1. by \in {"Process", "Both"} => MatchesOne(process, FlowOf(g))
  BY DEF Alike, Clause, FlowOf, MatchesOne, MatchString
<1>2. by \in {"Host", "Both"} => MatchesOne(host, FlowOf(g))
  BY FactTyped, SuffixOfItself DEF Alike, Clause, FlowOf, MatchesOne, MatchString
<1>3. by = "Ip" => MatchesOne(ip, FlowOf(g))
  BY DEF Alike, Clause, FlowOf, MatchesOne, MatchString
<1>4. \A m \in RuleFor(f, by).matches :
         \/ by \in {"Process", "Both"} /\ m = process
         \/ by \in {"Host", "Both"} /\ m = host
         \/ by = "Ip" /\ m = ip
  BY DEF RuleFor
<1> QED
  BY <1>1, <1>2, <1>3, <1>4 DEF RuleMatches

\* A mark keeps the row's facts and count, and says why it is denied.
LEMMA MarkedRow ==
    ASSUME NEW row \in Rows
    PROVE  /\ Marked(row) \in Rows /\ Marked(row).facts = row.facts
           /\ Marked(row).count = row.count
           /\ Marked(row).verdict = "deny" /\ Marked(row).label # "none"
  BY DEF Marked, Rows

\* Keys and counts are all that RowsAddUp looks at.
LEMMA SameRows ==
    ASSUME TypeOK, RowsAddUp, events' \in Seq(Rows), Len(events') = Len(events),
           \A i \in 1 .. Len(events) :
              events'[i].facts = events[i].facts /\ events'[i].count = events[i].count,
           UNCHANGED <<latest, gone, pushes>>
    PROVE  RowsAddUp'
<1>1. DOMAIN events = 1 .. Len(events) /\ DOMAIN events' = 1 .. Len(events)
  BY DEF TypeOK
<1>2. PICK t \in Totals : t[Len(events)] = pushes
  BY DEF RowsAddUp
<1>3. t \in Totals'
  BY <1>1, <1>2 DEF Totals
<1>4. KeysAreUnique'
  BY <1>1 DEF RowsAddUp, KeysAreUnique
<1> QED
  BY <1>1, <1>2, <1>3, <1>4 DEF RowsAddUp

\* A request for a rule, with the marks.
LEMMA InvariantDeny ==
    ASSUME IInv, NEW by \in Kinds, Deny(by)
    PROVE  IInv'
<1>1. TypeOK /\ RowsAddUp /\ MarksAreSound /\ PromptsInLiveView /\ PickIsModal
  BY DEF IInv
<1> DEFINE n == Len(events)
<1>2. /\ modal \in Facts /\ modal' = Nothing /\ picked' = Nothing
      /\ asked' = asked \cup {RuleFor(modal, by)}
      /\ UNCHANGED <<state, follow, filter, filter_mode, listing, view, loaded,
                     latest, gone, pushes>>
  BY <1>1 DEF Deny, TypeOK
<1>3. events \in Seq(Rows) /\ n \in Nat /\ DOMAIN events = 1 .. n
  BY <1>1 DEF TypeOK
<1>4. events' = [i \in 1 .. n |-> IF Alike(events[i].facts, modal, by)
                                 THEN Marked(events[i]) ELSE events[i]]
  BY <1>3 DEF Deny
<1>5. \A i \in 1 .. n : events[i] \in Rows
  BY <1>3
<1>6. /\ events' \in Seq(Rows) /\ Len(events') = n /\ DOMAIN events' = 1 .. n
      /\ \A i \in 1 .. n : events'[i].facts = events[i].facts /\ events'[i].count = events[i].count
  BY <1>3, <1>4, <1>5, MarkedRow
<1>7. TypeOK'
  <2>1. RuleFor(modal, by) \in {RuleFor(f, b) : f \in Facts, b \in Kinds}
    BY <1>2
  <2> QED BY <1>1, <1>2, <1>6, <2>1 DEF TypeOK, listing
<1>8. RowsAddUp'
  BY <1>1, <1>2, <1>6, SameRows
<1>9. MarksAreSound'
  <2>1. ASSUME NEW i \in 1 .. n, events'[i].verdict = "deny"
        PROVE  /\ events'[i].label # "none"
               /\ events'[i].facts.ip # UnspecifiedIp =>
                     \E r \in asked' : RuleMatches(r, FlowOf(events'[i].facts))
    <3>1. events[i].facts \in Facts
      BY <1>5, RowFields
    <3>2. CASE Alike(events[i].facts, modal, by)
      <4>1. events'[i].label # "none"
        BY <1>4, <1>5, <3>2, MarkedRow
      <4> QED BY <1>2, <1>6, <3>1, <3>2, <4>1, AlikeIsMatched
    <3>3. CASE ~Alike(events[i].facts, modal, by)
      <4>1. events'[i] = events[i]
        BY <1>4, <3>3
      <4> QED BY <1>1, <1>2, <1>3, <2>1, <4>1 DEF MarksAreSound
    <3> QED BY <3>2, <3>3
  <2> QED BY <1>6, <2>1 DEF MarksAreSound
<1>10. PromptsInLiveView' /\ PickIsModal'
  BY <1>1, <1>2 DEF PromptsInLiveView, PickIsModal, Nothing
<1> QED
  BY <1>7, <1>8, <1>9, <1>10 DEF IInv

\* A place counted from 1 that is clamped is a place.
LEMMA ClampedTyped == \A n \in Int, high \in Nat \ {0} : Clamped(n, high) \in 1 .. high
  BY DEF Clamped

\* What is visible are places of the table.
LEMMA VisibleTyped ==
    ASSUME TypeOK
    PROVE  /\ Visible \subseteq 1 .. Len(events) /\ Len(events) \in Nat
           /\ Visible # {} => /\ Min(Visible) \in Visible /\ Max(Visible) \in Visible
                              /\ \A i \in Visible : i <= Max(Visible)
<1>1. DOMAIN events = 1 .. Len(events) /\ Len(events) \in Nat
  BY DEF TypeOK
<1>2. Visible \subseteq 1 .. Len(events) /\ Visible \subseteq 0 .. Len(events)
  BY <1>1 DEF Visible
<1> QED
  BY <1>1, <1>2, MinMax

\* What leaves the rows and the requests alone leaves these two alone.
LEMMA RowsKept ==
    ASSUME RowsAddUp, MarksAreSound, UNCHANGED <<events, latest, gone, pushes, asked>>
    PROVE  RowsAddUp' /\ MarksAreSound'
  BY DEF RowsAddUp, KeysAreUnique, Totals, MarksAreSound

\* Keys that move the selection of the live view.
LEMMA InvariantNavigate == ASSUME IInv, Navigate PROVE IInv'
<1>1. TypeOK /\ RowsAddUp /\ MarksAreSound /\ PromptsInLiveView /\ PickIsModal
  BY DEF IInv
<1>2. /\ state' \in 0 .. Len(events) /\ follow' \in BOOLEAN
      /\ UNCHANGED <<events, filter, filter_mode, modal, listing, view, daemon, history>>
  <2>1. CASE \E delta \in {-20, -1, 1, 20} : Scroll(delta)
    <3>1. PICK delta \in {-20, -1, 1, 20} : Scroll(delta)
      BY <2>1
    <3>2. CASE Visible = {} /\ state' = 0 /\ UNCHANGED follow
      BY <1>1, <3>1, <3>2 DEF Scroll, TypeOK
    <3>3. CASE \E i \in Visible :
                  state' = i /\ follow' = (Place(i) = Cardinality(Visible))
      <4>1. state' \in 0 .. Len(events)
        BY <1>1, <3>3, VisibleTyped
      <4>2. follow' \in BOOLEAN
        BY <3>3
      <4> QED BY <3>1, <4>1, <4>2 DEF Scroll
    <3> QED BY <3>1, <3>2, <3>3, Zenon DEF Scroll
  <2>2. CASE JumpToEnd
    <3>1. state' \in 0 .. Len(events)
      BY <1>1, <2>2, VisibleTyped DEF JumpToEnd, TypeOK
    <3> QED BY <2>2, <3>1 DEF JumpToEnd
  <2>3. CASE JumpToStart
    <3>1. state' \in 0 .. Len(events)
      BY <1>1, <2>3, VisibleTyped DEF JumpToStart, TypeOK
    <3> QED BY <2>3, <3>1 DEF JumpToStart
  <2> QED BY <2>1, <2>2, <2>3 DEF Navigate
<1>3. TypeOK'
  BY <1>1, <1>2 DEF TypeOK, listing, daemon, history
<1>4. RowsAddUp' /\ MarksAreSound'
  BY <1>1, <1>2, RowsKept DEF daemon, history
<1> QED
  BY <1>1, <1>2, <1>3, <1>4 DEF IInv, PromptsInLiveView, PickIsModal, history

\* The filter prompt.
LEMMA InvariantFilter == ASSUME IInv, StartFilter \/ FilterInput PROVE IInv'
<1>1. TypeOK /\ RowsAddUp /\ MarksAreSound /\ PromptsInLiveView /\ PickIsModal
  BY DEF IInv
<1>2. UNCHANGED <<events, state, follow, modal, listing, view, daemon, history>>
  BY DEF StartFilter, FilterInput
<1>3. /\ filter' \in Seq(Alphabet) /\ Len(filter') <= MaxFilter
      /\ filter_mode' \in BOOLEAN /\ (filter_mode' => view = "Live" /\ modal = Nothing)
  <2>1. filter \in Seq(Alphabet) /\ Len(filter) <= MaxFilter /\ MaxFilter \in Nat
        /\ filter_mode \in BOOLEAN
    BY <1>1, BoundsAssumption DEF TypeOK
  <2>2. CASE StartFilter
    BY <2>1, <2>2 DEF StartFilter, LiveKeys, Free
  <2>3. CASE FilterInput
    <3>1. modal = Nothing /\ filter_mode /\ view = "Live"
      BY <1>1, <2>3 DEF FilterInput, PromptsInLiveView
    <3>2. CASE filter' = <<>> /\ filter_mode' = FALSE
      <4>1. <<>> \in Seq(Alphabet) /\ Len(<<>>) = 0
        OBVIOUS
      <4>2. filter' \in Seq(Alphabet) /\ Len(filter') <= MaxFilter
        BY <2>1, <3>2, <4>1
      <4> QED BY <3>2, <4>2
    <3>3. CASE UNCHANGED filter /\ filter_mode' = FALSE
      BY <2>1, <3>3
    <3>4. CASE filter # <<>> /\ filter' = Front(filter) /\ UNCHANGED filter_mode
      BY <2>1, <3>1, <3>4 DEF Front
    <3>5. CASE \E c \in Alphabet : /\ Len(filter) < MaxFilter
                                  /\ filter' = Append(filter, c) /\ UNCHANGED filter_mode
      BY <2>1, <3>1, <3>5
    <3> QED BY <2>3, <3>2, <3>3, <3>4, <3>5 DEF FilterInput
  <2> QED BY <2>2, <2>3
<1>4. TypeOK'
  BY <1>1, <1>2, <1>3 DEF TypeOK, listing, daemon, history
<1>5. RowsAddUp' /\ MarksAreSound'
  BY <1>1, <1>2, RowsKept DEF daemon, history
<1> QED
  BY <1>1, <1>2, <1>3, <1>4, <1>5 DEF IInv, PromptsInLiveView, PickIsModal, history

\* The modal opens and closes; the view is switched; the rules view scrolls and
\* gets a list; a rule is loaded.
LEMMA InvariantRest ==
    ASSUME IInv,
           \/ OpenModal \/ CloseModal
           \/ \E v \in {"Live", "Rules", "Stats"} : SwitchTo(v)
           \/ \E delta \in {-1, 1} : RulesScroll(delta)
           \/ \E n \in 0 .. MaxRules : GetRules(n)
           \/ \E r \in asked : Load(r)
           \/ UNCHANGED vars
    PROVE  IInv'
<1>1. TypeOK /\ RowsAddUp /\ MarksAreSound /\ PromptsInLiveView /\ PickIsModal
  BY DEF IInv
<1> USE DEF listing, daemon, history, live
<1>2. TypeOK' /\ PromptsInLiveView' /\ PickIsModal'
  <2>1. CASE OpenModal
    <3>1. state \in 1 .. Len(events) /\ events[state].facts \in Facts
      BY <1>1, <2>1, RowFields DEF OpenModal, TypeOK
    <3> QED BY <1>1, <2>1, <3>1
          DEF OpenModal, LiveKeys, Free, TypeOK, PromptsInLiveView, PickIsModal
  <2>2. CASE CloseModal
    BY <1>1, <2>2 DEF CloseModal, TypeOK, PromptsInLiveView, PickIsModal
  <2>3. CASE \E v \in {"Live", "Rules", "Stats"} : SwitchTo(v)
    BY <1>1, <2>3 DEF SwitchTo, Free, TypeOK, PromptsInLiveView, PickIsModal
  <2>4. CASE \E delta \in {-1, 1} : RulesScroll(delta)
    <3>1. PICK delta \in {-1, 1} : RulesScroll(delta)
      BY <2>4
    <3>2. rules \in Nat /\ (IF rules_state = 0 THEN 1 ELSE rules_state) + delta \in Int
      BY <1>1 DEF TypeOK
    <3>3. rules_state' \in 0 .. rules /\ UNCHANGED <<live, rules, view, daemon, history>>
      BY <3>1, <3>2, ClampedTyped DEF RulesScroll
    <3> QED BY <1>1, <3>3 DEF TypeOK, PromptsInLiveView, PickIsModal
  <2>5. CASE \E n \in 0 .. MaxRules : GetRules(n)
    <3>1. rules' \in 0 .. MaxRules /\ rules_state' \in 0 .. rules'
          /\ UNCHANGED <<live, view, daemon, history>>
      BY <1>1, <2>5 DEF GetRules, TypeOK
    <3> QED BY <1>1, <3>1 DEF TypeOK, PromptsInLiveView, PickIsModal
  <2>6. CASE \E r \in asked : Load(r)
    BY <1>1, <2>6 DEF Load, TypeOK, PromptsInLiveView, PickIsModal
  <2>7. CASE UNCHANGED vars
    BY <1>1, <2>7 DEF vars, TypeOK, PromptsInLiveView, PickIsModal
  <2> QED BY <2>1, <2>2, <2>3, <2>4, <2>5, <2>6, <2>7
<1>3. UNCHANGED <<events, latest, gone, pushes, asked>>
  BY DEF OpenModal, CloseModal, SwitchTo, RulesScroll, GetRules, Load, vars
<1> QED
  BY <1>1, <1>2, <1>3, RowsKept DEF IInv

LEMMA InvariantNext == IInv /\ [Next]_vars => IInv'
  BY InvariantGetEvent, InvariantDeny, InvariantNavigate, InvariantFilter, InvariantRest
     DEF Next, Keys, Messages

THEOREM Invariant == Spec => []IInv
  BY InvariantInit, InvariantNext, PTL DEF Spec

\* Each variable stays in its range, and the selections of the two lists are
\* places of them.
THEOREM TypeCorrect == Spec => []TypeOK
<1>1. IInv => TypeOK
  BY DEF IInv
<1> QED
  BY Invariant, <1>1, PTL

\* Every event received is counted by one row, or went with a dropped one
\* (push, app.rs:100).
THEOREM EventsAddUp == Spec => []RowsAddUp
<1>1. IInv => RowsAddUp
  BY DEF IInv
<1> QED
  BY Invariant, <1>1, PTL

\* A row that is shown as denied is matched by a rule that was asked for
\* (optimistically_deny, app.rs:174), whatever the facts are.
THEOREM RedRowsAreMatched == Spec => []MarksAreSound
<1>1. IInv => MarksAreSound
  BY DEF IInv
<1> QED
  BY Invariant, <1>1, PTL

\* The modal and the filter prompt are open in the live view only, and not both
\* (the order in which handle_key asks, app.rs:270).
THEOREM PromptsStayInLiveView == Spec => []PromptsInLiveView
<1>1. IInv => PromptsInLiveView
  BY DEF IInv
<1> QED
  BY Invariant, <1>1, PTL

---------------------------------------------------------------------------
(* What a step does                                                        *)

\* A request is about what the selected row showed when d was pressed (the
\* snapshot of ModalState), whatever events took the row over since.
THEOREM RequestsAreAboutThePick == Spec => DenyIsAboutPick
<1>1. IInv /\ [Next]_vars =>
        [asked' # asked => \E by \in Kinds : asked' = asked \cup {RuleFor(picked, by)}]_vars
  <2> SUFFICES ASSUME IInv, Next, asked' # asked
               PROVE  \E by \in Kinds : asked' = asked \cup {RuleFor(picked, by)}
    OBVIOUS
  <2>1. \E by \in Kinds : Deny(by)
    BY DEF Next, Keys, Messages, Navigate, Scroll, JumpToEnd, JumpToStart, StartFilter,
           FilterInput, OpenModal, CloseModal, SwitchTo, RulesScroll, GetEvent, GetRules,
           Load, daemon
  <2> QED BY <2>1 DEF Deny, IInv, PickIsModal
<1> QED
  BY Invariant, <1>1, PTL DEF Spec, DenyIsAboutPick

\* The place of the last visible row is their number, and only its place is.
LEMMA LastPlace ==
    ASSUME TypeOK, NEW i \in Visible, Place(i) = Cardinality(Visible)
    PROVE  i = Max(Visible)
<1>1. /\ Visible \subseteq 1 .. Len(events) /\ Len(events) \in Nat
      /\ Max(Visible) \in Visible /\ \A j \in Visible : j <= Max(Visible)
  BY VisibleTyped
<1>2. IsFiniteSet(Visible)
  <2>1. IsFiniteSet(1 .. Len(events))
    BY <1>1, FS_Interval
  <2> QED BY <1>1, <2>1, FS_Subset
<1> DEFINE before == {j \in Visible : j <= i}
<1>3. before \in SUBSET Visible /\ Cardinality(Visible) = Cardinality(before)
  BY DEF Place
<1>4. Visible = before
  BY <1>2, <1>3, FS_Subset
<1>5. Max(Visible) <= i /\ i <= Max(Visible) /\ Max(Visible) \in Int /\ i \in Int
  <2>1. Max(Visible) \in before
    BY <1>1, <1>4
  <2>2. Max(Visible) <= i
    BY <2>1
  <2>3. i <= Max(Visible) /\ i \in 1 .. Len(events) /\ Max(Visible) \in 1 .. Len(events)
    BY <1>1
  <2>4. i \in Int /\ Max(Visible) \in Int
    BY <2>3, <1>1
  <2> QED BY <2>2, <2>3, <2>4
<1> HIDE DEF before
<1> QED
  BY <1>5

\* Keys that move the selection put it on a row that is shown (scroll,
\* jump_to_end and jump_to_start, app.rs:138).
THEOREM KeysLandOnShownRows == Spec => NavigationLands
<1>1. IInv /\ [Next]_vars =>
        [Navigate /\ Visible # {} =>
            /\ state' \in Visible
            /\ follow' => state' = Max(Visible)]_vars
  <2> SUFFICES ASSUME IInv, Navigate, Visible # {}
               PROVE  state' \in Visible /\ (follow' => state' = Max(Visible))
    OBVIOUS
  <2>1. TypeOK
    BY DEF IInv
  <2>2. Min(Visible) \in Visible /\ Max(Visible) \in Visible
    BY <2>1, VisibleTyped
  <2>3. CASE \E delta \in {-20, -1, 1, 20} : Scroll(delta)
    <3>1. PICK i \in Visible : state' = i /\ follow' = (Place(i) = Cardinality(Visible))
      BY <2>3, Zenon DEF Scroll
    <3> QED BY <2>1, <3>1, LastPlace
  <2>4. CASE JumpToEnd
    BY <2>2, <2>4 DEF JumpToEnd
  <2>5. CASE JumpToStart
    BY <2>2, <2>5 DEF JumpToStart
  <2> QED BY <2>3, <2>4, <2>5 DEF Navigate
<1> QED
  BY Invariant, <1>1, PTL DEF Spec, NavigationLands

\* An event moves the selection to another row only if the list follows its
\* end, or if the first row made room (push, app.rs:100).
THEOREM SelectionDoesNotMove == Spec => SelectionStays
<1> DEFINE Stays == (pushes' # pushes /\ ~follow /\ state # 0) =>
                       LET i == IF gone' = gone THEN state ELSE state + 1
                       IN \/ i > Len(events)
                          \/ AggKey(events'[state'].facts) = AggKey(events[i].facts)
<1>1. IInv /\ [Next]_vars => [Stays]_vars
  <2> SUFFICES ASSUME IInv, Next, pushes' # pushes, ~follow, state # 0 PROVE Stays
    OBVIOUS
  <2>1. TypeOK /\ RowsAddUp
    BY DEF IInv
  <2>2. PICK f \in Facts, decided \in SUBSET loaded : GetEvent(f, decided)
    BY DEF Next, Keys, Messages, Navigate, Scroll, JumpToEnd, JumpToStart, StartFilter,
           FilterInput, OpenModal, CloseModal, SwitchTo, RulesScroll, Deny, GetRules,
           Load, history
  <2>3. PICK r : RowFor(f, decided, r) /\ (Adds(r) \/ Drops(r) \/ \E i : Updates(i, r))
    BY <2>1, <2>2, PushCases
  <2>4. /\ r \in Rows /\ state' = state /\ state \in 1 .. Len(events)
        /\ events \in Seq(Rows) /\ Len(events) \in Nat /\ gone \in Nat
    BY <2>1, <2>2, <2>3 DEF GetEvent, RowFor, TypeOK
  <2>5. CASE \E i : Updates(i, r)
    BY <2>4, <2>5 DEF Updates
  <2>6. CASE Adds(r)
    <3>1. events'[state] = events[state]
      BY <2>4, <2>6, AppendOf DEF Adds
    <3> QED BY <2>4, <2>6, <3>1 DEF Adds
  <2>7. CASE Drops(r)
    <3>1. events # <<>> /\ events[1].count \in 1 .. MaxPushes
      BY <2>4, RowFields
    <3>2. gone' # gone
      BY <2>4, <2>7, <3>1 DEF Drops
    <3>3. CASE state = Len(events)
      BY <2>4, <3>2, <3>3
    <3>4. CASE state # Len(events)
      <4>1. state \in 1 .. Len(events) - 1
        BY <2>4, <3>4
      <4>2. /\ Tail(events) \in Seq(Rows) /\ Len(Tail(events)) = Len(events) - 1
            /\ Tail(events)[state] = events[state + 1]
        BY <2>4, <3>1, <4>1, TailOf
      <4>3. events'[state] = events[state + 1]
        BY <2>4, <2>7, <4>1, <4>2, AppendOf DEF Drops
      <4> QED BY <2>4, <3>2, <4>3
    <3> QED BY <3>3, <3>4
  <2> QED BY <2>3, <2>5, <2>6, <2>7
<1> QED
  BY Invariant, <1>1, PTL DEF Spec, SelectionStays
=============================================================================
