-------------------------- MODULE RuleReloadProofs --------------------------
(***************************************************************************)
(* Proofs about RuleReload, for every set of files, contents and flows.    *)
(***************************************************************************)
EXTENDS RuleReload, Lemmas

---------------------------------------------------------------------------
(* The list                                                                *)

\* What InsertAt returns: the list, with one entry more at place k.
LEMMA InsertLemma ==
    ASSUME NEW S, NEW s \in Seq(S), NEW r \in S, NEW k \in 1 .. Len(s) + 1
    PROVE  LET t == InsertAt(s, k, r)
           IN /\ t \in Seq(S)
              /\ Len(t) = Len(s) + 1
              /\ \A i \in 1 .. Len(t) :
                    t[i] = IF i < k THEN s[i] ELSE IF i = k THEN r ELSE s[i - 1]
<1> DEFINE a == SubSeq(s, 1, k - 1)
           b == SubSeq(s, k, Len(s))
<1>1. a \in Seq(S) /\ Len(a) = k - 1 /\ \A i \in 1 .. k - 1 : a[i] = s[i]
  OBVIOUS
<1>2. b \in Seq(S) /\ Len(b) = Len(s) - k + 1
      /\ \A i \in 1 .. Len(b) : b[i] = s[k + i - 1]
  OBVIOUS
<1> HIDE DEF a, b
<1>3. InsertAt(s, k, r) = a \o <<r>> \o b
  BY DEF InsertAt, a, b
<1>4. a \o <<r>> \in Seq(S) /\ Len(a \o <<r>>) = k
      /\ \A i \in 1 .. k : (a \o <<r>>)[i] = IF i < k THEN s[i] ELSE r
  BY <1>1
<1> DEFINE c == a \o <<r>>
<1> HIDE DEF c
<1>5. c \in Seq(S) /\ Len(c) = k
      /\ \A i \in 1 .. k : c[i] = IF i < k THEN s[i] ELSE r
  BY <1>4 DEF c
<1>6. c \o b \in Seq(S) /\ Len(c \o b) = Len(s) + 1
      /\ \A i \in 1 .. Len(s) + 1 :
            (c \o b)[i] = IF i <= k THEN c[i] ELSE b[i - k]
  BY <1>2, <1>5, ConcatProperties
<1>7. \A i \in 1 .. Len(s) + 1 : i > k => b[i - k] = s[i - 1]
  BY <1>2
<1> QED
  BY <1>3, <1>5, <1>6, <1>7 DEF c

\* An entry has a priority that is a number.
LEMMA EntryPriority == \A r \in Entries : r.priority \in Nat /\ r.file \in Files
  BY ContentsAssumption DEF Entries, Entry

\* Inserting an entry of a file that is not yet there, at the place the sort
\* gives it, keeps the list sorted and one entry per file.
LEMMA InsertOrdered ==
    ASSUME NEW s \in Seq(Entries), NEW r \in Entries, NEW k,
           SortsAt(s, r, k), Ordered(s),
           \A i \in 1 .. Len(s) : s[i].file # r.file
    PROVE  Ordered(InsertAt(s, k, r))
<1> DEFINE t == InsertAt(s, k, r)
<1>1. k \in 1 .. Len(s) + 1
  BY DEF SortsAt
<1>2. /\ Len(t) = Len(s) + 1
      /\ \A i \in 1 .. Len(t) :
            t[i] = IF i < k THEN s[i] ELSE IF i = k THEN r ELSE s[i - 1]
  BY <1>1, InsertLemma
<1> HIDE DEF t
<1> SUFFICES ASSUME NEW i \in 1 .. Len(t), NEW j \in 1 .. Len(t), i < j
             PROVE  t[i].priority <= t[j].priority /\ t[i].file # t[j].file
  BY DEF Ordered, t
<1>3. \A n \in 1 .. Len(s) : s[n].priority \in Nat
  BY EntryPriority
<1>4. r.priority \in Nat
  BY EntryPriority
<1>5. CASE j < k
  <2>1. t[i] = s[i] /\ t[j] = s[j] /\ i \in 1 .. Len(s) /\ j \in 1 .. Len(s)
    BY <1>1, <1>2, <1>5
  <2> QED BY <2>1 DEF Ordered
<1>6. CASE j = k
  <2>1. t[i] = s[i] /\ t[j] = r /\ i \in 1 .. Len(s) /\ i \in 1 .. k - 1
    BY <1>1, <1>2, <1>6
  <2> QED BY <2>1 DEF SortsAt
<1>7. CASE k < j /\ i < k
  <2>1. t[i] = s[i] /\ t[j] = s[j - 1] /\ i \in 1 .. k - 1 /\ i \in 1 .. Len(s)
        /\ j - 1 \in 1 .. Len(s) /\ i < j - 1
    BY <1>1, <1>2, <1>7
  <2> QED BY <2>1 DEF Ordered
<1>8. CASE k < j /\ i = k
  <2>1. t[i] = r /\ t[j] = s[j - 1] /\ j - 1 \in k .. Len(s)
        /\ j - 1 \in 1 .. Len(s)
    BY <1>1, <1>2, <1>8
  <2>2. r.priority < s[j - 1].priority /\ s[j - 1].file # r.file
    BY <2>1 DEF SortsAt
  <2> QED BY <2>1, <2>2, <1>3, <1>4
<1>9. CASE k < i
  <2>1. t[i] = s[i - 1] /\ t[j] = s[j - 1] /\ i - 1 \in 1 .. Len(s)
        /\ j - 1 \in 1 .. Len(s) /\ i - 1 < j - 1
    BY <1>1, <1>2, <1>9
  <2> QED BY <2>1 DEF Ordered
<1> QED
  BY <1>1, <1>5, <1>6, <1>7, <1>8, <1>9

\* Inserting r adds r to the entries of its own file and leaves the others.
LEMMA InsertEntries ==
    ASSUME NEW s \in Seq(Entries), NEW r \in Entries,
           NEW k \in 1 .. Len(s) + 1, NEW f
    PROVE  EntriesOf(InsertAt(s, k, r), f)
             = IF r.file = f THEN EntriesOf(s, f) \cup {r} ELSE EntriesOf(s, f)
<1> DEFINE t == InsertAt(s, k, r)
<1>1. /\ Len(t) = Len(s) + 1
      /\ \A i \in 1 .. Len(t) :
            t[i] = IF i < k THEN s[i] ELSE IF i = k THEN r ELSE s[i - 1]
  BY InsertLemma
<1> HIDE DEF t
<1>2. \A x \in EntriesOf(t, f) : x \in EntriesOf(s, f) \/ (x = r /\ r.file = f)
  <2> SUFFICES ASSUME NEW i \in 1 .. Len(t), t[i].file = f
               PROVE  t[i] \in EntriesOf(s, f) \/ (t[i] = r /\ r.file = f)
    BY DEF EntriesOf
  <2>1. CASE i < k
    <3>1. t[i] = s[i] /\ i \in 1 .. Len(s)
      BY <1>1, <2>1
    <3> QED BY <3>1 DEF EntriesOf
  <2>2. CASE i = k
    BY <1>1, <2>2
  <2>3. CASE i > k
    <3>1. t[i] = s[i - 1] /\ i - 1 \in 1 .. Len(s)
      BY <1>1, <2>3
    <3> QED BY <3>1 DEF EntriesOf
  <2> QED BY <2>1, <2>2, <2>3
<1>3. \A i \in 1 .. Len(s) : s[i].file = f => s[i] \in EntriesOf(t, f)
  <2> SUFFICES ASSUME NEW i \in 1 .. Len(s), s[i].file = f
               PROVE  s[i] \in EntriesOf(t, f)
    OBVIOUS
  <2>1. CASE i < k
    <3>1. t[i] = s[i] /\ i \in 1 .. Len(t)
      BY <1>1, <2>1
    <3> QED BY <3>1 DEF EntriesOf
  <2>2. CASE i >= k
    <3>1. t[i + 1] = s[i] /\ i + 1 \in 1 .. Len(t)
      BY <1>1, <2>2
    <3> QED BY <3>1 DEF EntriesOf
  <2> QED BY <2>1, <2>2
<1>4. r.file = f => r \in EntriesOf(t, f)
  <2>1. t[k] = r /\ k \in 1 .. Len(t)
    BY <1>1
  <2> QED BY <2>1 DEF EntriesOf
<1>5. \A x \in EntriesOf(s, f) : x \in EntriesOf(t, f)
  BY <1>3 DEF EntriesOf
<1> QED
  BY <1>2, <1>4, <1>5 DEF t

---------------------------------------------------------------------------
(* Types                                                                   *)

\* Every variable stays in its range (TypeOK is inductive by itself).
LEMMA TypeInit == Init => TypeOK
<1> SUFFICES ASSUME Init PROVE TypeOK
  OBVIOUS
<1>1. loading \in Seq(Entries) /\ rule_set \in Seq(Entries)
  BY DEF Init
<1>2. dir_exists \in BOOLEAN
  BY BoundsAssumption DEF Init
<1>4. disk \in [Files -> Contents \cup {Absent}]
  BY DEF Init
<1>3. /\ watcher = "unset" /\ phase = "open"
      /\ fs_events = 0 /\ rules_rx = 0 /\ edits = 0
      /\ todo = {} /\ unseen = {} /\ acked = {}
  BY DEF Init
<1>5. faulted \in BOOLEAN
  BY DEF Init
<1>6. 0 \in 0 .. MaxQueue /\ 0 \in 0 .. MaxChan /\ 0 \in 0 .. MaxEdits
  BY BoundsAssumption
<1> QED
  BY <1>1, <1>2, <1>3, <1>4, <1>5, <1>6 DEF TypeOK

\* An event finds room in the inotify queue or is dropped.
LEMMA NotifyInRange ==
    TypeOK /\ (Notify \/ NotifyOpen) => fs_events' \in 0 .. MaxQueue
  BY BoundsAssumption DEF TypeOK, Notify, NotifyOpen

\* Types are preserved by every step.
LEMMA TypeNext == TypeOK /\ [Next]_vars => TypeOK'
<1> SUFFICES ASSUME TypeOK, [Next]_vars PROVE TypeOK'
  OBVIOUS
<1> USE BoundsAssumption, FilesAssumption
<1>1. CASE OpenDir
  <2>1. <<>> \in Seq(Entries)
    OBVIOUS
  <2> QED BY <1>1, <2>1, NotifyInRange DEF TypeOK, OpenDir
<1>2. ASSUME NEW f \in Files, ReadFile(f) PROVE TypeOK'
  <2>1. loading' \in Seq(Entries)
    <3>1. CASE f \in TomlFiles /\ Contributes(disk[f])
      <4>1. Entry(f, disk[f]) \in Entries
        BY <3>1 DEF Contributes, TypeOK, Entries
      <4> QED
        BY <1>2, <3>1, <4>1, InsertLemma DEF ReadFile, TypeOK
    <3>2. CASE ~(f \in TomlFiles /\ Contributes(disk[f]))
      BY <1>2, <3>2 DEF ReadFile, TypeOK
    <3> QED BY <3>1, <3>2
  <2>2. fs_events' \in 0 .. MaxQueue
    BY <1>2, NotifyInRange DEF ReadFile, TypeOK
  <2> QED BY <1>2, <2>1, <2>2 DEF ReadFile, TypeOK
<1>3. CASE FinishLoad
  BY <1>3 DEF TypeOK, FinishLoad, AfterLoad
<1>4. CASE StartWatch
  BY <1>4 DEF TypeOK, StartWatch
<1>5. CASE TakeReload
  BY <1>5 DEF TypeOK, TakeReload
<1>6. CASE OpenDirFails
  BY <1>6 DEF TypeOK, OpenDirFails, AfterLoad
<1>7. ASSUME NEW f \in Files, ReadFails(f) PROVE TypeOK'
  BY <1>7 DEF TypeOK, ReadFails
<1>8. CASE Deliver
  BY <1>8 DEF TypeOK, Deliver, mainVars
<1>9. ASSUME NEW f \in Files, NEW c \in Contents \cup {Absent}, Edit(f, c)
      PROVE  TypeOK'
  <2>1. fs_events' \in 0 .. MaxQueue
    BY <1>9, NotifyInRange DEF Edit, Changes
  <2> QED BY <1>9, <2>1 DEF TypeOK, Edit, Changes, mainVars
<1>10. CASE MakeDir
  BY <1>10 DEF TypeOK, MakeDir, mainVars
<1>11. CASE RemoveDir
  <2>1. fs_events' \in 0 .. MaxQueue
    BY <1>11, NotifyInRange DEF RemoveDir
  <2>2. watcher' \in {"unset", "on", "off"}
    BY <1>11 DEF TypeOK, RemoveDir
  <2>4. dir_exists' \in BOOLEAN
    BY <1>11 DEF RemoveDir
  <2>5. edits' \in 0 .. MaxEdits
    BY <1>11 DEF TypeOK, RemoveDir
  <2>3. UNCHANGED <<disk, rules_rx, mainVars, unseen, faulted, acked>>
    BY <1>11 DEF RemoveDir
  <2> QED BY <2>1, <2>2, <2>3, <2>4, <2>5 DEF TypeOK, mainVars
<1>12. ASSUME NEW f \in AutoFiles, NEW c \in Contents, WriteDenyRule(f, c)
       PROVE  TypeOK'
  <2>1. fs_events' \in 0 .. MaxQueue
    BY <1>12, NotifyInRange DEF WriteDenyRule, Changes
  <2> QED BY <1>12, <2>1 DEF TypeOK, WriteDenyRule, Changes, mainVars
<1>13. ASSUME NEW id, NEW on \in BOOLEAN, SetEnabled(id, on) PROVE TypeOK'
  <2> PICK f \in TomlFiles :
          /\ disk[f] # Absent
          /\ Changes(f, [disk[f] EXCEPT !.enabled = on])
          /\ acked' = acked \ {f}
    BY <1>13 DEF SetEnabled
  <2>1. [disk[f] EXCEPT !.enabled = on] \in Contents
    BY ContentsAssumption DEF TypeOK
  <2>2. fs_events' \in 0 .. MaxQueue
    BY NotifyInRange DEF Changes
  <2> QED BY <1>13, <2>1, <2>2 DEF TypeOK, SetEnabled, Changes, mainVars
<1>14. CASE UNCHANGED vars
  BY <1>14 DEF TypeOK, vars
<1>15. CASE ListRules
  <2>1. fs_events' \in 0 .. MaxQueue
    BY <1>15, NotifyInRange DEF ListRules
  <2> QED BY <1>15, <2>1 DEF TypeOK, ListRules, mainVars
<1> QED
  BY <1>1, <1>2, <1>3, <1>4, <1>5, <1>6, <1>7, <1>8, <1>9, <1>10, <1>11,
     <1>12, <1>13, <1>14, <1>15 DEF Next, MainTask, Faults, Editors, Clients

\* Each variable stays in its range, in every reachable state.
THEOREM TypeCorrect == Spec => []TypeOK
<1> QED
  BY TypeInit, TypeNext, PTL DEF Spec

---------------------------------------------------------------------------
(* The rule set follows the directory                                      *)

\* A change to a file is either reported, so that the system is not quiet, or
\* the file is unseen; the other files stay as they were.
LEMMA ChangeIsKnown ==
    ASSUME TypeOK, NEW f \in Files, NEW c, Changes(f, c), rules_rx' = rules_rx
    PROVE  /\ Quiet' => Quiet /\ watcher # "on" /\ unseen' = unseen \cup {f}
           /\ \A g \in Files : g # f => disk'[g] = disk[g]
<1>1. fs_events \in 0 .. MaxQueue /\ MaxQueue \in Nat \ {0}
  BY BoundsAssumption DEF TypeOK
<1>2. Quiet' => Quiet /\ watcher # "on"
  BY <1>1 DEF Quiet, Changes, Notify
<1>3. watcher # "on" => unseen' = unseen \cup {f}
  BY DEF Changes
<1>4. \A g \in Files : g # f => disk'[g] = disk[g]
  BY DEF Changes, TypeOK
<1> QED
  BY <1>2, <1>3, <1>4

\* What a list must hold for a file depends on that file only.
LEMMA MirrorsSame ==
    ASSUME NEW f, NEW rules, disk'[f] = disk[f], EntriesOf(rules, f) = Listed(f)
    PROVE  EntriesOf(rules, f) = Listed(f)'
  BY DEF Listed

\* A change of one file by an editor or a client preserves the invariant.
LEMMA ChangePreserves ==
    ASSUME IInv, NEW f \in Files, NEW c, Changes(f, c),
           UNCHANGED <<rules_rx, mainVars, faulted>>
    PROVE  RulesOrdered' /\ LoadIsCurrent' /\ RulesCurrent'
<1>1. /\ Quiet' => Quiet /\ watcher # "on" /\ unseen' = unseen \cup {f}
      /\ \A g \in Files : g # f => disk'[g] = disk[g]
  BY ChangeIsKnown DEF IInv
<1>2. /\ phase' = phase /\ todo' = todo /\ loading' = loading
      /\ rule_set' = rule_set /\ (faulted' <=> faulted)
  BY DEF mainVars
<1>3. RulesOrdered'
  BY <1>2 DEF IInv, RulesOrdered, Ordered
<1>4. LoadIsCurrent'
  <2> SUFFICES ASSUME phase = "scan" PROVE LoadIsCurrent'
    BY <1>2 DEF LoadIsCurrent
  <2>1. \A g \in todo' : EntriesOf(loading', g) = {}
    BY <1>2 DEF IInv, LoadIsCurrent
  <2>2. ASSUME Quiet', ~faulted', NEW g \in Files, g \notin unseen', g \notin todo'
        PROVE  EntriesOf(loading', g) = Listed(g)'
    <3>1. g # f /\ g \notin unseen /\ g \notin todo /\ Quiet /\ ~faulted
      BY <1>1, <1>2, <2>2
    <3>2. EntriesOf(loading, g) = Listed(g)
      BY <3>1 DEF IInv, LoadIsCurrent, Mirrors
    <3> QED BY <1>1, <1>2, <3>1, <3>2, MirrorsSame
  <2> QED BY <2>1, <2>2 DEF LoadIsCurrent, Mirrors
<1>5. RulesCurrent'
  <2> SUFFICES ASSUME phase' \in {"watch", "select"}, Quiet', ~faulted',
                      NEW g \in Files, g \notin unseen'
               PROVE  EntriesOf(rule_set', g) = Listed(g)'
    BY DEF RulesCurrent, Mirrors
  <2>1. g # f /\ g \notin unseen /\ Quiet /\ ~faulted
    BY <1>1, <1>2
  <2>2. EntriesOf(rule_set, g) = Listed(g)
    BY <1>2, <2>1 DEF IInv, RulesCurrent, Mirrors
  <2> QED BY <1>1, <1>2, <2>1, <2>2, MirrorsSame
<1> QED
  BY <1>3, <1>4, <1>5

\* So does a step that leaves the files, the lists and the history alone and
\* does not make the system quiet.
LEMMA QueuePreserves ==
    ASSUME IInv, Quiet' => Quiet, UNCHANGED <<disk, mainVars, unseen, faulted>>
    PROVE  RulesOrdered' /\ LoadIsCurrent' /\ RulesCurrent'
<1>1. /\ phase' = phase /\ todo' = todo /\ loading' = loading /\ disk' = disk
      /\ rule_set' = rule_set /\ unseen' = unseen /\ (faulted' <=> faulted)
  BY DEF mainVars
<1>2. RulesOrdered'
  BY <1>1 DEF IInv, RulesOrdered, Ordered
<1>3. \A g : /\ EntriesOf(loading, g)' = EntriesOf(loading, g)
            /\ Mirrors(loading, g)' = Mirrors(loading, g)
            /\ Mirrors(rule_set, g)' = Mirrors(rule_set, g)
  BY <1>1 DEF Mirrors, EntriesOf, Listed
<1>4. LoadIsCurrent'
  BY <1>1, <1>3 DEF IInv, LoadIsCurrent
<1>5. RulesCurrent'
  BY <1>1, <1>3 DEF IInv, RulesCurrent
<1> QED
  BY <1>2, <1>4, <1>5

\* One entry read: the list stays sorted and free of duplicates, and says of
\* this file what the file says.
LEMMA ReadPreserves ==
    ASSUME IInv, NEW f \in Files, ReadFile(f)
    PROVE  RulesOrdered' /\ LoadIsCurrent' /\ RulesCurrent'
<1>1. /\ phase = "scan" /\ phase' = "scan" /\ f \in todo /\ todo' = todo \ {f}
      /\ disk' = disk /\ rule_set' = rule_set /\ unseen' = unseen
      /\ (faulted' <=> faulted)
  BY DEF ReadFile
<1>2. Quiet' => Quiet
  BY BoundsAssumption DEF ReadFile, NotifyOpen, Notify, Quiet, IInv, TypeOK
<1>3. EntriesOf(loading, f) = {}
  BY <1>1 DEF IInv, LoadIsCurrent
<1>4. \A i \in 1 .. Len(loading) : loading[i].file # f
  BY <1>3 DEF EntriesOf
<1>5. /\ Ordered(loading')
      /\ EntriesOf(loading', f) = Listed(f)
      /\ \A g : g # f => EntriesOf(loading', g) = EntriesOf(loading, g)
  <2>1. CASE f \in TomlFiles /\ Contributes(disk[f])
    <3> DEFINE r == Entry(f, disk[f])
    <3>1. r \in Entries
      BY <2>1 DEF IInv, Contributes, TypeOK, Entries
    <3>2. r.file = f
      BY DEF Entry
    <3>3. PICK k \in 1 .. Len(loading) + 1 :
              SortsAt(loading, r, k) /\ loading' = InsertAt(loading, k, r)
      BY <2>1 DEF ReadFile
    <3>4. Listed(f) = {r}
      BY <2>1 DEF Listed
    <3>5. loading \in Seq(Entries) /\ Ordered(loading)
      BY DEF IInv, TypeOK, RulesOrdered
    <3> HIDE DEF r
    <3>6. Ordered(loading')
      BY <1>4, <3>1, <3>2, <3>3, <3>5, InsertOrdered
    <3>7. EntriesOf(loading', f) = {r}
      BY <1>3, <3>1, <3>2, <3>3, <3>5, InsertEntries
    <3>8. \A g : g # f => EntriesOf(loading', g) = EntriesOf(loading, g)
      BY <3>1, <3>2, <3>3, <3>5, InsertEntries
    <3> QED BY <3>4, <3>6, <3>7, <3>8
  <2>2. CASE ~(f \in TomlFiles /\ Contributes(disk[f]))
    <3>1. loading' = loading
      BY <2>2 DEF ReadFile
    <3>2. Listed(f) = {}
      BY <2>2 DEF Listed
    <3> QED BY <1>3, <3>1, <3>2 DEF IInv, RulesOrdered
  <2> QED BY <2>1, <2>2
<1>6. RulesOrdered'
  BY <1>1, <1>5 DEF IInv, RulesOrdered, Ordered
<1>7. LoadIsCurrent'
  <2>1. \A g \in todo' : EntriesOf(loading', g) = {}
    BY <1>1, <1>5 DEF IInv, LoadIsCurrent
  <2>2. ASSUME Quiet', ~faulted', NEW g \in Files, g \notin unseen', g \notin todo'
        PROVE  EntriesOf(loading', g) = Listed(g)'
    <3>1. CASE g = f
      BY <1>1, <1>5, <3>1 DEF Listed
    <3>2. CASE g # f
      <4>1. EntriesOf(loading, g) = Listed(g)
        BY <1>1, <1>2, <2>2, <3>2 DEF IInv, LoadIsCurrent, Mirrors
      <4> QED BY <1>1, <1>5, <3>2, <4>1 DEF Listed
    <3> QED BY <3>1, <3>2
  <2> QED BY <2>1, <2>2 DEF LoadIsCurrent, Mirrors
<1>8. RulesCurrent'
  BY <1>1 DEF RulesCurrent
<1> QED
  BY <1>6, <1>7, <1>8

\* The empty list is in order and says nothing of any file.
LEMMA EmptyList == Ordered(<<>>) /\ \A f : EntriesOf(<<>>, f) = {}
  BY DEF Ordered, EntriesOf

\* The invariant holds before the first load.
LEMMA InvariantInit == Init => IInv
<1> SUFFICES ASSUME Init PROVE IInv
  OBVIOUS
<1>1. TypeOK
  BY TypeInit
<1>2. DirectoryOfFiles
  BY DEF Init, DirectoryOfFiles
<1>3. RulesOrdered
  BY EmptyList DEF Init, RulesOrdered
<1>4. LoadIsCurrent /\ RulesCurrent
  BY DEF Init, LoadIsCurrent, RulesCurrent
<1> QED
  BY <1>1, <1>2, <1>3, <1>4 DEF IInv

\* A watch needs its directory; a file needs it too.
LEMMA DirectoryNext == IInv /\ [Next]_vars => DirectoryOfFiles'
<1> SUFFICES ASSUME IInv, [Next]_vars PROVE DirectoryOfFiles'
  OBVIOUS
<1>1. watcher = "on" => dir_exists
  BY DEF IInv, DirectoryOfFiles
<1>2. ~dir_exists => \A f \in Files : disk[f] = Absent
  BY DEF IInv, DirectoryOfFiles
<1>3. CASE UNCHANGED <<disk, dir_exists, watcher>>
  BY <1>1, <1>2, <1>3 DEF DirectoryOfFiles
<1>4. CASE StartWatch
  BY <1>1, <1>2, <1>4 DEF StartWatch, DirectoryOfFiles
<1>5. ASSUME NEW f \in Files, NEW c, Edit(f, c) PROVE DirectoryOfFiles'
  BY <1>5 DEF Edit, DirectoryOfFiles
<1>6. CASE MakeDir
  BY <1>6 DEF MakeDir, DirectoryOfFiles
<1>7. CASE RemoveDir
  <2>1. watcher' # "on"
    BY <1>7 DEF RemoveDir
  <2>2. \A f \in Files : disk'[f] = Absent
    BY <1>7 DEF RemoveDir
  <2> QED BY <2>1, <2>2 DEF DirectoryOfFiles
<1>8. ASSUME NEW f, NEW c, WriteDenyRule(f, c) PROVE DirectoryOfFiles'
  BY <1>8 DEF WriteDenyRule, DirectoryOfFiles
<1>9. ASSUME NEW id, NEW on, SetEnabled(id, on) PROVE DirectoryOfFiles'
  <2> PICK f \in TomlFiles : disk[f] # Absent
    BY <1>9 DEF SetEnabled
  <2>1. dir_exists /\ dir_exists' = dir_exists
    BY <1>2, <1>9, FilesAssumption DEF SetEnabled
  <2> QED BY <2>1 DEF DirectoryOfFiles
<1> QED
  BY <1>3, <1>4, <1>5, <1>6, <1>7, <1>8, <1>9
  DEF Next, MainTask, Faults, Editors, Clients, OpenDir, ReadFile, FinishLoad,
      TakeReload, OpenDirFails, ReadFails, Deliver, ListRules, vars

\* Every step preserves it: a change raises an event, and what the load has read
\* is what the file held, or an event says otherwise.
LEMMA InvariantNext == IInv /\ [Next]_vars => IInv'
<1> SUFFICES ASSUME IInv, [Next]_vars PROVE IInv'
  OBVIOUS
<1>1. TypeOK' /\ DirectoryOfFiles'
  BY TypeNext, DirectoryNext DEF IInv
<1> DEFINE Rest == RulesOrdered /\ LoadIsCurrent /\ RulesCurrent
<1> SUFFICES Rest'
  BY <1>1 DEF IInv
<1>2. CASE OpenDir
  <2>1. /\ loading' = <<>> /\ rule_set' = rule_set
        /\ phase' = "scan" /\ todo' = Files
    BY <1>2 DEF OpenDir
  <2>2. RulesOrdered'
    BY <2>1, EmptyList DEF IInv, RulesOrdered, Ordered
  <2>3. LoadIsCurrent'
    BY <2>1, EmptyList DEF LoadIsCurrent
  <2>4. RulesCurrent'
    BY <2>1 DEF RulesCurrent
  <2> QED BY <2>2, <2>3, <2>4
<1>3. ASSUME NEW f \in Files, ReadFile(f)
      PROVE  Rest'
  BY <1>3, ReadPreserves
<1>4. CASE FinishLoad
  <2>1. /\ rule_set' = loading /\ loading' = <<>> /\ disk' = disk
        /\ phase = "scan" /\ todo = {} /\ unseen' = unseen
        /\ (faulted' <=> faulted) /\ (Quiet' <=> Quiet) /\ phase' # "scan"
    BY <1>4 DEF FinishLoad, AfterLoad, Quiet
  <2>2. RulesOrdered'
    BY <2>1, EmptyList DEF IInv, RulesOrdered
  <2>3. LoadIsCurrent'
    BY <2>1 DEF LoadIsCurrent
  <2>4. RulesCurrent'
    BY <2>1 DEF IInv, LoadIsCurrent, RulesCurrent, Mirrors, Listed
  <2> QED BY <2>2, <2>3, <2>4
<1>5. CASE StartWatch
  <2>1. /\ phase = "watch" /\ phase' = "select"
        /\ UNCHANGED <<disk, fs_events, rules_rx, loading, rule_set, unseen, faulted>>
    BY <1>5 DEF StartWatch
  <2>2. RulesOrdered'
    BY <2>1 DEF IInv, RulesOrdered, Ordered
  <2>3. LoadIsCurrent'
    BY <2>1 DEF LoadIsCurrent
  <2>4. RulesCurrent'
    BY <2>1 DEF IInv, RulesCurrent, Mirrors, Listed, Quiet, EntriesOf
  <2> QED BY <2>2, <2>3, <2>4
<1>6. CASE TakeReload
  <2>1. phase' = "open" /\ loading' = loading /\ rule_set' = rule_set
    BY <1>6 DEF TakeReload
  <2> QED BY <2>1 DEF IInv, RulesOrdered, Ordered, LoadIsCurrent, RulesCurrent
<1>7. CASE OpenDirFails
  <2>1. /\ rule_set' = <<>> /\ loading' = loading /\ disk' = disk
        /\ phase' # "scan" /\ (faulted' <=> dir_exists)
    BY <1>7 DEF OpenDirFails, AfterLoad
  <2>2. RulesOrdered'
    BY <2>1, EmptyList DEF IInv, RulesOrdered, Ordered
  <2>3. LoadIsCurrent'
    BY <2>1 DEF LoadIsCurrent
  <2>4. ~dir_exists => \A f \in Files : Listed(f)' = {}
    BY <2>1 DEF IInv, DirectoryOfFiles, Listed, Contributes
  <2>5. RulesCurrent'
    BY <2>1, <2>4, EmptyList DEF RulesCurrent, Mirrors
  <2> QED BY <2>2, <2>3, <2>5
<1>8. ASSUME NEW f \in Files, ReadFails(f)
      PROVE  Rest'
  <2>1. /\ loading' = loading /\ rule_set' = rule_set /\ todo' = todo \ {f}
        /\ phase = "scan" /\ phase' = "scan" /\ faulted'
    BY <1>8 DEF ReadFails
  <2>2. RulesOrdered'
    BY <2>1 DEF IInv, RulesOrdered, Ordered
  <2>3. LoadIsCurrent'
    BY <2>1 DEF IInv, LoadIsCurrent
  <2>4. RulesCurrent'
    BY <2>1 DEF RulesCurrent
  <2> QED BY <2>2, <2>3, <2>4
<1>9. CASE Deliver
  <2>1. Quiet' => Quiet
    BY <1>9 DEF Deliver, Quiet, IInv, TypeOK
  <2> QED BY <1>9, <2>1, QueuePreserves DEF Deliver
<1>10. ASSUME NEW f \in Files, NEW c, Edit(f, c)
       PROVE  Rest'
  BY <1>10, ChangePreserves DEF Edit
<1>11. CASE MakeDir
  BY <1>11, QueuePreserves DEF MakeDir, Quiet
<1>12. CASE RemoveDir
  <2>1. Quiet' => Quiet
    BY <1>12 DEF RemoveDir, Notify, Quiet, IInv, TypeOK
  <2> QED BY <1>12, <2>1, QueuePreserves DEF RemoveDir
<1>13. ASSUME NEW f \in AutoFiles, NEW c, WriteDenyRule(f, c)
       PROVE  Rest'
  BY <1>13, ChangePreserves, FilesAssumption DEF WriteDenyRule
<1>14. ASSUME NEW id, NEW on, SetEnabled(id, on)
       PROVE  Rest'
  <2> PICK f \in TomlFiles : Changes(f, [disk[f] EXCEPT !.enabled = on])
    BY <1>14 DEF SetEnabled
  <2> QED BY <1>14, ChangePreserves, FilesAssumption DEF SetEnabled
<1>15. CASE UNCHANGED vars
  BY <1>15, QueuePreserves DEF vars, mainVars, Quiet
<1>16. CASE ListRules
  <2>1. Quiet' => Quiet
    BY <1>16 DEF ListRules, NotifyOpen, Notify, Quiet, IInv, TypeOK
  <2> QED BY <1>16, <2>1, QueuePreserves DEF ListRules
<1> HIDE DEF Rest
<1> QED
  BY <1>2, <1>3, <1>4, <1>5, <1>6, <1>7, <1>8, <1>9, <1>10, <1>11, <1>12,
     <1>13, <1>14, <1>15, <1>16 DEF Next, MainTask, Faults, Editors, Clients

\* All parts of the inductive invariant hold in every reachable state.
THEOREM Invariant == Spec => []IInv
<1> QED
  BY InvariantInit, InvariantNext, PTL DEF Spec

\* Once no change is on its way and no load runs, the rule set in force is
\* what the directory holds (but for files changed unwatched and I/O errors).
THEOREM RulesAreCurrent == Spec => []RulesCurrent
<1>1. IInv => RulesCurrent
  BY DEF IInv
<1> QED
  BY Invariant, <1>1, PTL

\* The list in force is sorted by priority and holds a file at most once.
THEOREM RulesAreOrdered == Spec => []RulesOrdered
<1>1. IInv => RulesOrdered
  BY DEF IInv
<1> QED
  BY Invariant, <1>1, PTL

---------------------------------------------------------------------------
(* Verdicts                                                                *)

\* What evaluate returns is the verdict of the first rule that matches.
LEMMA EvaluateFirst ==
    ASSUME NEW s \in Seq(Entries), NEW flow, Hits(s, flow) # {}
    PROVE  \E i \in Hits(s, flow) :
              /\ \A j \in Hits(s, flow) : i <= j
              /\ Evaluate(s, flow) = [action |-> s[i].action, rule_id |-> s[i].id]
<1> DEFINE H == Hits(s, flow)
           first == CHOOSE i \in H : \A j \in H : i <= j
<1>1. H \subseteq Nat
  BY DEF Hits
<1> HIDE DEF H
<1>2. \E i \in H : \A j \in H : i <= j
  BY <1>1, LeastOf DEF H
<1>3. first \in H /\ \A j \in H : first <= j
  BY <1>2
<1>4. Evaluate(s, flow) = [action |-> s[first].action, rule_id |-> s[first].id]
  BY DEF Evaluate, H
<1> QED
  BY <1>3, <1>4 DEF H

\* When the rule set mirrors the directory, its entries are those of the files
\* that contribute a rule.
LEMMA EntriesAreFiles ==
    ASSUME TypeOK, \A f \in Files : Mirrors(rule_set, f)
    PROVE  /\ \A i \in 1 .. Len(rule_set) :
                 LET f == rule_set[i].file
                 IN f \in TomlFiles /\ Contributes(disk[f])
                    /\ rule_set[i] = Entry(f, disk[f])
           /\ \A f \in TomlFiles : Contributes(disk[f]) =>
                 \E i \in 1 .. Len(rule_set) : rule_set[i] = Entry(f, disk[f])
<1>1. ASSUME NEW i \in 1 .. Len(rule_set)
      PROVE  LET f == rule_set[i].file
             IN f \in TomlFiles /\ Contributes(disk[f])
                /\ rule_set[i] = Entry(f, disk[f])
  <2> DEFINE f == rule_set[i].file
  <2>1. f \in Files
    BY EntryPriority DEF TypeOK
  <2>2. rule_set[i] \in EntriesOf(rule_set, f)
    BY DEF EntriesOf
  <2>3. rule_set[i] \in Listed(f)
    BY <2>1, <2>2 DEF Mirrors
  <2> QED BY <2>3 DEF Listed
<1>2. ASSUME NEW f \in TomlFiles, Contributes(disk[f])
      PROVE  \E i \in 1 .. Len(rule_set) : rule_set[i] = Entry(f, disk[f])
  <2>1. Entry(f, disk[f]) \in EntriesOf(rule_set, f)
    BY <1>2, FilesAssumption DEF Mirrors, Listed
  <2> QED BY <2>1 DEF EntriesOf
<1> QED
  BY <1>1, <1>2

\* A sorted list that mirrors the directory gives the verdict that the
\* directory asks for.
LEMMA MirrorDecides ==
    ASSUME IInv, phase = "select", Quiet, ~faulted, unseen = {}, NEW flow
    PROVE  \/ Matching(flow) = {} /\ Evaluate(rule_set, flow) = NoVerdict
           \/ \E f \in Matching(flow) :
                 /\ \A g \in Matching(flow) : disk[f].priority <= disk[g].priority
                 /\ Decides(f, flow)
<1> DEFINE H == Hits(rule_set, flow)
<1>1. \A f \in Files : Mirrors(rule_set, f)
  BY DEF IInv, RulesCurrent
<1>2. rule_set \in Seq(Entries) /\ TypeOK /\ Ordered(rule_set)
  BY DEF IInv, TypeOK, RulesOrdered
<1>3. \A i \in H : /\ rule_set[i].file \in Matching(flow)
                   /\ rule_set[i] = Entry(rule_set[i].file, disk[rule_set[i].file])
  BY <1>1, <1>2, EntriesAreFiles DEF Hits, Matching
<1>4. \A g \in Matching(flow) : \E i \in H : rule_set[i] = Entry(g, disk[g])
  BY <1>1, <1>2, EntriesAreFiles DEF Hits, Matching
<1>5. CASE H = {}
  BY <1>4, <1>5 DEF Evaluate
<1>6. CASE H # {}
  <2>1. PICK i \in H :
            /\ \A j \in H : i <= j
            /\ Evaluate(rule_set, flow) = [action |-> rule_set[i].action,
                                          rule_id |-> rule_set[i].id]
    BY <1>2, <1>6, EvaluateFirst
  <2> DEFINE f == rule_set[i].file
  <2>2. f \in Matching(flow) /\ rule_set[i] = Entry(f, disk[f])
    BY <1>3
  <2>3. Decides(f, flow)
    BY <2>1, <2>2 DEF Decides, Entry
  <2>4. ASSUME NEW g \in Matching(flow) PROVE disk[f].priority <= disk[g].priority
    <3>1. PICK j \in H : rule_set[j] = Entry(g, disk[g])
      BY <1>4
    <3>2. i \in 1 .. Len(rule_set) /\ j \in 1 .. Len(rule_set) /\ i <= j
      BY <2>1 DEF Hits
    <3>3. rule_set[i].priority <= rule_set[j].priority
      <4>1. CASE i = j
        BY <1>2, <3>2, <4>1, EntryPriority
      <4>2. CASE i < j
        BY <1>2, <3>2, <4>2 DEF Ordered
      <4> QED BY <3>2, <4>1, <4>2
    <3>4. rule_set[i].priority = disk[f].priority
      BY <2>2 DEF Entry
    <3>5. rule_set[j].priority = disk[g].priority
      BY <3>1 DEF Entry
    <3> QED BY <3>3, <3>4, <3>5
  <2> QED BY <2>2, <2>3, <2>4
<1> QED
  BY <1>5, <1>6

\* Once the rule set is current, every flow gets the verdict the directory
\* asks for: that of a matching file of lowest priority number, else allow.
THEOREM VerdictsFollowDisk == Spec => []VerdictFollowsDisk
<1>1. IInv => VerdictFollowsDisk
  BY MirrorDecides DEF VerdictFollowsDisk
<1> QED
  BY Invariant, <1>1, PTL
=============================================================================
