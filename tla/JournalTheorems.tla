--------------------------- MODULE JournalTheorems ---------------------------
(***************************************************************************)
(* What holds of every JournalState that planning and applying can build,   *)
(* whatever the constants: JournalInv, and the proofs that EmptyJournal      *)
(* has it and that ApplyTransition and ApplyLegacy keep it.  Nothing here    *)
(* depends on how an adapter stores or locks the state.                     *)
(***************************************************************************)
EXTENDS Journal, SequenceTheorems, FiniteSetTheorems, TLAPS

\* A receipt covers a range of the log that no commit boundary cuts.
ReceiptsInLog(j) ==
    \A c \in Commands :
        j.commands[c] # NoReceipt =>
            /\ j.commands[c].command = c
            /\ j.commands[c].first <= j.commands[c].cursor
            /\ j.commands[c].cursor <= Len(j.events)
            /\ \A i \in DOMAIN j.boundaries :
                \/ j.boundaries[i] < j.commands[c].first
                \/ j.commands[c].cursor <= j.boundaries[i]

ReceiptsApart(j) ==
    \A c, d \in Commands :
        c # d /\ j.commands[c] # NoReceipt /\ j.commands[d] # NoReceipt =>
            \/ j.commands[c].cursor < j.commands[d].first
            \/ j.commands[d].cursor < j.commands[c].first

VersionsRise(j) ==
    \A i, k \in DOMAIN j.events :
        i < k /\ j.events[i].stream = j.events[k].stream =>
            j.events[i].version < j.events[k].version

\* The index holds a version that is in the log, and none there is larger.
IndexExact(j) ==
    \A a \in Aggregates :
        /\ \A i \in DOMAIN j.events :
            j.events[i].stream = a => j.events[i].version <= j.versions[a]
        /\ \/ j.versions[a] = 0
           \/ \E i \in DOMAIN j.events :
                j.events[i].stream = a /\ j.events[i].version = j.versions[a]

IdsOnce(j) ==
    \A i, k \in DOMAIN j.events : j.events[i].id = j.events[k].id => i = k

KeysOnce(j) ==
    /\ \A i \in DOMAIN j.events : j.events[i].key # NoKey => j.events[i].key \in j.keys
    /\ \A i, k \in DOMAIN j.events :
        j.events[i].key = j.events[k].key /\ j.events[i].key # NoKey => i = k

\* The boundaries are places in the log, and its end is one of them.
BoundariesInLog(j) ==
    /\ \A i \in DOMAIN j.boundaries : j.boundaries[i] <= Len(j.events)
    /\ j.events # << >> => \E i \in DOMAIN j.boundaries : j.boundaries[i] = Len(j.events)

JournalInv(j) ==
    /\ j \in JournalState
    /\ ReceiptsInLog(j) /\ ReceiptsApart(j)
    /\ VersionsRise(j) /\ IndexExact(j)
    /\ IdsOnce(j) /\ KeysOnce(j)
    /\ BoundariesInLog(j)

------------------------------------------------------------------------------
(* Choosing the least and the greatest of a set of numbers                   *)

\* A nonempty set of naturals has a least element (the page's first boundary).
LEMMA LeastExists ==
    ASSUME NEW S \in SUBSET Nat, S # {}
    PROVE  \E m \in S : \A k \in S : m <= k
<1>1. PICK m \in S : \A k \in S : ~(<<k, m>> \in OpToRel(<, Nat))
  BY WFMin, NatLessThanWellFounded
<1>2. \A k \in S : ~(k < m)
  BY <1>1 DEF OpToRel
<1>. QED
  BY <1>2

\* A bounded nonempty set of naturals has a greatest element (the last event
\* of an aggregate in a batch, the last boundary within a page's limit).
LEMMA GreatestExists ==
    ASSUME NEW n \in Nat, NEW S \in SUBSET (0 .. n), S # {}
    PROVE  \E m \in S : \A k \in S : k <= m
<1>. DEFINE T == { n - k : k \in S }
<1>0. \A k \in S : k \in Nat /\ n - k \in Nat
  OBVIOUS
<1>1. T \in SUBSET Nat /\ T # {}
  BY <1>0
<1>. HIDE DEF T
<1>2. PICK t \in T : \A u \in T : t <= u
  BY <1>1, LeastExists
<1>. USE DEF T
<1>3. PICK m \in S : t = n - m
  BY <1>2
<1>4. \A k \in S : n - k \in T
  OBVIOUS
<1>5. \A k \in S : n - m <= n - k
  BY <1>2, <1>3, <1>4
<1>. QED
  BY <1>0, <1>5

------------------------------------------------------------------------------
(* The version index                                                         *)

\* index_event over a run of events leaves an aggregate alone or gives it the
\* version of its last event.
LEMMA IndexedVersionsSpec ==
    ASSUME NEW versions \in [Aggregates -> 0 .. MaxVersion], NEW events \in Seq(Event)
    PROVE  /\ IndexedVersions(versions, events) \in [Aggregates -> 0 .. MaxVersion]
           /\ \A a \in Aggregates :
                \/ /\ \A i \in DOMAIN events : events[i].stream # a
                   /\ IndexedVersions(versions, events)[a] = versions[a]
                \/ \E i \in DOMAIN events :
                     /\ events[i].stream = a
                     /\ IndexedVersions(versions, events)[a] = events[i].version
                     /\ \A k \in DOMAIN events : events[k].stream = a => k <= i
<1>. DEFINE mine(a) == { i \in DOMAIN events : events[i].stream = a }
            last(a) == CHOOSE i \in mine(a) : \A k \in mine(a) : k <= i
<1>1. /\ Len(events) \in Nat /\ DOMAIN events = 1 .. Len(events)
      /\ \A i \in DOMAIN events : events[i] \in Event
  BY LenProperties, ElementOfSeq
<1>2. ASSUME NEW a \in Aggregates, mine(a) # {}
      PROVE  last(a) \in mine(a) /\ \A k \in mine(a) : k <= last(a)
  <2>1. mine(a) \in SUBSET (0 .. Len(events))
    BY <1>1
  <2>. HIDE DEF mine
  <2>2. \E m \in mine(a) : \A k \in mine(a) : k <= m
    BY <1>1, <1>2, <2>1, GreatestExists
  <2>. QED
    BY <2>2
<1>3. ASSUME NEW a \in Aggregates
      PROVE  IndexedVersions(versions, events)[a]
                = IF mine(a) = {} THEN versions[a] ELSE events[last(a)].version
  BY DEF IndexedVersions
<1>. HIDE DEF last
<1>4. ASSUME NEW a \in Aggregates
      PROVE  /\ IndexedVersions(versions, events)[a] \in 0 .. MaxVersion
             /\ \/ /\ \A i \in DOMAIN events : events[i].stream # a
                   /\ IndexedVersions(versions, events)[a] = versions[a]
                \/ \E i \in DOMAIN events :
                     /\ events[i].stream = a
                     /\ IndexedVersions(versions, events)[a] = events[i].version
                     /\ \A k \in DOMAIN events : events[k].stream = a => k <= i
  <2>1. CASE mine(a) = {}
    BY <1>3, <2>1
  <2>2. CASE mine(a) # {}
    <3>1. last(a) \in mine(a) /\ \A k \in mine(a) : k <= last(a)
      BY <1>2, <2>2
    <3>2. events[last(a)].version \in 0 .. MaxVersion
      BY <1>1, <3>1, JournalAssumption DEF Event, Version
    <3>. QED
      BY <1>3, <2>2, <3>1, <3>2
  <2>. QED
    BY <2>1, <2>2
<1>5. IndexedVersions(versions, events) \in [Aggregates -> 0 .. MaxVersion]
  <2>1. \A a \in Aggregates : IndexedVersions(versions, events)[a] \in 0 .. MaxVersion
    BY <1>4
  <2>2. IndexedVersions(versions, events)
           = [a \in Aggregates |-> IndexedVersions(versions, events)[a]]
    BY DEF IndexedVersions
  <2>. QED
    BY <2>1, <2>2
<1>. QED
  BY <1>4, <1>5

\* What Index does to each part of a state.
LEMMA IndexSpec ==
    ASSUME NEW j \in JournalState, NEW events \in Seq(Event)
    PROVE  /\ Index(j, events) \in JournalState
           /\ Index(j, events).events = j.events \o events
           /\ Index(j, events).commands = j.commands
           /\ Index(j, events).versions = IndexedVersions(j.versions, events)
           /\ Index(j, events).boundaries = Append(j.boundaries, Len(j.events) + Len(events))
           /\ Index(j, events).keys
                 = j.keys \cup ({ e.key : e \in EventSet(events) } \ {NoKey})
<1>1. /\ j.events \in Seq(Event) /\ j.boundaries \in Seq(Nat) /\ j.keys \in SUBSET Keys
      /\ j.versions \in [Aggregates -> 0 .. MaxVersion]
      /\ j.commands \in [Commands -> Receipt \cup {NoReceipt}]
  BY DEF JournalState
<1>2. j.events \o events \in Seq(Event)
  BY <1>1, ConcatProperties
<1>3. IndexedVersions(j.versions, events) \in [Aggregates -> 0 .. MaxVersion]
  BY <1>1, IndexedVersionsSpec
<1>4. { e.key : e \in EventSet(events) } \ {NoKey} \in SUBSET Keys
  <2>1. \A i \in DOMAIN events : events[i] \in Event
    BY LenProperties, ElementOfSeq
  <2>. QED
    BY <2>1 DEF EventSet, Event
<1>5. Append(j.boundaries, Len(j.events) + Len(events)) \in Seq(Nat)
  <2>1. Len(j.events) + Len(events) \in Nat
    BY <1>1, LenProperties
  <2>. QED
    BY <1>1, <2>1, AppendProperties
<1>. QED
  BY <1>1, <1>2, <1>3, <1>4, <1>5 DEF Index, JournalState

------------------------------------------------------------------------------
(* Extending the log                                                         *)

\* The events are new to the log, and later than it on their streams.
Extends(j, events) ==
    /\ events \in Seq(Event) /\ events # << >>
    /\ \A i, k \in DOMAIN events : events[i].id = events[k].id => i = k
    /\ \A i \in DOMAIN j.events, k \in DOMAIN events : j.events[i].id # events[k].id
    /\ \A i, k \in DOMAIN events :
        events[i].key = events[k].key /\ events[i].key # NoKey => i = k
    /\ \A k \in DOMAIN events : events[k].key \notin j.keys
    /\ \A i, k \in DOMAIN events :
        i < k /\ events[i].stream = events[k].stream =>
            events[i].version < events[k].version
    /\ \A i \in DOMAIN j.events, k \in DOMAIN events :
        j.events[i].stream = events[k].stream =>
            j.events[i].version < events[k].version
    /\ \A k \in DOMAIN events :
        events[k].stream \in Aggregates => j.versions[events[k].stream] < events[k].version

\* The log of an indexed state, place by place: the old log, then the events.
LEMMA IndexedLog ==
    ASSUME NEW j \in JournalState, NEW events \in Seq(Event), events # << >>,
           NEW n, n = Len(j.events), NEW m, m = Len(events),
           NEW log, log = Index(j, events).events
    PROVE  /\ n \in Nat /\ m \in Nat \ {0} /\ DOMAIN log = 1 .. n + m /\ Len(log) = n + m
           /\ DOMAIN j.events = 1 .. n /\ DOMAIN events = 1 .. m
           /\ \A i \in 1 .. n : log[i] = j.events[i] /\ j.events[i] \in Event
           /\ \A i \in n + 1 .. n + m : /\ log[i] = events[i - n] /\ i - n \in 1 .. m
                                        /\ events[i - n] \in Event
<1>1. j.events \in Seq(Event)
  BY DEF JournalState
<1>2. log = j.events \o events
  BY IndexSpec
<1>3. /\ n \in Nat /\ m \in Nat \ {0} /\ DOMAIN j.events = 1 .. n /\ DOMAIN events = 1 .. m
      /\ \A i \in 1 .. n : j.events[i] \in Event
      /\ \A i \in 1 .. m : events[i] \in Event
  BY <1>1, LenProperties, ElementOfSeq, EmptySeq
<1>4. /\ log \in Seq(Event) /\ Len(log) = n + m
      /\ \A i \in 1 .. n + m : log[i] = IF i <= n THEN j.events[i] ELSE events[i - n]
  BY <1>1, <1>2, ConcatProperties
<1>5. DOMAIN log = 1 .. n + m
  BY <1>4, LenProperties
<1>6. ASSUME NEW i \in 1 .. n
      PROVE  log[i] = j.events[i] /\ j.events[i] \in Event
  <2>1. i \in 1 .. n + m /\ i <= n
    BY <1>3
  <2>. QED
    BY <1>3, <1>4, <2>1
<1>7. ASSUME NEW i \in n + 1 .. n + m
      PROVE  log[i] = events[i - n] /\ i - n \in 1 .. m /\ events[i - n] \in Event
  <2>1. i \in 1 .. n + m /\ ~(i <= n) /\ i - n \in 1 .. m
    BY <1>3
  <2>. QED
    BY <1>3, <1>4, <2>1
<1>. QED
  BY <1>3, <1>4, <1>5, <1>6, <1>7

\* Indexing events that extend the log keeps everything but what a new receipt
\* adds.
LEMMA IndexKeeps ==
    ASSUME NEW j, JournalInv(j), NEW events, Extends(j, events)
    PROVE  JournalInv(Index(j, events))
<1>. DEFINE n == Len(j.events)
            m == Len(events)
            J == Index(j, events)
            log == J.events
<1>1. /\ j \in JournalState /\ events \in Seq(Event) /\ events # << >>
  BY DEF JournalInv, Extends
<1>2. /\ n \in Nat /\ m \in Nat \ {0} /\ DOMAIN log = 1 .. n + m /\ Len(log) = n + m
      /\ DOMAIN j.events = 1 .. n /\ DOMAIN events = 1 .. m
      /\ \A i \in 1 .. n : log[i] = j.events[i] /\ j.events[i] \in Event
      /\ \A i \in n + 1 .. n + m : /\ log[i] = events[i - n] /\ i - n \in 1 .. m
                                   /\ events[i - n] \in Event
  BY <1>1, IndexedLog
<1>3. /\ J \in JournalState
      /\ J.commands = j.commands
      /\ J.versions = IndexedVersions(j.versions, events)
      /\ J.boundaries = Append(j.boundaries, n + m)
      /\ J.keys = j.keys \cup ({ e.key : e \in EventSet(events) } \ {NoKey})
  BY <1>1, IndexSpec
<1>4. /\ Len(j.boundaries) \in Nat /\ DOMAIN j.boundaries = 1 .. Len(j.boundaries)
      /\ DOMAIN J.boundaries = 1 .. Len(j.boundaries) + 1
      /\ \A i \in 1 .. Len(j.boundaries) : J.boundaries[i] = j.boundaries[i]
                                           /\ j.boundaries[i] \in Nat
      /\ J.boundaries[Len(j.boundaries) + 1] = n + m
  <2>1. j.boundaries \in Seq(Nat) /\ n + m \in Nat
    BY <1>1, <1>2 DEF JournalState
  <2>2. /\ J.boundaries \in Seq(Nat) /\ Len(J.boundaries) = Len(j.boundaries) + 1
        /\ \A i \in 1 .. Len(j.boundaries) : J.boundaries[i] = j.boundaries[i]
        /\ J.boundaries[Len(j.boundaries) + 1] = n + m
    BY <1>3, <2>1, AppendProperties
  <2>. QED
    BY <2>1, <2>2, LenProperties, ElementOfSeq
\* The facts the cases below use, with the domains written out.
<1>old. /\ \A i, k \in 1 .. n : i < k /\ j.events[i].stream = j.events[k].stream =>
                j.events[i].version < j.events[k].version
        /\ \A i, k \in 1 .. n : j.events[i].id = j.events[k].id => i = k
        /\ \A i \in 1 .. n : j.events[i].key # NoKey => j.events[i].key \in j.keys
        /\ \A i, k \in 1 .. n :
                j.events[i].key = j.events[k].key /\ j.events[i].key # NoKey => i = k
  <2>1. VersionsRise(j) /\ IdsOnce(j) /\ KeysOnce(j)
    BY DEF JournalInv
  <2>. QED
    BY <1>2, <2>1 DEF VersionsRise, IdsOnce, KeysOnce
<1>new. /\ \A i, k \in 1 .. m : i < k /\ events[i].stream = events[k].stream =>
                events[i].version < events[k].version
        /\ \A i, k \in 1 .. m : events[i].id = events[k].id => i = k
        /\ \A k \in 1 .. m : events[k].key \notin j.keys
        /\ \A i, k \in 1 .. m :
                events[i].key = events[k].key /\ events[i].key # NoKey => i = k
  BY <1>2 DEF Extends
<1>mixed. /\ \A i \in 1 .. n, k \in 1 .. m : j.events[i].stream = events[k].stream =>
                  j.events[i].version < events[k].version
          /\ \A i \in 1 .. n, k \in 1 .. m : j.events[i].id # events[k].id
  BY <1>2 DEF Extends
<1>places. \A i \in 1 .. n + m :
              \/ i \in 1 .. n /\ log[i] = j.events[i]
              \/ i > n /\ i - n \in 1 .. m /\ log[i] = events[i - n]
  <2>. HIDE DEF J, n, m, log
  <2>. SUFFICES ASSUME NEW i \in 1 .. n + m
                PROVE  \/ i \in 1 .. n /\ log[i] = j.events[i]
                       \/ i > n /\ i - n \in 1 .. m /\ log[i] = events[i - n]
    OBVIOUS
  <2>1. i \in 1 .. n \/ (i > n /\ i \in n + 1 .. n + m)
    BY <1>2
  <2>. QED
    BY <1>2, <2>1
<1>log. /\ \A i, k \in 1 .. n + m : i < k /\ log[i].stream = log[k].stream =>
                log[i].version < log[k].version
        /\ \A i, k \in 1 .. n + m : log[i].id = log[k].id => i = k
        /\ \A i \in 1 .. n + m : log[i].key # NoKey => log[i].key \in J.keys
        /\ \A i, k \in 1 .. n + m :
                log[i].key = log[k].key /\ log[i].key # NoKey => i = k
  <2>1. \A k \in 1 .. m : events[k].key # NoKey => events[k].key \in J.keys
    BY <1>2, <1>3 DEF EventSet
  <2>2. \A x \in j.keys : x \in J.keys
    BY <1>3
  <2>3. n \in Nat /\ m \in Nat
    BY <1>2
  <2>. HIDE DEF J, n, m, log
  <2>4. ASSUME NEW i \in 1 .. n + m, NEW k \in 1 .. n + m
        PROVE  /\ i < k /\ log[i].stream = log[k].stream =>
                    log[i].version < log[k].version
               /\ log[i].id = log[k].id => i = k
               /\ log[i].key = log[k].key /\ log[i].key # NoKey => i = k
    <3>1. CASE i \in 1 .. n /\ k \in 1 .. n
      <4>1. log[i] = j.events[i] /\ log[k] = j.events[k]
        BY <1>places, <2>3, <3>1
      <4>. QED
        BY <1>old, <3>1, <4>1
    <3>2. CASE i \in 1 .. n /\ k > n
      <4>1. log[i] = j.events[i] /\ log[k] = events[k - n] /\ k - n \in 1 .. m
        BY <1>places, <2>3, <3>2
      <4>2. log[i].key # NoKey => log[i].key # log[k].key
        BY <1>old, <1>new, <3>2, <4>1
      <4>. QED
        BY <1>mixed, <3>2, <4>1, <4>2
    <3>3. CASE i > n /\ k \in 1 .. n
      <4>1. log[k] = j.events[k] /\ log[i] = events[i - n] /\ i - n \in 1 .. m /\ ~(i < k)
        BY <1>places, <2>3, <3>3
      <4>2. log[i].key # NoKey => log[i].key # log[k].key
        BY <1>old, <1>new, <3>3, <4>1
      <4>. QED
        BY <1>mixed, <3>3, <4>1, <4>2
    <3>4. CASE i > n /\ k > n
      <4>1. /\ log[i] = events[i - n] /\ i - n \in 1 .. m
            /\ log[k] = events[k - n] /\ k - n \in 1 .. m
        BY <1>places, <2>3, <3>4
      <4>2. (i < k <=> i - n < k - n) /\ (i - n = k - n => i = k)
        BY <2>3
      <4>. QED
        BY <1>new, <4>1, <4>2
    <3>. QED
      BY <2>3, <3>1, <3>2, <3>3, <3>4
  <2>5. ASSUME NEW i \in 1 .. n + m, log[i].key # NoKey
        PROVE  log[i].key \in J.keys
    <3>1. CASE i \in 1 .. n /\ log[i] = j.events[i]
      BY <1>old, <2>2, <2>5, <3>1
    <3>2. CASE i - n \in 1 .. m /\ log[i] = events[i - n]
      BY <2>1, <2>5, <3>2
    <3>. QED
      BY <1>places, <3>1, <3>2
  <2>. QED
    BY <2>4, <2>5
<1>. HIDE DEF J, n, m
<1>5. ReceiptsInLog(J)
  <2>. SUFFICES ASSUME NEW c \in Commands, j.commands[c] # NoReceipt
                PROVE  /\ j.commands[c].command = c
                       /\ j.commands[c].first <= j.commands[c].cursor
                       /\ j.commands[c].cursor <= n + m
                       /\ \A i \in DOMAIN J.boundaries :
                           \/ J.boundaries[i] < j.commands[c].first
                           \/ j.commands[c].cursor <= J.boundaries[i]
    BY <1>2, <1>3 DEF ReceiptsInLog
  <2>1. j.commands[c].cursor \in Nat
    BY <1>1 DEF JournalState, Receipt
  <2>2. /\ j.commands[c].command = c
        /\ j.commands[c].first <= j.commands[c].cursor
        /\ j.commands[c].cursor <= n
        /\ \A i \in DOMAIN j.boundaries :
            \/ j.boundaries[i] < j.commands[c].first
            \/ j.commands[c].cursor <= j.boundaries[i]
    BY DEF JournalInv, ReceiptsInLog, n
  <2>3. j.commands[c].cursor <= n + m
    BY <1>2, <2>1, <2>2
  <2>. QED
    BY <1>4, <2>2, <2>3
<1>6. ReceiptsApart(J)
  BY <1>3 DEF JournalInv, ReceiptsApart
<1>7. VersionsRise(J)
  BY <1>2, <1>log DEF VersionsRise
<1>8. IdsOnce(J)
  BY <1>2, <1>log DEF IdsOnce
<1>9. KeysOnce(J)
  BY <1>2, <1>log DEF KeysOnce
<1>typed. \A i \in 1 .. n + m : log[i].version \in Nat
  <2>1. \A x \in Event : x.version \in Nat
    BY JournalAssumption DEF Event, Version
  <2>2. \A i \in 1 .. n + m : log[i] \in Event
    <3>. HIDE DEF log
    <3>. QED
      BY <1>2, <1>places
  <2>. QED
    BY <2>1, <2>2
<1>moved. \A a \in Aggregates :
            \/ /\ \A i \in 1 .. m : events[i].stream # a
               /\ J.versions[a] = j.versions[a]
            \/ \E i \in 1 .. m :
                 /\ events[i].stream = a
                 /\ J.versions[a] = events[i].version
                 /\ \A k \in 1 .. m : events[k].stream = a => k <= i
  <2>1. j.versions \in [Aggregates -> 0 .. MaxVersion]
    BY <1>1 DEF JournalState
  <2>2. \A a \in Aggregates :
            \/ /\ \A i \in DOMAIN events : events[i].stream # a
               /\ IndexedVersions(j.versions, events)[a] = j.versions[a]
            \/ \E i \in DOMAIN events :
                 /\ events[i].stream = a
                 /\ IndexedVersions(j.versions, events)[a] = events[i].version
                 /\ \A k \in DOMAIN events : events[k].stream = a => k <= i
    BY <1>1, <2>1, IndexedVersionsSpec
  <2>3. DOMAIN events = 1 .. m /\ J.versions = IndexedVersions(j.versions, events)
    BY <1>2, <1>3
  <2>. HIDE DEF J, m
  <2>. QED
    BY <2>2, <2>3, Zenon
<1>10. IndexExact(J)
  <2>. SUFFICES ASSUME NEW a \in Aggregates
                PROVE  /\ \A i \in 1 .. n + m :
                           log[i].stream = a => log[i].version <= J.versions[a]
                       /\ \/ J.versions[a] = 0
                          \/ \E i \in 1 .. n + m :
                               log[i].stream = a /\ log[i].version = J.versions[a]
    BY <1>2 DEF IndexExact
  <2>1. /\ j.versions[a] \in Nat
        /\ \A i \in 1 .. n : j.events[i].stream = a => j.events[i].version <= j.versions[a]
        /\ \/ j.versions[a] = 0
           \/ \E i \in 1 .. n : j.events[i].stream = a /\ j.events[i].version = j.versions[a]
    <3>1. IndexExact(j) /\ j.versions[a] \in 0 .. MaxVersion
      BY <1>1 DEF JournalInv, JournalState
    <3>2. DOMAIN j.events = 1 .. n
      BY <1>2
    <3>3. j.versions[a] \in Nat
      BY <3>1
    <3>4. /\ \A i \in DOMAIN j.events :
                j.events[i].stream = a => j.events[i].version <= j.versions[a]
          /\ \/ j.versions[a] = 0
             \/ \E i \in DOMAIN j.events :
                  j.events[i].stream = a /\ j.events[i].version = j.versions[a]
      BY <3>1 DEF IndexExact
    <3>. QED
      BY <3>2, <3>3, <3>4
  <2>. HIDE DEF log
  <2>2. n \in Nat /\ m \in Nat
    BY <1>2
  <2>3. CASE /\ \A i \in 1 .. m : events[i].stream # a
             /\ J.versions[a] = j.versions[a]
    <3>1. \A i \in 1 .. n + m : log[i].stream = a => i \in 1 .. n /\ log[i] = j.events[i]
      BY <1>places, <2>3
    <3>2. \A i \in 1 .. n : i \in 1 .. n + m /\ log[i] = j.events[i]
      BY <1>places, <2>2
    <3>. QED
      BY <2>1, <2>3, <3>1, <3>2
  <2>4. ASSUME NEW p \in 1 .. m, events[p].stream = a, J.versions[a] = events[p].version,
               \A k \in 1 .. m : events[k].stream = a => k <= p
        PROVE  /\ \A i \in 1 .. n + m :
                   log[i].stream = a => log[i].version <= J.versions[a]
               /\ \E i \in 1 .. n + m :
                   log[i].stream = a /\ log[i].version = J.versions[a]
    <3>1. n + p \in 1 .. n + m /\ ~(n + p \in 1 .. n) /\ (n + p) - n = p
      BY <2>2
    <3>2. log[n + p] = events[p]
      BY <1>places, <3>1
    <3>3. ASSUME NEW i \in 1 .. n + m, log[i].stream = a
          PROVE  i <= n + p
      <4>1. CASE i \in 1 .. n
        BY <2>2, <4>1
      <4>2. CASE i - n \in 1 .. m /\ log[i] = events[i - n]
        <5>1. i - n <= p
          BY <2>4, <3>3, <4>2
        <5>. QED
          BY <2>2, <5>1
      <4>. QED
        BY <1>places, <4>1, <4>2
    <3>4. ASSUME NEW i \in 1 .. n + m, log[i].stream = a
          PROVE  log[i].version <= J.versions[a]
      <4>1. CASE i = n + p
        BY <1>typed, <2>4, <3>2, <4>1
      <4>2. CASE i < n + p
        <5>1. log[i].version < log[n + p].version
          BY <1>log, <2>4, <3>1, <3>2, <3>4, <4>2
        <5>2. log[n + p].version = J.versions[a]
          BY <2>4, <3>2
        <5>. QED
          BY <1>typed, <3>1, <5>1, <5>2
      <4>. QED
        BY <2>2, <3>3, <3>4, <4>1, <4>2
    <3>. QED
      BY <2>4, <3>1, <3>2, <3>4
  <2>. HIDE DEF J, n, m
  <2>5. \/ /\ \A i \in 1 .. m : events[i].stream # a
           /\ J.versions[a] = j.versions[a]
        \/ \E p \in 1 .. m :
             /\ events[p].stream = a
             /\ J.versions[a] = events[p].version
             /\ \A k \in 1 .. m : events[k].stream = a => k <= p
    BY <1>moved
  <2>. QED
    BY <2>3, <2>4, <2>5, Zenon
<1>11. BoundariesInLog(J)
  <2>1. \A i \in 1 .. Len(j.boundaries) : j.boundaries[i] <= n
    BY <1>4 DEF JournalInv, BoundariesInLog, n
  <2>2. n \in Nat /\ m \in Nat
    BY <1>2
  <2>. HIDE DEF J, n, m, log
  <2>3. ASSUME NEW i \in 1 .. Len(j.boundaries) + 1
        PROVE  J.boundaries[i] <= n + m
    <3>1. CASE i = Len(j.boundaries) + 1
      BY <1>4, <2>2, <3>1
    <3>2. CASE i \in 1 .. Len(j.boundaries)
      <4>1. J.boundaries[i] = j.boundaries[i] /\ j.boundaries[i] \in Nat
        BY <1>4, <3>2
      <4>2. j.boundaries[i] <= n
        BY <2>1, <3>2
      <4>. QED
        BY <2>2, <4>1, <4>2
    <3>3. Len(j.boundaries) \in Nat
      BY <1>4
    <3>. QED
      BY <3>1, <3>2, <3>3
  <2>4. \A i \in DOMAIN J.boundaries : J.boundaries[i] <= n + m
    BY <1>4, <2>3, Zenon
  <2>5. Len(j.boundaries) + 1 \in DOMAIN J.boundaries
    BY <1>4
  <2>6. Len(J.events) = n + m
    BY <1>2 DEF log
  <2>. QED
    BY <1>4, <2>4, <2>5, <2>6 DEF BoundariesInLog
<1>. QED
  BY <1>3, <1>5, <1>6, <1>7, <1>8, <1>9, <1>10, <1>11 DEF JournalInv, J

------------------------------------------------------------------------------
(* Transitions                                                               *)

\* Counting the events of one aggregate: the count grows by one at each.
LEMMA WrittenSpec ==
    ASSUME NEW b, NEW a, NEW i \in Nat, NEW k \in Nat, i <= k
    PROVE  /\ Written(b, a, i) \in Nat
           /\ Written(b, a, i) <= Written(b, a, k)
           /\ k > 0 /\ b.events[k].stream = a => Written(b, a, k) > 0
           /\ i < k /\ b.events[k].stream = a => Written(b, a, i) < Written(b, a, k)
<1>. DEFINE mine(n) == { x \in 1 .. n : b.events[x].stream = a }
<1>1. ASSUME NEW n \in Nat
      PROVE  IsFiniteSet(mine(n)) /\ Cardinality(mine(n)) \in Nat
                                  /\ Written(b, a, n) = Cardinality(mine(n))
  <2>1. IsFiniteSet(1 .. n) /\ mine(n) \in SUBSET (1 .. n)
    BY FS_Interval
  <2>2. IsFiniteSet(mine(n))
    <3>. HIDE DEF mine
    <3>. QED
      BY <2>1, FS_Subset
  <2>. QED
    BY <2>2, FS_CardinalityType DEF Written
<1>2. Written(b, a, i) <= Written(b, a, k)
  <2>1. mine(i) \in SUBSET mine(k)
    OBVIOUS
  <2>. HIDE DEF mine
  <2>. QED
    BY <1>1, <2>1, FS_Subset
<1>3. ASSUME k > 0, b.events[k].stream = a, NEW n \in Nat, n < k
      PROVE  Written(b, a, n) < Written(b, a, k)
  <2>1. mine(n) \in SUBSET mine(k) /\ k \in mine(k) /\ k \notin mine(n)
    BY <1>3
  <2>. HIDE DEF mine
  <2>. QED
    BY <1>1, <1>3, <2>1, FS_Subset
<1>4. Written(b, a, i) \in Nat
  <2>. HIDE DEF mine
  <2>. QED
    BY <1>1
<1>5. ASSUME k > 0, b.events[k].stream = a
      PROVE  Written(b, a, k) > 0
  <2>1. Written(b, a, 0) < Written(b, a, k)
    BY <1>3, <1>5
  <2>2. Written(b, a, 0) \in Nat /\ Written(b, a, k) \in Nat
    BY <1>1
  <2>. QED
    BY <2>1, <2>2
<1>6. i < k => k > 0
  OBVIOUS
<1>. HIDE DEF mine
<1>. QED
  BY <1>2, <1>3, <1>4, <1>5, <1>6

\* A batch that commits extends the log.
LEMMA AppendsExtends ==
    ASSUME NEW j, JournalInv(j), NEW b \in Batch, Appends(j, b)
    PROVE  Extends(j, b.events)
<1>1. /\ j \in JournalState /\ ValidBatch(b) /\ FreshIds(j, b) /\ FreshKeys(j, b)
      /\ Contiguous(j, b)
  BY DEF JournalInv, Appends, Plannable
<1>2. /\ b.events \in Seq(Event) /\ b.events # << >> /\ Len(b.events) \in Nat
      /\ DOMAIN b.events = 1 .. Len(b.events)
      /\ \A i \in DOMAIN b.events : b.events[i] \in Event
  <2>1. b.events \in Seq(Event) /\ Len(b.events) \in 1 .. MaxBatch
    BY <1>1 DEF Batch, ValidBatch
  <2>. QED
    BY <2>1, LenProperties, ElementOfSeq, EmptySeq
<1>3. \A i \in DOMAIN b.events : b.events[i].stream \in Aggregates
  <2>1. DOMAIN b.expected \subseteq Aggregates
    BY DEF Batch, ReadSet
  <2>. QED
    BY <1>1, <2>1 DEF ValidBatch, EventSet
<1>4. \A i \in DOMAIN b.events :
        /\ j.versions[b.events[i].stream] \in Nat
        /\ Written(b, b.events[i].stream, i) \in Nat
        /\ Written(b, b.events[i].stream, i) > 0
        /\ b.events[i].version = j.versions[b.events[i].stream]
                                     + Written(b, b.events[i].stream, i)
  <2>. TAKE i \in DOMAIN b.events
  <2>1. i \in Nat /\ i > 0
    BY <1>2
  <2>2. /\ Written(b, b.events[i].stream, i) \in Nat
        /\ Written(b, b.events[i].stream, i) > 0
    BY <2>1, WrittenSpec
  <2>3. j.versions[b.events[i].stream] \in Nat
    BY <1>1, <1>3 DEF JournalState
  <2>. QED
    BY <1>1, <2>2, <2>3 DEF Contiguous
<1>5. \A i, k \in DOMAIN b.events :
        i < k /\ b.events[i].stream = b.events[k].stream =>
            b.events[i].version < b.events[k].version
  <2>. TAKE i, k \in DOMAIN b.events
  <2>. HAVE i < k /\ b.events[i].stream = b.events[k].stream
  <2>1. Written(b, b.events[k].stream, i) < Written(b, b.events[k].stream, k)
    BY <1>2, WrittenSpec
  <2>. QED
    BY <1>4, <2>1
<1>6. \A i \in DOMAIN j.events, k \in DOMAIN b.events :
        j.events[i].stream = b.events[k].stream =>
            j.events[i].version < b.events[k].version
  <2>. TAKE i \in DOMAIN j.events, k \in DOMAIN b.events
  <2>. HAVE j.events[i].stream = b.events[k].stream
  <2>1. j.events[i].version <= j.versions[b.events[k].stream]
    BY <1>3 DEF JournalInv, IndexExact
  <2>2. j.events[i].version \in Nat
    <3>1. j.events[i] \in Event
      BY <1>1, LenProperties, ElementOfSeq DEF JournalState
    <3>. QED
      BY <3>1, JournalAssumption DEF Event, Version
  <2>. QED
    BY <1>4, <2>1, <2>2
<1>7. \A k \in DOMAIN b.events : b.events[k].key \notin j.keys
  BY <1>1, JournalAssumption DEF FreshKeys, JournalState
<1>8. \A i, k \in DOMAIN b.events :
        b.events[i].key = b.events[k].key /\ b.events[i].key # NoKey => i = k
  BY <1>1 DEF FreshKeys
<1>9. /\ \A i, k \in DOMAIN b.events : b.events[i].id = b.events[k].id => i = k
      /\ \A i \in DOMAIN j.events, k \in DOMAIN b.events : j.events[i].id # b.events[k].id
  BY <1>1 DEF FreshIds, EventSet
<1>10. \A k \in DOMAIN b.events : j.versions[b.events[k].stream] < b.events[k].version
  BY <1>4
<1>. QED
  BY <1>2, <1>5, <1>6, <1>7, <1>8, <1>9, <1>10 DEF Extends

\* A batch that commits gets a well-formed receipt: no version in it is past
\* the largest one.
LEMMA NewReceiptType ==
    ASSUME NEW j, JournalInv(j), NEW b \in Batch, Appends(j, b)
    PROVE  /\ NewReceipt(j, b) \in Receipt
           /\ NewReceipt(j, b).command = b.command
           /\ NewReceipt(j, b).first = Len(j.events) + 1
           /\ NewReceipt(j, b).cursor = Len(j.events) + Len(b.events)
<1>. DEFINE ids == [i \in DOMAIN b.events |-> b.events[i].id]
            versions == [a \in DOMAIN b.expected |->
                            j.versions[a] + Written(b, a, Len(b.events))]
<1>1. /\ j \in JournalState /\ Len(j.events) \in Nat
      /\ b.events \in Seq(Event) /\ Len(b.events) \in Nat
      /\ DOMAIN b.events = 1 .. Len(b.events)
      /\ \A i \in 1 .. Len(b.events) : b.events[i] \in Event
  <2>1. b.events \in Seq(Event) /\ j \in JournalState /\ j.events \in Seq(Event)
    BY DEF Batch, JournalInv, JournalState
  <2>. QED
    BY <2>1, LenProperties, ElementOfSeq
<1>2. ids \in Seq(EventIds)
  <2>1. ids \in [1 .. Len(b.events) -> EventIds]
    BY <1>1 DEF Event
  <2>. HIDE DEF ids
  <2>. QED
    BY <1>1, <2>1, SeqDef
<1>3. DOMAIN b.expected \in SUBSET Aggregates
  BY DEF Batch, ReadSet
<1>4. ASSUME NEW a \in DOMAIN b.expected
      PROVE  versions[a] \in 0 .. MaxVersion
  <2>. DEFINE mine == { i \in 1 .. Len(b.events) : b.events[i].stream = a }
  <2>1. j.versions[a] \in 0 .. MaxVersion
    BY <1>1, <1>3 DEF JournalState
  <2>2. CASE mine = {}
    <3>1. Written(b, a, Len(b.events)) = 0
      BY <2>2, FS_EmptySet DEF Written
    <3>. QED
      BY <2>1, <3>1
  <2>3. CASE mine # {}
    <3>1. PICK last \in mine : \A i \in mine : i <= last
      <4>1. mine \in SUBSET (0 .. Len(b.events))
        BY <1>1
      <4>. HIDE DEF mine
      <4>. QED
        BY <1>1, <2>3, <4>1, GreatestExists
    <3>2. { i \in 1 .. last : b.events[i].stream = a } = mine
      BY <1>1, <3>1
    <3>3. Written(b, a, last) = Written(b, a, Len(b.events))
      BY <3>2 DEF Written
    <3>4. b.events[last].version = j.versions[a] + Written(b, a, last)
      BY <1>1, <3>1 DEF Appends, Contiguous
    <3>5. b.events[last].version \in 0 .. MaxVersion
      BY <1>1, <3>1, JournalAssumption DEF Event, Version
    <3>. QED
      BY <3>3, <3>4, <3>5
  <2>. QED
    BY <2>2, <2>3
<1>5. versions \in ReadSet
  <2>1. versions \in [DOMAIN b.expected -> 0 .. MaxVersion]
    BY <1>4
  <2>. HIDE DEF versions
  <2>. QED
    BY <1>3, <2>1 DEF ReadSet
<1>6. b.command \in Commands /\ b.digest \in Digests
  BY DEF Batch
<1>7. NewReceipt(j, b) = [command |-> b.command, digest |-> b.digest,
                          first |-> Len(j.events) + 1,
                          cursor |-> Len(j.events) + Len(b.events),
                          ids |-> ids, versions |-> versions]
  BY DEF NewReceipt
<1>8. Len(j.events) \in Nat /\ Len(b.events) \in Nat
  BY <1>1
<1>. HIDE DEF ids, versions
<1>9. /\ Len(j.events) + 1 \in Nat \ {0}
      /\ Len(j.events) + Len(b.events) \in Nat
  <2>1. \A p, q \in Nat : p + 1 \in Nat \ {0} /\ p + q \in Nat
    OBVIOUS
  <2>. QED
    BY <1>8, <2>1, Zenon
<1>10. [command |-> b.command, digest |-> b.digest, first |-> Len(j.events) + 1,
        cursor |-> Len(j.events) + Len(b.events), ids |-> ids, versions |-> versions]
           \in Receipt
  BY <1>2, <1>5, <1>6, <1>9 DEF Receipt
<1>. QED
  BY <1>7, <1>10

\* Committing a transition keeps the invariant, and changes no other receipt.
LEMMA ApplyTransitionKeeps ==
    ASSUME NEW j, JournalInv(j), NEW b \in Batch, Appends(j, b)
    PROVE  LET k == ApplyTransition(j, b, NewReceipt(j, b))
           IN  /\ JournalInv(k)
               /\ k.events = j.events \o b.events
               /\ k.boundaries = Append(j.boundaries, Len(j.events) + Len(b.events))
               /\ j.commands[b.command] = NoReceipt
               /\ k.commands = [j.commands EXCEPT ![b.command] = NewReceipt(j, b)]
<1>. DEFINE x == Index(j, b.events)
            r == NewReceipt(j, b)
            k == ApplyTransition(j, b, r)
<1>1. JournalInv(x) /\ Extends(j, b.events)
  BY AppendsExtends, IndexKeeps
<1>2. r \in Receipt /\ r.command = b.command /\ r.first = Len(j.events) + 1
                    /\ r.cursor = Len(j.events) + Len(b.events)
  BY NewReceiptType
<1>3. /\ j \in JournalState /\ b.command \in Commands
      /\ b.events \in Seq(Event) /\ b.events # << >>
      /\ Len(j.events) \in Nat /\ Len(b.events) \in Nat \ {0}
      /\ Len(x.events) = Len(j.events) + Len(b.events)
  <2>1. /\ j \in JournalState /\ b.command \in Commands
        /\ b.events \in Seq(Event) /\ b.events # << >>
    BY <1>1 DEF JournalInv, Batch, Extends
  <2>2. /\ j.events \in Seq(Event) /\ Len(j.events) \in Nat
        /\ Len(b.events) \in Nat \ {0}
    BY <2>1, LenProperties, EmptySeq DEF JournalState
  <2>3. Len(j.events \o b.events) = Len(j.events) + Len(b.events)
    BY <2>1, <2>2, ConcatProperties
  <2>4. Index(j, b.events).events = j.events \o b.events
    BY <2>1, IndexSpec
  <2>. QED
    BY <2>1, <2>2, <2>3, <2>4
<1>4. /\ x \in JournalState
      /\ x.events = j.events \o b.events
      /\ x.commands = j.commands
      /\ x.boundaries = Append(j.boundaries, Len(j.events) + Len(b.events))
  BY <1>3, IndexSpec
<1>5. k = [x EXCEPT !.commands = [x.commands EXCEPT ![b.command] = r]]
  BY <1>2 DEF ApplyTransition
<1>. HIDE DEF k, x, r
<1>6. /\ k \in JournalState
      /\ k.events = x.events /\ k.versions = x.versions /\ k.keys = x.keys
      /\ k.boundaries = x.boundaries
      /\ k.commands = [j.commands EXCEPT ![b.command] = r]
  <2>1. [x.commands EXCEPT ![b.command] = r] \in [Commands -> Receipt \cup {NoReceipt}]
    BY <1>2, <1>4 DEF JournalState
  <2>. QED
    BY <1>4, <1>5, <2>1 DEF JournalState
<1>7. \A c \in Commands : k.commands[c] = IF c = b.command THEN r ELSE j.commands[c]
  BY <1>3, <1>6 DEF JournalState
<1>8. \A c \in Commands : j.commands[c] # NoReceipt =>
          /\ j.commands[c].cursor \in Nat
          /\ j.commands[c].cursor <= Len(j.events)
  BY <1>3 DEF JournalInv, ReceiptsInLog, JournalState, Receipt
<1>9. \A i \in DOMAIN x.boundaries : x.boundaries[i] < r.first \/ r.cursor <= x.boundaries[i]
  <2>. DEFINE n == Len(j.events) + Len(b.events)
  <2>1. j.boundaries \in Seq(Nat) /\ n \in Nat
    BY <1>3 DEF JournalState
  <2>2. /\ Append(j.boundaries, n) \in Seq(Nat)
        /\ Len(Append(j.boundaries, n)) = Len(j.boundaries) + 1
        /\ \A p \in 1 .. Len(j.boundaries) : Append(j.boundaries, n)[p] = j.boundaries[p]
        /\ Append(j.boundaries, n)[Len(j.boundaries) + 1] = n
    <3>. HIDE DEF n
    <3>. QED
      BY <2>1, AppendProperties
  <2>3. /\ DOMAIN x.boundaries = 1 .. Len(j.boundaries) + 1
        /\ \A p \in 1 .. Len(j.boundaries) : x.boundaries[p] = j.boundaries[p]
        /\ x.boundaries[Len(j.boundaries) + 1] = n
    <3>1. x.boundaries = Append(j.boundaries, n)
      BY <1>4
    <3>. HIDE DEF n
    <3>. QED
      BY <2>2, <3>1, LenProperties
  <2>4. \A p \in 1 .. Len(j.boundaries) :
          j.boundaries[p] \in Nat /\ j.boundaries[p] < Len(j.events) + 1
    <3>1. /\ DOMAIN j.boundaries = 1 .. Len(j.boundaries)
          /\ \A p \in 1 .. Len(j.boundaries) : j.boundaries[p] \in Nat
      BY <2>1, LenProperties, ElementOfSeq
    <3>2. \A p \in 1 .. Len(j.boundaries) : j.boundaries[p] <= Len(j.events)
      BY <3>1 DEF JournalInv, BoundariesInLog
    <3>. QED
      BY <1>3, <3>1, <3>2
  <2>5. Len(j.boundaries) \in Nat
    BY <2>1, LenProperties
  <2>6. r.first = Len(j.events) + 1 /\ r.cursor = n
    BY <1>2
  <2>7. ASSUME NEW i \in 1 .. Len(j.boundaries) + 1
        PROVE  x.boundaries[i] < r.first \/ r.cursor <= x.boundaries[i]
    <3>. HIDE DEF n
    <3>1. CASE i = Len(j.boundaries) + 1
      BY <2>1, <2>3, <2>6, <3>1
    <3>2. CASE i \in 1 .. Len(j.boundaries)
      <4>1. x.boundaries[i] = j.boundaries[i] /\ j.boundaries[i] < Len(j.events) + 1
        BY <2>3, <2>4, <3>2
      <4>. QED
        BY <2>6, <4>1
    <3>. QED
      BY <2>5, <3>1, <3>2
  <2>. QED
    BY <2>3, <2>7
<1>10. ReceiptsInLog(k)
  <2>. SUFFICES ASSUME NEW c \in Commands, k.commands[c] # NoReceipt
                PROVE  /\ k.commands[c].command = c
                       /\ k.commands[c].first <= k.commands[c].cursor
                       /\ k.commands[c].cursor <= Len(x.events)
                       /\ \A i \in DOMAIN x.boundaries :
                           \/ x.boundaries[i] < k.commands[c].first
                           \/ k.commands[c].cursor <= x.boundaries[i]
    BY <1>6 DEF ReceiptsInLog
  <2>1. CASE c = b.command
    <3>1. r.first <= r.cursor /\ r.cursor <= Len(x.events)
      BY <1>2, <1>3
    <3>2. k.commands[c] = r
      BY <1>7, <2>1
    <3>3. r.command = c
      BY <1>2, <2>1
    <3>. QED
      BY <1>9, <3>1, <3>2, <3>3, Zenon
  <2>2. CASE c # b.command
    <3>1. ReceiptsInLog(x)
      BY <1>1 DEF JournalInv
    <3>2. k.commands[c] = x.commands[c]
      BY <1>4, <1>7, <2>2
    <3>3. x.commands[c] # NoReceipt
      BY <3>2
    <3>4. /\ x.commands[c].command = c
          /\ x.commands[c].first <= x.commands[c].cursor
          /\ x.commands[c].cursor <= Len(x.events)
          /\ \A i \in DOMAIN x.boundaries :
                \/ x.boundaries[i] < x.commands[c].first
                \/ x.commands[c].cursor <= x.boundaries[i]
      BY <3>1, <3>3, Zenon DEF ReceiptsInLog
    <3>. QED
      BY <3>2, <3>4, Zenon
  <2>. QED
    BY <2>1, <2>2
<1>11. ReceiptsApart(k)
  <2>1. ReceiptsApart(j)
    BY DEF JournalInv
  <2>. SUFFICES ASSUME NEW c \in Commands, NEW d \in Commands, c # d,
                       k.commands[c] # NoReceipt, k.commands[d] # NoReceipt
                PROVE  \/ k.commands[c].cursor < k.commands[d].first
                       \/ k.commands[d].cursor < k.commands[c].first
    BY DEF ReceiptsApart
  \* A receipt that was there ends before the new one begins.
  <2>2. ASSUME NEW o \in Commands, o # b.command, k.commands[o] # NoReceipt
        PROVE  k.commands[o] = j.commands[o] /\ k.commands[o].cursor < r.first
    <3>1. k.commands[o] = j.commands[o]
      BY <1>7, <2>2
    <3>2. j.commands[o].cursor \in Nat /\ j.commands[o].cursor <= Len(j.events)
      BY <1>8, <2>2, <3>1
    <3>3. j.commands[o].cursor < r.first
      BY <1>2, <1>3, <3>2
    <3>. QED
      BY <3>1, <3>3
  <2>3. k.commands[b.command] = r
    BY <1>3, <1>7
  <2>4. CASE c = b.command \/ d = b.command
    BY <2>2, <2>3, <2>4
  <2>5. CASE c # b.command /\ d # b.command
    <3>1. k.commands[c] = j.commands[c] /\ k.commands[d] = j.commands[d]
      BY <2>2, <2>5
    <3>. QED
      BY <2>1, <3>1, Zenon DEF ReceiptsApart
  <2>. QED
    BY <2>4, <2>5
<1>12. VersionsRise(k) /\ IndexExact(k) /\ IdsOnce(k) /\ KeysOnce(k) /\ BoundariesInLog(k)
  BY <1>1, <1>6 DEF JournalInv, VersionsRise, IndexExact, IdsOnce, KeysOnce, BoundariesInLog
<1>13. j.commands[b.command] = NoReceipt
  BY DEF Appends, Plannable, Known
<1>. QED
  BY <1>4, <1>6, <1>10, <1>11, <1>12, <1>13 DEF JournalInv, k, r

------------------------------------------------------------------------------
(* Single events, pages, and the empty journal                               *)

\* A single event that is accepted extends the log: that its version is past
\* the scan of its stream puts it past the version index as well.
LEMMA ApplyLegacyKeeps ==
    ASSUME NEW j, JournalInv(j), NEW e \in Event, NEW expected, AppendsLegacy(j, e, expected)
    PROVE  LET k == ApplyLegacy(j, e)
           IN  /\ JournalInv(k)
               /\ k.events = j.events \o <<e>>
               /\ k.boundaries = Append(j.boundaries, Len(j.events) + 1)
               /\ k.commands = j.commands
<1>1. j \in JournalState /\ IndexExact(j)
  BY DEF JournalInv
<1>2. /\ <<e>> \in Seq(Event) /\ <<e>> # << >> /\ Len(<<e>>) = 1
      /\ DOMAIN <<e>> = {1} /\ <<e>>[1] = e
  OBVIOUS
<1>3. \A i \in DOMAIN j.events : /\ j.events[i].id # e.id
                                 /\ j.events[i].stream = e.stream =>
                                        j.events[i].version < e.version
  BY DEF AppendsLegacy, EventSet, StreamOf
<1>4. e.key \notin j.keys
  BY DEF AppendsLegacy
<1>5. e.stream \in Aggregates => j.versions[e.stream] < e.version
  <2>1. e.version \in Nat /\ 0 < e.version
    BY JournalAssumption DEF Event, Version
  <2>. QED
    BY <1>1, <1>3, <2>1 DEF IndexExact
<1>6. Extends(j, <<e>>)
  <2>. DEFINE es == <<e>>
  <2>1. es \in Seq(Event) /\ es # << >> /\ DOMAIN es = {1} /\ es[1] = e
    BY <1>2
  <2>. HIDE DEF es
  <2>2. Extends(j, es)
    BY <1>3, <1>4, <1>5, <2>1 DEF Extends
  <2>. QED
    BY <2>2 DEF es
<1>. QED
  BY <1>1, <1>2, <1>6, IndexKeeps, IndexSpec DEF ApplyLegacy

\* A page ends at a commit boundary between the cursor and the end of the log,
\* and past the cursor unless the log ends there.
LEMMA PageEndSpec ==
    ASSUME NEW j, JournalInv(j), NEW cursor \in 0 .. Len(j.events), NEW limit \in Nat
    PROVE  /\ PageEnd(j, cursor, limit) \in cursor .. Len(j.events)
           /\ \/ PageEnd(j, cursor, limit) = cursor
              \/ \E i \in DOMAIN j.boundaries : j.boundaries[i] = PageEnd(j, cursor, limit)
           /\ cursor < Len(j.events) => PageEnd(j, cursor, limit) > cursor
<1>. DEFINE all == { j.boundaries[i] : i \in DOMAIN j.boundaries }
            past == all \ 0 .. cursor
            fits == { x \in past : x - cursor <= limit }
            end == PageEnd(j, cursor, limit)
<1>1. Len(j.events) \in Nat /\ j.boundaries \in Seq(Nat)
  BY LenProperties DEF JournalInv, JournalState
<1>2. \A x \in all : x \in Nat /\ x <= Len(j.events)
  <2>1. \A i \in DOMAIN j.boundaries : j.boundaries[i] \in Nat
    BY <1>1, LenProperties, ElementOfSeq
  <2>. QED
    BY <2>1 DEF JournalInv, BoundariesInLog
<1>3. cursor < Len(j.events) => Len(j.events) \in all
  <2>1. j.events = << >> => Len(j.events) = 0
    OBVIOUS
  <2>2. cursor < Len(j.events) => j.events # << >>
    BY <1>1, <2>1
  <2>. QED
    BY <2>2 DEF JournalInv, BoundariesInLog
<1>4. end = IF past = {} THEN cursor
            ELSE IF fits = {} THEN CHOOSE x \in past : \A y \in past : x <= y
            ELSE CHOOSE x \in fits : \A y \in fits : y <= x
  BY DEF PageEnd
<1>5. past # {} => end \in past
  <2>1. CASE past # {} /\ fits = {}
    <3>1. past \in SUBSET Nat
      BY <1>2
    <3>. HIDE DEF past, fits, end
    <3>2. \E x \in past : \A y \in past : x <= y
      BY <2>1, <3>1, LeastExists
    <3>. QED
      BY <1>4, <2>1, <3>2
  <2>2. CASE past # {} /\ fits # {}
    <3>1. fits \in SUBSET (0 .. Len(j.events)) /\ fits \subseteq past
      BY <1>2
    <3>. HIDE DEF past, fits, end
    <3>2. \E x \in fits : \A y \in fits : y <= x
      BY <1>1, <2>2, <3>1, GreatestExists
    <3>. QED
      BY <1>4, <2>2, <3>1, <3>2
  <2>. QED
    BY <2>1, <2>2
<1>6. past = {} => end = cursor
  BY <1>4
<1>7. \A x \in past : x > cursor /\ x <= Len(j.events) /\ x \in Nat
  BY <1>1, <1>2
<1>8. cursor < Len(j.events) => past # {}
  BY <1>1, <1>3
<1>9. cursor \in Nat /\ cursor <= Len(j.events)
  BY <1>1
<1>10. past \subseteq all
  OBVIOUS
<1>11. \A x \in all : \E i \in DOMAIN j.boundaries : j.boundaries[i] = x
  OBVIOUS
<1>. HIDE DEF past, fits, end, all
<1>12. /\ end \in cursor .. Len(j.events)
       /\ end = cursor \/ \E i \in DOMAIN j.boundaries : j.boundaries[i] = end
       /\ cursor < Len(j.events) => end > cursor
  BY <1>1, <1>5, <1>6, <1>7, <1>8, <1>9, <1>10, <1>11
<1>. QED
  BY <1>12 DEF end

\* The scan that single events are checked against and the index that
\* transitions are checked against agree.
LEMMA CurrentVersionIsIndexed ==
    ASSUME NEW j, JournalInv(j), NEW a \in Aggregates
    PROVE  CurrentVersion(j.events, a) = j.versions[a]
<1>. DEFINE scanned == { e.version : e \in StreamOf(j.events, a) } \cup {0}
<1>1. IndexExact(j) /\ j.versions[a] \in Nat
  BY DEF JournalInv, JournalState
<1>2. /\ j.versions[a] \in scanned
      /\ \A w \in scanned : w <= j.versions[a]
  BY <1>1 DEF IndexExact, StreamOf, EventSet
<1>3. \A w \in scanned : w \in Int
  <2>1. j.events \in Seq(Event)
    BY DEF JournalInv, JournalState
  <2>2. \A i \in DOMAIN j.events : j.events[i] \in Event
    BY <2>1, LenProperties, ElementOfSeq
  <2>3. \A x \in Event : x.version \in Int
    BY JournalAssumption DEF Event, Version
  <2>. QED
    BY <2>2, <2>3 DEF StreamOf, EventSet
<1>. HIDE DEF scanned
<1>4. \A v \in scanned : (\A w \in scanned : w <= v) => v = j.versions[a]
  BY <1>2, <1>3
<1>5. (CHOOSE v \in scanned : \A w \in scanned : w <= v) = j.versions[a]
  BY <1>2, <1>4
<1>. QED
  BY <1>5 DEF scanned, CurrentVersion

\* The empty journal of JournalState::default is well-formed.
LEMMA EmptyJournalKeeps == JournalInv(EmptyJournal)
<1>1. EmptyJournal \in JournalState
  BY JournalAssumption DEF EmptyJournal, JournalState
<1>2. EmptyJournal.events = << >> /\ EmptyJournal.boundaries = << >>
      /\ EmptyJournal.commands = [c \in Commands |-> NoReceipt]
      /\ EmptyJournal.versions = [a \in Aggregates |-> 0]
  BY DEF EmptyJournal
<1>3. DOMAIN EmptyJournal.events = {} /\ DOMAIN EmptyJournal.boundaries = {}
  BY <1>2
<1>. QED
  BY <1>1, <1>2, <1>3 DEF JournalInv, ReceiptsInLog, ReceiptsApart, VersionsRise, IndexExact,
                          IdsOnce, KeysOnce, BoundariesInLog
==============================================================================
