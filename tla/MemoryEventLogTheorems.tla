------------------------ MODULE MemoryEventLogTheorems ------------------------
(***************************************************************************)
(* The safety of MemoryEventLog for every value of the constants.  Inv is    *)
(* inductive: the journal satisfies JournalInv of JournalTheorems, what      *)
(* callers were told stands, and every reader holds a prefix of the log that *)
(* ends on a commit boundary.  The properties that the model checker looks   *)
(* at on a small instance follow from it.  With AllDescribe receipts describe *)
(* the log for ever; with LogInv every step of the adapter is a step of the   *)
(* contract, EventStore, or none.                                            *)
(***************************************************************************)
EXTENDS MemoryEventLog, JournalTheorems

ReaderInv ==
    /\ cursor \in [Readers -> Nat]
    /\ seen \in [Readers -> Seq(Event)]
    /\ \A r \in Readers :
        /\ cursor[r] <= Len(journal.events)
        /\ IsBoundary(journal, cursor[r])
        /\ seen[r] = SubSeq(journal.events, 1, cursor[r])

AckedInv == acked \subseteq Receipt /\ AckedStands

Inv == JournalInv(journal) /\ AckedInv /\ ReaderInv

\* What a commit does to the journal, as far as readers and callers see it.
Grows ==
    /\ JournalInv(journal')
    /\ \E es \in Seq(Event) :
        /\ journal'.events = journal.events \o es
        /\ journal'.boundaries = Append(journal.boundaries, Len(journal.events) + Len(es))
    /\ \A c \in Commands :
        journal.commands[c] # NoReceipt => journal'.commands[c] = journal.commands[c]

\* A committed transition (plan_transition, apply_transition) extends the log and
\* keeps the journal well-formed.
LEMMA CommitGrows ==
    ASSUME JournalInv(journal), NEW b \in Batches, CommitNew(b)
    PROVE  /\ Grows
           /\ NewReceipt(journal, b) \in Receipt
           /\ acked' = acked \cup {NewReceipt(journal, b)}
           /\ journal'.commands[NewReceipt(journal, b).command] = NewReceipt(journal, b)
<1>. DEFINE receipt == NewReceipt(journal, b)
<1>1. b \in Batch /\ b.events \in Seq(Event) /\ b.command \in Commands
  BY StoreAssumption DEF Batch
<1>2. /\ Appends(journal, b)
      /\ journal' = ApplyTransition(journal, b, receipt)
      /\ acked' = acked \cup {receipt}
  BY DEF CommitNew
<1>3. receipt \in Receipt /\ receipt.command = b.command
  BY <1>1, <1>2, NewReceiptType
<1>. HIDE DEF receipt
<1>4. /\ JournalInv(journal')
      /\ journal'.events = journal.events \o b.events
      /\ journal'.boundaries = Append(journal.boundaries, Len(journal.events) + Len(b.events))
      /\ journal.commands[b.command] = NoReceipt
      /\ journal'.commands = [journal.commands EXCEPT ![b.command] = receipt]
  BY <1>1, <1>2, ApplyTransitionKeeps DEF receipt
<1>5. \A c \in Commands : journal'.commands[c]
                              = IF c = b.command THEN receipt ELSE journal.commands[c]
  BY <1>4 DEF JournalInv, JournalState
<1>. QED
  BY <1>1, <1>2, <1>3, <1>4, <1>5 DEF Grows, receipt

\* So does a single event of the compatibility path (plan_legacy, apply_legacy).
LEMMA AppendGrows ==
    ASSUME JournalInv(journal), NEW e \in Events, NEW expected, AppendExpected(e, expected)
    PROVE  Grows
<1>1. e \in Event /\ AppendsLegacy(journal, e, expected) /\ journal' = ApplyLegacy(journal, e)
  BY StoreAssumption DEF AppendExpected
<1>2. <<e>> \in Seq(Event) /\ Len(<<e>>) = 1
  BY <1>1
<1>3. /\ JournalInv(journal')
      /\ journal'.events = journal.events \o <<e>>
      /\ journal'.boundaries = Append(journal.boundaries, Len(journal.events) + 1)
      /\ journal'.commands = journal.commands
  BY <1>1, ApplyLegacyKeeps
<1>. QED
  BY <1>2, <1>3 DEF Grows

\* A prefix of the log is a prefix of any longer log, and its end stays a
\* commit boundary.
LEMMA ReadersKeep ==
    ASSUME Inv, Grows, UNCHANGED <<cursor, seen>>
    PROVE  ReaderInv'
<1>1. PICK es \in Seq(Event) :
        /\ journal'.events = journal.events \o es
        /\ journal'.boundaries = Append(journal.boundaries, Len(journal.events) + Len(es))
  BY DEF Grows
<1>2. /\ journal.events \in Seq(Event) /\ journal.boundaries \in Seq(Nat)
      /\ Len(journal.events) \in Nat /\ Len(es) \in Nat
      /\ Len(journal.events \o es) = Len(journal.events) + Len(es)
  BY LenProperties, ConcatProperties DEF Inv, JournalInv, JournalState
<1>3. ASSUME NEW n \in Nat, n <= Len(journal.events)
      PROVE  /\ SubSeq(journal'.events, 1, n) = SubSeq(journal.events, 1, n)
             /\ n <= Len(journal'.events)
  <2>1. CASE n = 0
    <3>1. SubSeq(journal'.events, 1, 0) = << >> /\ SubSeq(journal.events, 1, 0) = << >>
      BY SubSeqEmpty
    <3>. QED
      BY <1>1, <1>2, <2>1, <3>1
  <2>2. CASE n # 0
    <3>1. 1 \in 1 .. Len(journal.events) /\ n \in 1 .. Len(journal.events)
      BY <1>2, <1>3, <2>2
    <3>2. SubSeq(journal.events \o es, 1, n) = SubSeq(journal.events, 1, n)
      BY <1>2, <3>1, SubSeqOfConcat1
    <3>. QED
      BY <1>1, <1>2, <1>3, <3>2
  <2>. QED
    BY <2>1, <2>2
<1>4. ASSUME NEW n, IsBoundary(journal, n)
      PROVE  IsBoundary(journal', n)
  <2>1. Len(journal.events) + Len(es) \in Nat
    BY <1>2
  <2>2. /\ DOMAIN journal'.boundaries = 1 .. Len(journal.boundaries) + 1
        /\ DOMAIN journal.boundaries = 1 .. Len(journal.boundaries)
        /\ Len(journal.boundaries) \in Nat
        /\ \A i \in 1 .. Len(journal.boundaries) :
               journal'.boundaries[i] = journal.boundaries[i]
    BY <1>1, <1>2, <2>1, AppendProperties, LenProperties
  <2>. QED
    BY <1>4, <2>2 DEF IsBoundary
<1>. QED
  BY <1>3, <1>4 DEF Inv, ReaderInv

\* Receipts given out stand as long as no recorded command changes.
LEMMA AckedKeeps ==
    ASSUME Inv, Grows, NEW R \in SUBSET Receipt, acked' = acked \cup R,
           \A r \in R : journal'.commands[r.command] = r
    PROVE  AckedInv'
<1>1. ASSUME NEW r \in acked
      PROVE  journal'.commands[r.command] = r
  <2>1. r \in Receipt /\ r.command \in Commands /\ journal.commands[r.command] = r
    BY DEF Inv, AckedInv, AckedStands, Receipt
  <2>2. r # NoReceipt
    BY <2>1, JournalAssumption
  <2>. QED
    BY <2>1, <2>2 DEF Grows
<1>. QED
  BY <1>1 DEF Inv, AckedInv, AckedStands

\* A new store satisfies the invariant.
LEMMA InitInv == Init => Inv
<1>. SUFFICES ASSUME Init PROVE Inv
  OBVIOUS
<1>1. JournalInv(journal)
  BY EmptyJournalKeeps DEF Init
<1>2. AckedInv
  BY DEF Init, AckedInv, AckedStands
<1>3. ReaderInv
  <2>1. journal.events = << >> /\ Len(journal.events) = 0
    BY DEF Init, EmptyJournal
  <2>2. SubSeq(journal.events, 1, 0) = << >>
    BY SubSeqEmpty
  <2>. QED
    BY <2>1, <2>2 DEF Init, ReaderInv, IsBoundary
<1>. QED
  BY <1>1, <1>2, <1>3 DEF Inv

\* Every operation of the store preserves the invariant.
LEMMA NextInv == Inv /\ [Next]_vars => Inv'
<1>. SUFFICES ASSUME Inv, [Next]_vars PROVE Inv'
  OBVIOUS
<1>1. ASSUME NEW b \in Batches, CommitNew(b)
      PROVE  Inv'
  <2>1. /\ Grows
        /\ NewReceipt(journal, b) \in Receipt
        /\ acked' = acked \cup {NewReceipt(journal, b)}
        /\ journal'.commands[NewReceipt(journal, b).command] = NewReceipt(journal, b)
    BY <1>1, CommitGrows DEF Inv
  <2>2. AckedInv'
    <3>. DEFINE R == {NewReceipt(journal, b)}
    <3>1. /\ R \in SUBSET Receipt /\ acked' = acked \cup R
          /\ \A r \in R : journal'.commands[r.command] = r
      BY <2>1
    <3>. HIDE DEF R
    <3>. QED
      BY <2>1, <3>1, AckedKeeps
  <2>3. ReaderInv'
    BY <1>1, <2>1, ReadersKeep DEF CommitNew
  <2>. QED
    BY <2>1, <2>2, <2>3 DEF Inv, Grows
<1>2. ASSUME NEW c \in Commands, journal.commands[c] # NoReceipt,
             acked' = acked \cup {journal.commands[c]},
             UNCHANGED <<journal, log, cursor, seen>>
      PROVE  Inv'
  <2>1. journal.commands[c] \in Receipt /\ journal.commands[c].command = c
    BY <1>2 DEF Inv, JournalInv, ReceiptsInLog, JournalState
  <2>2. AckedInv'
    BY <1>2, <2>1 DEF Inv, AckedInv, AckedStands
  <2>3. JournalInv(journal') /\ ReaderInv'
    BY <1>2 DEF Inv, ReaderInv
  <2>. QED
    BY <2>2, <2>3 DEF Inv
<1>3. ASSUME NEW b \in Batches, CommitReplayed(b)
      PROVE  Inv'
  <2>1. b.command \in Commands /\ journal.commands[b.command] # NoReceipt
    BY <1>3, StoreAssumption DEF CommitReplayed, Replays, Known, Batch
  <2>. QED
    BY <1>2, <1>3, <2>1 DEF CommitReplayed
<1>4. ASSUME NEW c \in Commands, ReadCommand(c)
      PROVE  Inv'
  BY <1>2, <1>4 DEF ReadCommand
<1>5. ASSUME NEW e \in Events, NEW expected, AppendExpected(e, expected)
      PROVE  Inv'
  <2>1. Grows
    BY <1>5, AppendGrows DEF Inv
  <2>2. AckedInv'
    <3>. DEFINE R == {}
    <3>1. /\ R \in SUBSET Receipt /\ acked' = acked \cup R
          /\ \A r \in R : journal'.commands[r.command] = r
      BY <1>5 DEF AppendExpected
    <3>. HIDE DEF R
    <3>. QED
      BY <2>1, <3>1, AckedKeeps
  <2>3. ReaderInv'
    BY <1>5, <2>1, ReadersKeep DEF AppendExpected
  <2>. QED
    BY <2>1, <2>2, <2>3 DEF Inv, Grows
<1>6. ASSUME NEW r \in Readers, NEW limit \in 1 .. MaxPage, ReadFrom(r, limit)
      PROVE  Inv'
  <2>. DEFINE end == PageEnd(journal, cursor[r], limit)
  <2>1. /\ journal.events \in Seq(Event) /\ Len(journal.events) \in Nat
        /\ cursor[r] \in Nat /\ cursor[r] \in 0 .. Len(journal.events)
        /\ cursor \in [Readers -> Nat] /\ seen \in [Readers -> Seq(Event)]
    BY LenProperties DEF Inv, ReaderInv, JournalInv, JournalState
  <2>2. /\ end \in cursor[r] .. Len(journal.events)
        /\ \/ end = cursor[r]
           \/ \E i \in DOMAIN journal.boundaries : journal.boundaries[i] = end
    <3>1. limit \in Nat
      OBVIOUS
    <3>. QED
      BY <2>1, <3>1, PageEndSpec DEF Inv
  <2>3. /\ cursor' = [cursor EXCEPT ![r] = end]
        /\ seen' = [seen EXCEPT ![r] = @ \o SubSeq(journal.events, cursor[r] + 1, end)]
        /\ UNCHANGED <<journal, log, acked>>
    BY <1>6 DEF ReadFrom, PageEvents
  <2>. HIDE DEF end
  <2>4. IsBoundary(journal, end)
    BY <2>2 DEF Inv, ReaderInv, IsBoundary
  <2>5. end \in Nat /\ end <= Len(journal.events)
    BY <2>1, <2>2
  <2>6. seen[r] \o SubSeq(journal.events, cursor[r] + 1, end)
            = SubSeq(journal.events, 1, end)
    <3>1. /\ 1 \in 1 .. Len(journal.events) + 1
          /\ cursor[r] \in 1 - 1 .. Len(journal.events)
          /\ end \in cursor[r] .. Len(journal.events)
      BY <2>1, <2>2
    <3>2. SubSeq(journal.events, 1, cursor[r]) \o SubSeq(journal.events, cursor[r] + 1, end)
              = SubSeq(journal.events, 1, end)
      BY <2>1, <3>1, ConcatAdjacentSubSeq
    <3>. QED
      BY <3>2 DEF Inv, ReaderInv
  <2>7. SubSeq(journal.events, 1, end) \in Seq(Event)
    <3>1. \A i \in 1 .. end : journal.events[i] \in Event
      BY <2>1, <2>5, ElementOfSeq
    <3>. QED
      BY <2>5, <3>1, SubSeqProperties
  <2>8. ReaderInv'
    <3>1. /\ cursor' \in [Readers -> Nat] /\ cursor'[r] = end
          /\ seen' \in [Readers -> Seq(Event)] /\ seen'[r] = SubSeq(journal.events, 1, end)
          /\ \A q \in Readers \ {r} : cursor'[q] = cursor[q] /\ seen'[q] = seen[q]
      BY <2>1, <2>3, <2>5, <2>6, <2>7
    <3>2. journal' = journal
      BY <2>3
    <3>3. \A q \in Readers :
            /\ cursor'[q] <= Len(journal.events)
            /\ IsBoundary(journal, cursor'[q])
            /\ seen'[q] = SubSeq(journal.events, 1, cursor'[q])
      BY <2>4, <2>5, <3>1 DEF Inv, ReaderInv
    <3>. QED
      BY <3>1, <3>2, <3>3 DEF ReaderInv
  <2>9. JournalInv(journal') /\ AckedInv'
    BY <2>3 DEF Inv, AckedInv, AckedStands
  <2>. QED
    BY <2>8, <2>9 DEF Inv
<1>7. CASE UNCHANGED vars
  BY <1>7 DEF vars, Inv, AckedInv, AckedStands, ReaderInv
<1>. QED
  BY <1>1, <1>3, <1>4, <1>5, <1>6, <1>7
     DEF Next, CommitTransition, AppendIdempotentExpected

\* The journal is well-formed, readers stand on command boundaries and what was
\* acknowledged is recorded, in every reachable state of the store.
THEOREM Invariance == Spec => []Inv
  BY InitInv, NextInv, PTL DEF Spec

------------------------------------------------------------------------------
(* The properties of MemoryEventLog                                          *)

\* The journal, the ghosts and the readers keep their types; in particular no
\* receipt and no index holds a version past the largest one (the checked_add
\* of plan_transition).
THEOREM TypeCorrect == Spec => []TypeOK
<1>1. Inv => TypeOK
  BY DEF Inv, AckedInv, ReaderInv, TypeOK, JournalInv
<1>. QED
  BY <1>1, Invariance, PTL

\* A command's effects are in the log once: no two receipts share an event.
THEOREM CommandsStayDisjoint == Spec => []CommandsDisjoint
<1>1. Inv => CommandsDisjoint
  BY DEF Inv, JournalInv, ReceiptsApart, CommandsDisjoint
<1>. QED
  BY <1>1, Invariance, PTL

\* What a caller was told was committed is what the store answers ever after.
THEOREM AcknowledgementsStand == Spec => []AckedStands
<1>1. Inv => AckedStands
  BY DEF Inv, AckedInv
<1>. QED
  BY <1>1, Invariance, PTL

\* The versions of a stream only rise, whichever path its events take.
THEOREM StreamsAlwaysRise == Spec => []StreamsRise
<1>1. Inv => StreamsRise
  BY DEF Inv, JournalInv, VersionsRise, StreamsRise
<1>. QED
  BY <1>1, Invariance, PTL

\* The index that transitions are checked against never disagrees with the
\* scan that single events are checked against.
THEOREM IndexAlwaysAgrees == Spec => []IndexAgrees
<1>1. Inv => IndexAgrees
  BY CurrentVersionIsIndexed DEF Inv, IndexAgrees
<1>. QED
  BY <1>1, Invariance, PTL

\* An event id and an idempotency key are stored at most once.
THEOREM IdentitiesStayUnique == Spec => []IdentitiesUnique
<1>1. Inv => IdentitiesUnique
  BY DEF Inv, JournalInv, IdsOnce, KeysOnce, IdentitiesUnique
<1>. QED
  BY <1>1, Invariance, PTL

\* The log is well formed: its streams rise, the index agrees with it, and nothing is
\* in it twice.
THEOREM LogStaysSound == Spec => []LogSound
<1>1. StreamsRise /\ IndexAgrees /\ IdentitiesUnique => LogSound
  BY DEF LogSound
<1>. QED
  BY <1>1, StreamsAlwaysRise, IndexAlwaysAgrees, IdentitiesStayUnique, PTL

\* Readers have exactly the events before their cursors, and no cursor ever
\* points inside a transaction.
THEOREM ReadersAlwaysSeePrefix == Spec => []ReadersSeePrefix
<1>1. ASSUME Inv, NEW r \in Readers, NEW c \in Commands, journal.commands[c] # NoReceipt
      PROVE  ~(journal.commands[c].first <= cursor[r] /\ cursor[r] < journal.commands[c].cursor)
  <2>1. /\ journal.commands[c].first \in Nat \ {0} /\ journal.commands[c].cursor \in Nat
        /\ \A i \in DOMAIN journal.boundaries :
               \/ journal.boundaries[i] < journal.commands[c].first
               \/ journal.commands[c].cursor <= journal.boundaries[i]
    BY <1>1 DEF Inv, JournalInv, ReceiptsInLog, JournalState, Receipt
  <2>2. cursor[r] \in Nat /\ IsBoundary(journal, cursor[r])
    BY <1>1 DEF Inv, ReaderInv
  <2>. QED
    BY <2>1, <2>2 DEF IsBoundary
<1>2. Inv => ReadersSeePrefix
  BY <1>1 DEF Inv, ReaderInv, ReadersSeePrefix
<1>. QED
  BY <1>2, Invariance, PTL

\* Paging never gets stuck before the end of the log, whatever the limit.
THEOREM PagesAlwaysProgress == Spec => []PagesProgress
<1>1. ASSUME Inv, NEW r \in Readers, NEW limit \in 1 .. MaxPage,
             cursor[r] < Len(journal.events)
      PROVE  PageEnd(journal, cursor[r], limit) > cursor[r]
  <2>1. limit \in Nat /\ JournalInv(journal)
    BY <1>1 DEF Inv
  <2>2. cursor[r] \in 0 .. Len(journal.events)
    BY <1>1, LenProperties DEF Inv, ReaderInv, JournalInv, JournalState
  <2>. QED
    BY <1>1, <2>1, <2>2, PageEndSpec
<1>2. Inv => PagesProgress
  BY <1>1 DEF PagesProgress
<1>. QED
  BY <1>2, Invariance, PTL

\* No step takes an event out of the log, moves one, or changes a receipt.
THEOREM LogAppendOnly == Spec => AppendOnly
<1>. DEFINE A == /\ SubSeq(journal'.events, 1, Len(journal.events)) = journal.events
                 /\ \A c \in Commands :
                        journal.commands[c] # NoReceipt =>
                            journal'.commands[c] = journal.commands[c]
<1>1. ASSUME Inv, Grows
      PROVE  A
  <2>1. PICK es \in Seq(Event) : journal'.events = journal.events \o es
    BY <1>1 DEF Grows
  <2>2. journal.events \in Seq(Event) /\ Len(journal.events) \in Nat
    BY <1>1, LenProperties DEF Inv, JournalInv, JournalState
  <2>3. SubSeq(journal.events \o es, 1, Len(journal.events)) = journal.events
    <3>1. CASE Len(journal.events) = 0
      <4>1. journal.events = << >>
        BY <2>2, <3>1, EmptySeq
      <4>. QED
        BY <3>1, <4>1, SubSeqEmpty
    <3>2. CASE Len(journal.events) # 0
      <4>1. /\ 1 \in 1 .. Len(journal.events)
            /\ Len(journal.events) \in 1 .. Len(journal.events)
        BY <2>2, <3>2
      <4>. QED
        BY <2>2, <4>1, SubSeqOfConcat1, SubSeqFull
    <3>. QED
      BY <3>1, <3>2
  <2>. QED
    BY <1>1, <2>1, <2>3 DEF Grows
<1>2. ASSUME Inv, UNCHANGED journal
      PROVE  A
  <2>1. journal.events \in Seq(Event)
    BY <1>2 DEF Inv, JournalInv, JournalState
  <2>. QED
    BY <1>2, <2>1, SubSeqFull
<1>3. Inv /\ [Next]_vars => [A]_vars
  <2>. SUFFICES ASSUME Inv, Next PROVE A
    OBVIOUS
  <2>. HIDE DEF A
  <2>1. ASSUME NEW b \in Batches, CommitTransition(b) PROVE A
    BY <1>1, <1>2, <2>1, CommitGrows DEF CommitTransition, CommitReplayed, Inv
  <2>2. ASSUME NEW c \in Commands, ReadCommand(c) PROVE A
    BY <1>2, <2>2 DEF ReadCommand
  <2>3. ASSUME NEW e \in Events, NEW v, AppendExpected(e, v) PROVE A
    BY <1>1, <2>3, AppendGrows DEF Inv
  <2>4. ASSUME NEW r \in Readers, NEW limit \in 1 .. MaxPage, ReadFrom(r, limit) PROVE A
    BY <1>2, <2>4 DEF ReadFrom
  <2>. QED
    BY <2>1, <2>2, <2>3, <2>4 DEF Next, AppendIdempotentExpected
<1>. QED
  BY <1>3, Invariance, PTL DEF Spec, AppendOnly

------------------------------------------------------------------------------
(* Receipts                                                                  *)
(*                                                                           *)
(* What plan_transition writes into a receipt before index_event runs is what *)
(* the log then has at the receipt's place, and later commits leave it there. *)

\* The part of ReceiptsDescribeLog that is about one receipt.
Describes(j, r) ==
    /\ r.ids = [i \in 1 .. r.cursor - r.first + 1 |-> j.events[r.first + i - 1].id]
    /\ IsBoundary(j, r.first - 1) /\ IsBoundary(j, r.cursor)
    /\ \A a \in DOMAIN r.versions :
        r.versions[a] = CurrentVersion(SubSeq(j.events, 1, r.cursor), a)

AllDescribe(j) ==
    \A c \in Commands : j.commands[c] # NoReceipt => Describes(j, j.commands[c])

------------------------------------------------------------------------------
(* One longer log                                                            *)

Prolongs(k, j, es) ==
    /\ \A n \in 0 .. Len(j.events) : SubSeq(k.events, 1, n) = SubSeq(j.events, 1, n)
    /\ \A i \in 1 .. Len(j.events) : k.events[i] = j.events[i]
    /\ \A i \in 1 .. Len(es) : k.events[Len(j.events) + i] = es[i]
    /\ Len(k.events) = Len(j.events) + Len(es)
    /\ \A n : IsBoundary(j, n) => IsBoundary(k, n)
    /\ IsBoundary(k, Len(j.events) + Len(es))

\* A longer log has the same prefixes and the same boundaries.
LEMMA Longer ==
    ASSUME NEW j, NEW k, NEW es \in Seq(Event),
           j.events \in Seq(Event), j.boundaries \in Seq(Nat),
           k.events = j.events \o es,
           k.boundaries = Append(j.boundaries, Len(j.events) + Len(es))
    PROVE  Prolongs(k, j, es)
<1>1. /\ Len(j.events) \in Nat /\ Len(es) \in Nat /\ Len(j.boundaries) \in Nat
      /\ DOMAIN j.events = 1 .. Len(j.events) /\ DOMAIN j.boundaries = 1 .. Len(j.boundaries)
  BY LenProperties
<1>2. /\ Len(j.events \o es) = Len(j.events) + Len(es)
      /\ \A i \in 1 .. Len(j.events) + Len(es) :
            (j.events \o es)[i] = IF i <= Len(j.events) THEN j.events[i]
                                  ELSE es[i - Len(j.events)]
  BY ConcatProperties
<1>3. ASSUME NEW n \in 0 .. Len(j.events)
      PROVE  SubSeq(k.events, 1, n) = SubSeq(j.events, 1, n)
  <2>1. CASE n = 0
    BY <2>1, SubSeqEmpty
  <2>2. CASE n # 0
    <3>1. 1 \in 1 .. Len(j.events) /\ n \in 1 .. Len(j.events)
      BY <1>1, <2>2
    <3>2. SubSeq(j.events \o es, 1, n) = SubSeq(j.events, 1, n)
      BY <3>1, SubSeqOfConcat1
    <3>. QED
      BY <3>2
  <2>. QED
    BY <2>1, <2>2
<1>4. \A i \in 1 .. Len(j.events) : k.events[i] = j.events[i]
  BY <1>1, <1>2
<1>5. ASSUME NEW i \in 1 .. Len(es)
      PROVE  k.events[Len(j.events) + i] = es[i]
  <2>1. /\ Len(j.events) + i \in 1 .. Len(j.events) + Len(es)
        /\ ~(Len(j.events) + i <= Len(j.events))
        /\ Len(j.events) + i - Len(j.events) = i
    BY <1>1
  <2>. QED
    BY <1>2, <2>1
<1>6. /\ DOMAIN k.boundaries = 1 .. Len(j.boundaries) + 1
      /\ \A i \in 1 .. Len(j.boundaries) : k.boundaries[i] = j.boundaries[i]
      /\ k.boundaries[Len(j.boundaries) + 1] = Len(j.events) + Len(es)
  <2>1. Len(j.events) + Len(es) \in Nat
    BY <1>1
  <2>. QED
    BY <1>1, <2>1, AppendProperties, LenProperties
<1>7. \A n : IsBoundary(j, n) => IsBoundary(k, n)
  BY <1>1, <1>6 DEF IsBoundary
<1>8. IsBoundary(k, Len(j.events) + Len(es))
  <2>1. Len(j.boundaries) + 1 \in DOMAIN k.boundaries
    BY <1>1, <1>6
  <2>. QED
    BY <1>6, <2>1, Zenon DEF IsBoundary
<1>. QED
  BY <1>2, <1>3, <1>4, <1>5, <1>7, <1>8 DEF Prolongs

\* Counted from its first event, a receipt's positions stay within its cursor.
LEMMA WithinCursor ==
    ASSUME NEW first \in Nat \ {0}, NEW last \in Nat, NEW len \in Nat, last <= len,
           NEW i \in 1 .. last - first + 1
    PROVE  first + i - 1 \in 1 .. len
  OBVIOUS

\* So a receipt that described the log goes on to describe it.
LEMMA DescribesKeeps ==
    ASSUME NEW j, NEW k, NEW es \in Seq(Event),
           j.events \in Seq(Event), j.boundaries \in Seq(Nat),
           k.events = j.events \o es,
           k.boundaries = Append(j.boundaries, Len(j.events) + Len(es)),
           NEW r \in Receipt, r.cursor <= Len(j.events), Describes(j, r)
    PROVE  Describes(k, r)
<1>1. r.first \in Nat \ {0} /\ r.cursor \in Nat /\ Len(j.events) \in Nat
  BY LenProperties DEF Receipt
<1>2. /\ \A n \in 0 .. Len(j.events) : SubSeq(k.events, 1, n) = SubSeq(j.events, 1, n)
      /\ \A i \in 1 .. Len(j.events) : k.events[i] = j.events[i]
      /\ \A n : IsBoundary(j, n) => IsBoundary(k, n)
  BY Longer DEF Prolongs
<1>3. \A i \in 1 .. r.cursor - r.first + 1 : r.first + i - 1 \in 1 .. Len(j.events)
  BY <1>1, WithinCursor
<1>4. r.ids = [i \in 1 .. r.cursor - r.first + 1 |-> k.events[r.first + i - 1].id]
  BY <1>2, <1>3 DEF Describes
<1>5. SubSeq(k.events, 1, r.cursor) = SubSeq(j.events, 1, r.cursor)
  BY <1>1, <1>2
<1>. QED
  BY <1>2, <1>4, <1>5 DEF Describes

------------------------------------------------------------------------------
(* A new receipt                                                             *)

\* checked_add counts up to where index_event then is: the last event a batch has for
\* an aggregate carries the version that its receipt reports.
LEMMA VersionsCounted ==
    ASSUME NEW j \in JournalState, NEW b \in Batch, Contiguous(j, b), NEW a \in Aggregates
    PROVE  IndexedVersions(j.versions, b.events)[a]
               = j.versions[a] + Written(b, a, Len(b.events))
<1>1. /\ b.events \in Seq(Event) /\ Len(b.events) \in Nat
      /\ DOMAIN b.events = 1 .. Len(b.events)
      /\ j.versions \in [Aggregates -> 0 .. MaxVersion] /\ j.versions[a] \in Nat
  BY LenProperties DEF Batch, JournalState
<1>. DEFINE indexed == IndexedVersions(j.versions, b.events)[a]
            mine(n) == { i \in 1 .. n : b.events[i].stream = a }
<1>2. \/ /\ \A i \in DOMAIN b.events : b.events[i].stream # a
         /\ indexed = j.versions[a]
      \/ \E i \in DOMAIN b.events :
           /\ b.events[i].stream = a
           /\ indexed = b.events[i].version
           /\ \A k \in DOMAIN b.events : b.events[k].stream = a => k <= i
  <2>1. \A x \in Aggregates :
          \/ /\ \A i \in DOMAIN b.events : b.events[i].stream # x
             /\ IndexedVersions(j.versions, b.events)[x] = j.versions[x]
          \/ \E i \in DOMAIN b.events :
               /\ b.events[i].stream = x
               /\ IndexedVersions(j.versions, b.events)[x] = b.events[i].version
               /\ \A k \in DOMAIN b.events : b.events[k].stream = x => k <= i
    BY <1>1, IndexedVersionsSpec, Zenon
  <2>. QED
    BY <2>1, Zenon
<1>3. CASE /\ \A i \in DOMAIN b.events : b.events[i].stream # a
           /\ indexed = j.versions[a]
  <2>1. mine(Len(b.events)) = {}
    BY <1>1, <1>3
  <2>2. Written(b, a, Len(b.events)) = 0
    BY <2>1, FS_EmptySet DEF Written
  <2>. QED
    BY <1>1, <1>3, <2>2
<1>4. ASSUME NEW i \in DOMAIN b.events,
             b.events[i].stream = a, indexed = b.events[i].version,
             \A k \in DOMAIN b.events : b.events[k].stream = a => k <= i
      PROVE  indexed = j.versions[a] + Written(b, a, Len(b.events))
  <2>1. mine(i) = mine(Len(b.events))
    BY <1>1, <1>4
  <2>2. Written(b, a, i) = Written(b, a, Len(b.events))
    BY <2>1 DEF Written
  <2>. QED
    BY <1>4, <2>2 DEF Contiguous
<1>. QED
  BY <1>2, <1>3, <1>4

\* The receipt of a committed transition describes the log the commit leaves.
LEMMA NewDescribes ==
    ASSUME NEW j, JournalInv(j), NEW b \in Batch, Appends(j, b)
    PROVE  Describes(ApplyTransition(j, b, NewReceipt(j, b)), NewReceipt(j, b))
<1>. DEFINE r == NewReceipt(j, b)
            k == ApplyTransition(j, b, NewReceipt(j, b))
            n == Len(j.events)
            m == Len(b.events)
<1>1. /\ j \in JournalState /\ b.events \in Seq(Event) /\ n \in Nat /\ m \in Nat
      /\ DOMAIN b.events = 1 .. m
      /\ j.events \in Seq(Event) /\ j.boundaries \in Seq(Nat)
      /\ DOMAIN b.expected \subseteq Aggregates
  BY LenProperties DEF JournalInv, JournalState, Batch, ReadSet
<1>2. /\ JournalInv(k) /\ k.events = j.events \o b.events
      /\ k.boundaries = Append(j.boundaries, n + m)
  BY ApplyTransitionKeeps
<1>3. /\ r.first = n + 1 /\ r.cursor = n + m
      /\ r.ids = [i \in 1 .. m |-> b.events[i].id]
      /\ r.versions = [a \in DOMAIN b.expected |-> j.versions[a] + Written(b, a, m)]
  BY <1>1 DEF NewReceipt
<1>4. k.versions = IndexedVersions(j.versions, b.events)
  <2>1. Index(j, b.events).versions = IndexedVersions(j.versions, b.events)
    BY <1>1, IndexSpec
  <2>2. k.versions = Index(j, b.events).versions
    BY DEF ApplyTransition, Index
  <2>. QED
    BY <2>1, <2>2
<1>. HIDE DEF k
<1>5. /\ \A i \in 1 .. m : k.events[n + i] = b.events[i]
      /\ Len(k.events) = n + m
      /\ \A x : IsBoundary(j, x) => IsBoundary(k, x)
      /\ IsBoundary(k, n + m)
  <2>. DEFINE es == b.events
  <2>1. /\ j.events \in Seq(Event) /\ j.boundaries \in Seq(Nat) /\ es \in Seq(Event)
        /\ k.events = j.events \o es
        /\ k.boundaries = Append(j.boundaries, Len(j.events) + Len(es))
    BY <1>1, <1>2
  <2>. HIDE DEF n, m, es
  <2>2. Prolongs(k, j, es)
    BY <2>1, Longer
  <2>. QED
    BY <2>2 DEF Prolongs, n, m, es
<1>6. IsBoundary(j, n)
  <2>1. n = 0 \/ j.events # << >>
    BY <1>1
  <2>. QED
    BY <2>1 DEF JournalInv, BoundariesInLog, IsBoundary
<1>7. ASSUME NEW a \in DOMAIN r.versions
      PROVE  r.versions[a] = CurrentVersion(SubSeq(k.events, 1, r.cursor), a)
  <2>1. a \in Aggregates /\ r.versions[a] = j.versions[a] + Written(b, a, m)
    BY <1>1, <1>3
  <2>2. k.events \in Seq(Event) /\ SubSeq(k.events, 1, r.cursor) = k.events
    <3>1. k.events \in Seq(Event)
      BY <1>2 DEF JournalInv, JournalState
    <3>. QED
      BY <1>3, <1>5, <3>1, SubSeqFull
  <2>3. CurrentVersion(k.events, a) = k.versions[a]
    BY <1>2, <2>1, CurrentVersionIsIndexed
  <2>4. k.versions[a] = j.versions[a] + Written(b, a, m)
    BY <1>1, <1>4, <2>1, VersionsCounted DEF Appends
  <2>. QED
    BY <2>1, <2>2, <2>3, <2>4
<1>8. r.ids = [i \in 1 .. r.cursor - r.first + 1 |-> k.events[r.first + i - 1].id]
  <2>1. r.cursor - r.first + 1 = m /\ \A i \in 1 .. m : r.first + i - 1 = n + i
    BY <1>1, <1>3
  <2>2. \A i \in 1 .. m : k.events[r.first + i - 1].id = b.events[i].id
    BY <1>5, <2>1
  <2>. HIDE DEF r, n, m
  <2>3. r.ids = [i \in 1 .. m |-> k.events[r.first + i - 1].id]
    BY <1>3, <2>2
  <2>. QED
    BY <2>1, <2>3
<1>9. r.first - 1 = n
  BY <1>1, <1>3
<1>. QED
  BY <1>3, <1>5, <1>6, <1>7, <1>8, <1>9 DEF Describes, k

------------------------------------------------------------------------------
(* The store                                                                 *)

\* Every operation of the store leaves receipts that describe the log.
LEMMA AllDescribeKeeps ==
    ASSUME Inv, AllDescribe(journal), [Next]_vars
    PROVE  AllDescribe(journal')
<1>1. journal.events \in Seq(Event) /\ journal.boundaries \in Seq(Nat)
  BY DEF Inv, JournalInv, JournalState
<1>2. ASSUME NEW es \in Seq(Event),
             journal'.events = journal.events \o es,
             journal'.boundaries = Append(journal.boundaries, Len(journal.events) + Len(es)),
             NEW c \in Commands, journal.commands[c] # NoReceipt
      PROVE  Describes(journal', journal.commands[c])
  <2>1. journal.commands[c] \in Receipt /\ journal.commands[c].cursor <= Len(journal.events)
    BY <1>2 DEF Inv, JournalInv, ReceiptsInLog, JournalState
  <2>2. Describes(journal, journal.commands[c])
    BY <1>2 DEF AllDescribe
  <2>. QED
    BY <1>1, <1>2, <2>1, <2>2, DescribesKeeps
<1>3. ASSUME NEW b \in Batches, CommitNew(b)
      PROVE  AllDescribe(journal')
  <2>1. /\ b \in Batch /\ b.events \in Seq(Event) /\ Appends(journal, b)
        /\ journal' = ApplyTransition(journal, b, NewReceipt(journal, b))
    BY <1>3, StoreAssumption DEF CommitNew, Batch
  <2>2. Describes(journal', NewReceipt(journal, b))
    BY <2>1, NewDescribes DEF Inv
  <2>3. /\ journal'.events = journal.events \o b.events
        /\ journal'.boundaries
                = Append(journal.boundaries, Len(journal.events) + Len(b.events))
        /\ journal'.commands = [journal.commands EXCEPT ![b.command] = NewReceipt(journal, b)]
    BY <2>1, ApplyTransitionKeeps DEF Inv
  <2>4. journal.commands \in [Commands -> Receipt \cup {NoReceipt}]
    BY DEF Inv, JournalInv, JournalState
  <2>5. \A c \in Commands : journal'.commands[c]
            = IF c = b.command THEN NewReceipt(journal, b) ELSE journal.commands[c]
    BY <2>3, <2>4
  <2>6. ASSUME NEW c \in Commands, journal'.commands[c] # NoReceipt
        PROVE  Describes(journal', journal'.commands[c])
    <3>1. CASE c = b.command
      BY <2>2, <2>5, <3>1
    <3>2. CASE c # b.command
      BY <1>2, <2>1, <2>3, <2>5, <2>6, <3>2
    <3>. QED
      BY <3>1, <3>2
  <2>. QED
    BY <2>6 DEF AllDescribe
<1>4. ASSUME NEW e \in Events, NEW expected, AppendExpected(e, expected)
      PROVE  AllDescribe(journal')
  <2>1. /\ e \in Event /\ AppendsLegacy(journal, e, expected)
        /\ journal' = ApplyLegacy(journal, e)
    BY <1>4, StoreAssumption DEF AppendExpected
  <2>2. <<e>> \in Seq(Event) /\ Len(<<e>>) = 1
    BY <2>1
  <2>3. /\ journal'.events = journal.events \o <<e>>
        /\ journal'.boundaries = Append(journal.boundaries, Len(journal.events) + 1)
        /\ journal'.commands = journal.commands
    BY <2>1, ApplyLegacyKeeps DEF Inv
  <2>. QED
    BY <1>2, <2>2, <2>3 DEF AllDescribe
<1>5. ASSUME UNCHANGED journal
      PROVE  AllDescribe(journal')
  BY <1>5
<1>. QED
  BY <1>3, <1>4, <1>5
     DEF Next, CommitTransition, CommitReplayed, ReadCommand, AppendIdempotentExpected,
         ReadFrom, vars

\* What the store has answered, and what it answers, is true of the log for ever: the
\* receipts describe it, those handed out are on record, and readers have a prefix.
THEOREM CallersAlwaysServed == Spec => []CallersServed
<1>1. Init => AllDescribe(journal)
  BY DEF Init, EmptyJournal, AllDescribe
<1>2. Inv /\ AllDescribe(journal) /\ [Next]_vars => AllDescribe(journal)'
  BY AllDescribeKeeps
<1>3. Inv /\ AllDescribe(journal) => ReceiptsDescribeLog
  BY DEF Inv, JournalInv, ReceiptsInLog, AllDescribe, Describes, ReceiptsDescribeLog
<1>4. ReceiptsDescribeLog /\ AckedStands /\ ReadersSeePrefix => CallersServed
  BY DEF CallersServed
<1>. QED
  BY <1>1, <1>2, <1>3, <1>4, Invariance, AcknowledgementsStand, ReadersAlwaysSeePrefix, PTL
     DEF Spec

------------------------------------------------------------------------------
(* The events of the first commits of an abstract log                        *)

\* A function that EventsTo may choose.
IsUpto(f, l, n) ==
    f = [k \in 0 .. n |-> IF k = 0 THEN << >> ELSE f[k - 1] \o l[k].events]

\* Two such functions agree wherever their logs do.
LEMMA UptoAgrees ==
    ASSUME NEW l, NEW n \in Nat, NEW f, IsUpto(f, l, n),
           NEW m, NEW p \in Nat, NEW g, IsUpto(g, m, p),
           NEW k \in Nat, k <= n, k <= p,
           \A i \in 1 .. k : l[i] = m[i]
    PROVE  f[k] = g[k]
<1>. DEFINE S == { i \in 0 .. k : f[i] # g[i] }
<1>. SUFFICES ASSUME S # {} PROVE FALSE
  OBVIOUS
<1>1. S \in SUBSET Nat
  OBVIOUS
<1>. HIDE DEF S
<1>2. PICK i \in S : \A x \in S : i <= x
  BY <1>1, LeastExists
<1>3. i \in 0 .. k /\ f[i] # g[i]
  BY <1>2 DEF S
<1>4. /\ f[i] = IF i = 0 THEN << >> ELSE f[i - 1] \o l[i].events
      /\ g[i] = IF i = 0 THEN << >> ELSE g[i - 1] \o m[i].events
  <2>1. i \in 0 .. n /\ i \in 0 .. p
    BY <1>3
  <2>2. f[i] = IF i = 0 THEN << >> ELSE f[i - 1] \o l[i].events
    BY <2>1 DEF IsUpto
  <2>3. g[i] = IF i = 0 THEN << >> ELSE g[i - 1] \o m[i].events
    BY <2>1 DEF IsUpto
  <2>. QED
    BY <2>2, <2>3
<1>5. i # 0
  BY <1>3, <1>4
<1>6. i - 1 \in 0 .. k /\ ~(i <= i - 1) /\ i \in 1 .. k
  BY <1>3, <1>5
<1>7. f[i - 1] = g[i - 1]
  BY <1>2, <1>6 DEF S
<1>. QED
  BY <1>3, <1>4, <1>6, <1>7

\* There is one for every number of commits.
LEMMA UptoExists ==
    ASSUME NEW l, NEW n \in Nat
    PROVE  \E f : IsUpto(f, l, n)
<1>. DEFINE S == { i \in Nat : ~\E f : IsUpto(f, l, i) }
<1>. SUFFICES ASSUME S # {} PROVE FALSE
  OBVIOUS
<1>1. S \in SUBSET Nat
  OBVIOUS
<1>. HIDE DEF S
<1>2. PICK i \in S : \A x \in S : i <= x
  BY <1>1, LeastExists
<1>3. i \in Nat /\ ~\E f : IsUpto(f, l, i)
  BY <1>2 DEF S
<1>4. CASE i = 0
  <2>. DEFINE f == [k \in 0 .. 0 |-> << >>]
  <2>1. f = [k \in 0 .. 0 |-> IF k = 0 THEN << >> ELSE f[k - 1] \o l[k].events]
    OBVIOUS
  <2>2. IsUpto(f, l, 0)
    BY <2>1 DEF IsUpto
  <2>. QED
    BY <1>3, <1>4, <2>2
<1>5. CASE i # 0
  <2>1. i - 1 \in Nat /\ ~(i <= i - 1)
    BY <1>3, <1>5
  <2>2. PICK f : IsUpto(f, l, i - 1)
    BY <1>2, <2>1 DEF S
  <2>. DEFINE g == [k \in 0 .. i |-> IF k = i THEN f[i - 1] \o l[i].events ELSE f[k]]
  <2>3. f = [k \in 0 .. i - 1 |-> IF k = 0 THEN << >> ELSE f[k - 1] \o l[k].events]
    BY <2>2 DEF IsUpto
  <2>4. ASSUME NEW k \in 0 .. i
        PROVE  g[k] = IF k = 0 THEN << >> ELSE g[k - 1] \o l[k].events
    <3>1. CASE k = i
      <4>1. k # 0 /\ k - 1 \in 0 .. i /\ k - 1 # i
        BY <1>3, <1>5, <3>1
      <4>2. g[k] = f[i - 1] \o l[i].events /\ g[k - 1] = f[k - 1]
        BY <3>1, <4>1
      <4>. QED
        BY <3>1, <4>1, <4>2
    <3>2. CASE k # i
      <4>1. k \in 0 .. i - 1
        BY <1>3, <3>2
      <4>2. f[k] = IF k = 0 THEN << >> ELSE f[k - 1] \o l[k].events
        BY <2>3, <4>1
      <4>3. g[k] = f[k]
        BY <3>2
      <4>4. k # 0 => k - 1 \in 0 .. i /\ k - 1 # i
        BY <1>3, <4>1
      <4>5. k # 0 => g[k - 1] = f[k - 1]
        BY <4>4
      <4>. HIDE DEF g
      <4>. QED
        BY <4>2, <4>3, <4>5
    <3>. QED
      BY <3>1, <3>2
  <2>5. g = [k \in 0 .. i |-> IF k = 0 THEN << >> ELSE g[k - 1] \o l[k].events]
    <3>1. g = [k \in 0 .. i |-> g[k]]
      OBVIOUS
    <3>. HIDE DEF g
    <3>2. [k \in 0 .. i |-> g[k]]
              = [k \in 0 .. i |-> IF k = 0 THEN << >> ELSE g[k - 1] \o l[k].events]
      BY <2>4, Zenon
    <3>. QED
      BY <3>1, <3>2
  <2>. HIDE DEF g
  <2>6. IsUpto(g, l, i)
    BY <2>5 DEF IsUpto
  <2>. QED
    BY <1>3, <2>6
<1>. QED
  BY <1>4, <1>5

\* EventsTo takes the commits one by one, and only looks at those it is asked for.
LEMMA EventsToSpec ==
    ASSUME NEW l, NEW n \in Nat
    PROVE  /\ Contract!EventsTo(l, 0) = << >>
           /\ Contract!EventsTo(l, n + 1) = Contract!EventsTo(l, n) \o l[n + 1].events
           /\ \A m : (\A i \in 1 .. n : l[i] = m[i])
                        => Contract!EventsTo(l, n) = Contract!EventsTo(m, n)
<1>. DEFINE F(m, k) == CHOOSE f : IsUpto(f, m, k)
<1>1. ASSUME NEW m, NEW k
      PROVE  Contract!EventsTo(m, k) = F(m, k)[k]
  BY Zenon DEF Contract!EventsTo, IsUpto
<1>2. ASSUME NEW m, NEW k \in Nat
      PROVE  IsUpto(F(m, k), m, k)
  BY UptoExists, Zenon
<1>. HIDE DEF F
<1>3. Contract!EventsTo(l, 0) = << >>
  <2>1. IsUpto(F(l, 0), l, 0)
    BY <1>2
  <2>2. F(l, 0)[0] = << >>
    BY <2>1 DEF IsUpto
  <2>. QED
    BY <1>1, <2>2
<1>4. Contract!EventsTo(l, n + 1) = Contract!EventsTo(l, n) \o l[n + 1].events
  <2>1. n + 1 \in Nat /\ n + 1 \in 0 .. n + 1 /\ n + 1 # 0 /\ n + 1 - 1 = n /\ n <= n + 1 /\ n <= n
    OBVIOUS
  <2>2. IsUpto(F(l, n + 1), l, n + 1) /\ IsUpto(F(l, n), l, n)
    BY <1>2, <2>1
  <2>3. F(l, n + 1)[n + 1] = F(l, n + 1)[n] \o l[n + 1].events
    BY <2>1, <2>2 DEF IsUpto
  <2>4. F(l, n + 1)[n] = F(l, n)[n]
    BY <2>1, <2>2, UptoAgrees
  <2>. QED
    BY <1>1, <2>3, <2>4
<1>5. ASSUME NEW m, \A i \in 1 .. n : l[i] = m[i]
      PROVE  Contract!EventsTo(l, n) = Contract!EventsTo(m, n)
  <2>1. IsUpto(F(l, n), l, n) /\ IsUpto(F(m, n), m, n) /\ n <= n
    BY <1>2
  <2>2. F(l, n)[n] = F(m, n)[n]
    BY <1>5, <2>1, UptoAgrees
  <2>. QED
    BY <1>1, <2>2
<1>. QED
  BY <1>3, <1>4, <1>5

------------------------------------------------------------------------------
(* The log of the contract and the journal                                   *)

Entries == Batches \cup { Single(e) : e \in Events }

\* The boundaries of the journal are the ends of the commits of the log, and the
\* commits up to one hold the events up to it.
Placed(j, l) ==
    /\ l \in Seq(Entries)
    /\ Len(j.boundaries) = Len(l)
    /\ \A n \in 1 .. Len(l) :
        Contract!EventsTo(l, n) = SubSeq(j.events, 1, j.boundaries[n])
    /\ Contract!EventsTo(l, Len(l)) = j.events

InCommits(l, x) ==
    \E n \in DOMAIN l : \E i \in DOMAIN l[n].events : l[n].events[i] = x

InLog(j, x) == \E i \in DOMAIN j.events : j.events[i] = x

\* Both hold the same events.
SameEvents(j, l) == \A x : InCommits(l, x) <=> InLog(j, x)

\* A command has a receipt if and only if it is in the log, at the receipt's cursor.
Recorded(j, l) ==
    /\ \A c \in Commands :
        j.commands[c] # NoReceipt =>
            \E n \in DOMAIN l : /\ l[n].command = c
                                /\ j.boundaries[n] = j.commands[c].cursor
    /\ \A n \in DOMAIN l :
        l[n].command # NoCommand =>
            l[n].command \in Commands /\ j.commands[l[n].command] # NoReceipt

LogInv(j, l) == Placed(j, l) /\ SameEvents(j, l) /\ Recorded(j, l)

\* Journal k is journal j after the commit e.
After(j, k, e) ==
    /\ k.events = j.events \o e.events
    /\ k.boundaries = Append(j.boundaries, Len(j.events) + Len(e.events))

\* An entry of the log is a batch of events.
LEMMA EntryType ==
    ASSUME NEW e \in Entries
    PROVE  /\ e.events \in Seq(Event)
           /\ e.command \in Commands \cup {NoCommand}
<1>1. CASE e \in Batches
  BY <1>1, StoreAssumption DEF Batch
<1>2. ASSUME NEW x \in Events, e = Single(x)
      PROVE  e.events \in Seq(Event) /\ e.command = NoCommand
  BY <1>2, StoreAssumption DEF Single
<1>. QED
  BY <1>1, <1>2 DEF Entries

\* What Append and \o make of a sequence, element by element.
\* Sequence t is s and one more element.
OneMore(s, x, t) ==
    /\ Len(s) \in Nat /\ DOMAIN s = 1 .. Len(s)
    /\ Len(t) = Len(s) + 1 /\ DOMAIN t = 1 .. Len(s) + 1
    /\ \A i \in 1 .. Len(s) : t[i] = s[i]
    /\ t[Len(s) + 1] = x

\* That is what Append gives.
LEMMA Appended ==
    ASSUME NEW S, NEW s \in Seq(S), NEW x \in S
    PROVE  Append(s, x) \in Seq(S) /\ OneMore(s, x, Append(s, x))
  BY AppendProperties, LenProperties DEF OneMore

\* Sequence u is s and then t.
Joins(s, t, u) ==
    /\ Len(s) \in Nat /\ DOMAIN s = 1 .. Len(s)
    /\ Len(t) \in Nat /\ DOMAIN t = 1 .. Len(t)
    /\ Len(s) + Len(t) \in Nat
    /\ Len(u) = Len(s) + Len(t) /\ DOMAIN u = 1 .. Len(s) + Len(t)
    /\ \A i \in DOMAIN u :
        \/ i \in DOMAIN s /\ u[i] = s[i]
        \/ i - Len(s) \in DOMAIN t /\ u[i] = t[i - Len(s)]
    /\ \A i \in DOMAIN s : i \in DOMAIN u /\ u[i] = s[i]
    /\ \A i \in DOMAIN t : Len(s) + i \in DOMAIN u /\ u[Len(s) + i] = t[i]

\* That is what concatenation gives.
LEMMA Joined ==
    ASSUME NEW S, NEW s \in Seq(S), NEW t \in Seq(S)
    PROVE  s \o t \in Seq(S) /\ Joins(s, t, s \o t)
<1>1. /\ Len(s) \in Nat /\ DOMAIN s = 1 .. Len(s)
      /\ Len(t) \in Nat /\ DOMAIN t = 1 .. Len(t)
  BY LenProperties
<1>2. /\ s \o t \in Seq(S) /\ Len(s \o t) = Len(s) + Len(t)
      /\ \A i \in 1 .. Len(s) + Len(t) :
            (s \o t)[i] = IF i <= Len(s) THEN s[i] ELSE t[i - Len(s)]
  BY ConcatProperties
<1>3. DOMAIN (s \o t) = 1 .. Len(s) + Len(t)
  BY <1>2, LenProperties
<1>. DEFINE u == s \o t
<1>. HIDE DEF u
<1>4. ASSUME NEW i \in 1 .. Len(s) + Len(t)
      PROVE  \/ i \in DOMAIN s /\ (s \o t)[i] = s[i]
             \/ i - Len(s) \in DOMAIN t /\ (s \o t)[i] = t[i - Len(s)]
  <2>1. CASE i <= Len(s)
    BY <1>1, <1>2, <2>1
  <2>2. CASE ~(i <= Len(s))
    BY <1>1, <1>2, <2>2
  <2>. QED
    BY <2>1, <2>2
<1>5. ASSUME NEW i \in DOMAIN s
      PROVE  i \in 1 .. Len(s) + Len(t) /\ (s \o t)[i] = s[i]
  BY <1>1, <1>2
<1>6. ASSUME NEW i \in DOMAIN t
      PROVE  Len(s) + i \in 1 .. Len(s) + Len(t) /\ (s \o t)[Len(s) + i] = t[i]
  <2>1. /\ Len(s) + i \in 1 .. Len(s) + Len(t) /\ ~(Len(s) + i <= Len(s))
        /\ Len(s) + i - Len(s) = i
    BY <1>1
  <2>. QED
    BY <1>2, <2>1
<1>. QED
  BY <1>1, <1>2, <1>3, <1>4, <1>5, <1>6 DEF Joins

\* Facts on the sequences that a commit makes longer.
LEMMA AfterFacts ==
    ASSUME NEW j, NEW k, NEW l, NEW e \in Entries, After(j, k, e),
           j.events \in Seq(Event), j.boundaries \in Seq(Nat), l \in Seq(Entries)
    PROVE  /\ e.events \in Seq(Event)
           /\ Append(l, e) \in Seq(Entries)
           /\ OneMore(l, e, Append(l, e))
           /\ Joins(j.events, e.events, k.events)
           /\ OneMore(j.boundaries, Len(j.events) + Len(e.events), k.boundaries)
<1>1. e.events \in Seq(Event)
  BY EntryType
<1>2. Joins(j.events, e.events, k.events)
  BY <1>1, Joined, Zenon DEF After
<1>3. Len(j.events) + Len(e.events) \in Nat
  BY <1>2, Zenon DEF Joins
<1>4. OneMore(j.boundaries, Len(j.events) + Len(e.events), k.boundaries)
  BY <1>3, Appended, Zenon DEF After
<1>5. Append(l, e) \in Seq(Entries) /\ OneMore(l, e, Append(l, e))
  BY Appended, Zenon
<1>. QED
  BY <1>1, <1>2, <1>4, <1>5

\* A commit adds a boundary at its end and moves no other.
LEMMA PlacedKeeps ==
    ASSUME NEW j, NEW k, NEW l, NEW e \in Entries, After(j, k, e), Placed(j, l),
           j.events \in Seq(Event), j.boundaries \in Seq(Nat),
           \A i \in DOMAIN j.boundaries : j.boundaries[i] <= Len(j.events)
    PROVE  Placed(k, Append(l, e))
<1>. DEFINE m == Append(l, e)
<1>1. l \in Seq(Entries) /\ Len(j.boundaries) = Len(l)
  BY DEF Placed
<1>2. /\ Len(l) \in Nat /\ DOMAIN l = 1 .. Len(l) /\ Len(j.events) \in Nat
      /\ m \in Seq(Entries) /\ Len(m) = Len(l) + 1
      /\ \A i \in 1 .. Len(l) : m[i] = l[i]
      /\ m[Len(l) + 1] = e
      /\ Len(k.boundaries) = Len(l) + 1
      /\ \A i \in 1 .. Len(l) : k.boundaries[i] = j.boundaries[i]
      /\ k.boundaries[Len(l) + 1] = Len(j.events) + Len(e.events)
  <2>1. /\ OneMore(l, e, m) /\ m \in Seq(Entries)
        /\ OneMore(j.boundaries, Len(j.events) + Len(e.events), k.boundaries)
        /\ Joins(j.events, e.events, k.events)
    BY <1>1, AfterFacts, Zenon
  <2>. QED
    BY <1>1, <2>1, Zenon DEF OneMore, Joins
<1>. HIDE DEF m
<1>3. ASSUME NEW n \in 0 .. Len(l)
      PROVE  Contract!EventsTo(m, n) = Contract!EventsTo(l, n)
  <2>1. n \in Nat /\ \A i \in 1 .. n : m[i] = l[i]
    BY <1>2
  <2>. QED
    BY <2>1, EventsToSpec
<1>4. Contract!EventsTo(m, Len(l) + 1) = k.events
  <2>1. Contract!EventsTo(m, Len(l)) = j.events
    BY <1>2, <1>3 DEF Placed
  <2>2. Contract!EventsTo(m, Len(l) + 1) = Contract!EventsTo(m, Len(l)) \o m[Len(l) + 1].events
    BY <1>2, EventsToSpec
  <2>. QED
    BY <1>2, <2>1, <2>2 DEF After
<1>5. e.events \in Seq(Event)
  BY EntryType
<1>6. k.events \in Seq(Event) /\ Len(k.events) = Len(j.events) + Len(e.events)
  BY <1>5, ConcatProperties DEF After
<1>7. ASSUME NEW n \in 1 .. Len(l) + 1
      PROVE  Contract!EventsTo(m, n) = SubSeq(k.events, 1, k.boundaries[n])
  <2>1. CASE n = Len(l) + 1
    <3>1. SubSeq(k.events, 1, Len(k.events)) = k.events
      BY <1>6, SubSeqFull
    <3>. QED
      BY <1>2, <1>4, <1>6, <2>1, <3>1
  <2>2. CASE n # Len(l) + 1
    <3>1. n \in 1 .. Len(l) /\ n \in 0 .. Len(l)
      BY <1>2, <2>2
    <3>2. j.boundaries[n] \in 0 .. Len(j.events) /\ k.boundaries[n] = j.boundaries[n]
      <4>1. n \in DOMAIN j.boundaries /\ j.boundaries[n] \in Nat
        BY <1>1, <3>1, LenProperties, ElementOfSeq
      <4>. QED
        BY <1>2, <3>1, <4>1
    <3>3. SubSeq(k.events, 1, j.boundaries[n]) = SubSeq(j.events, 1, j.boundaries[n])
      <4>1. /\ k.events = j.events \o e.events
            /\ k.boundaries = Append(j.boundaries, Len(j.events) + Len(e.events))
        BY DEF After
      <4>2. Prolongs(k, j, e.events)
        BY <1>5, <4>1, Longer
      <4>. QED
        BY <3>2, <4>2 DEF Prolongs
    <3>4. Contract!EventsTo(l, n) = SubSeq(j.events, 1, j.boundaries[n])
      BY <3>1 DEF Placed
    <3>. QED
      BY <1>3, <3>1, <3>2, <3>3, <3>4
  <2>. QED
    BY <2>1, <2>2
<1>. QED
  BY <1>2, <1>4, <1>7 DEF Placed, m

\* A commit brings both the same events.
LEMMA SameEventsKeeps ==
    ASSUME NEW j, NEW k, NEW l, NEW e \in Entries, After(j, k, e), SameEvents(j, l),
           j.events \in Seq(Event), j.boundaries \in Seq(Nat),
           l \in Seq(Entries), Len(j.boundaries) = Len(l)
    PROVE  SameEvents(k, Append(l, e))
<1>. DEFINE m == Append(l, e)
<1>1. /\ Len(l) \in Nat /\ DOMAIN l = 1 .. Len(l)
      /\ DOMAIN m = 1 .. Len(l) + 1
      /\ \A i \in 1 .. Len(l) : m[i] = l[i]
      /\ m[Len(l) + 1] = e
  <2>1. /\ OneMore(l, e, m)
        /\ OneMore(j.boundaries, Len(j.events) + Len(e.events), k.boundaries)
    BY AfterFacts, Zenon
  <2>. QED
    BY <2>1, Zenon DEF OneMore
<1>. HIDE DEF m
<1>2. ASSUME NEW x
      PROVE  InCommits(m, x) <=> InCommits(l, x) \/ \E i \in DOMAIN e.events : e.events[i] = x
  <2>1. \A n \in DOMAIN m : (n \in DOMAIN l /\ m[n] = l[n]) \/ m[n] = e
    BY <1>1
  <2>2. \A n \in DOMAIN l : n \in DOMAIN m /\ m[n] = l[n]
    BY <1>1
  <2>3. Len(l) + 1 \in DOMAIN m /\ m[Len(l) + 1] = e
    BY <1>1
  <2>. QED
    BY <2>1, <2>2, <2>3, Zenon DEF InCommits
<1>3. Joins(j.events, e.events, k.events)
  BY AfterFacts, Zenon
<1>4. ASSUME NEW x
      PROVE  InLog(k, x) <=> InLog(j, x) \/ \E i \in DOMAIN e.events : e.events[i] = x
  <2>1. /\ \A i \in DOMAIN k.events :
            \/ i \in DOMAIN j.events /\ k.events[i] = j.events[i]
            \/ /\ i - Len(j.events) \in DOMAIN e.events
               /\ k.events[i] = e.events[i - Len(j.events)]
        /\ \A i \in DOMAIN j.events : i \in DOMAIN k.events /\ k.events[i] = j.events[i]
        /\ \A i \in DOMAIN e.events : /\ Len(j.events) + i \in DOMAIN k.events
                                      /\ k.events[Len(j.events) + i] = e.events[i]
    BY <1>3, Zenon DEF Joins
  <2>. QED
    BY <2>1, Zenon DEF InLog
<1>. QED
  BY <1>2, <1>4 DEF SameEvents, m

\* A transition is recorded at its end, a single event is not recorded at all.
LEMMA RecordedKeeps ==
    ASSUME NEW j, NEW k, NEW l, NEW e \in Entries, After(j, k, e), Recorded(j, l),
           j.events \in Seq(Event), j.boundaries \in Seq(Nat),
           l \in Seq(Entries), Len(j.boundaries) = Len(l),
           \/ e.command = NoCommand /\ k.commands = j.commands
           \/ /\ e.command \in Commands
              /\ \E r \in Receipt :
                    /\ r.cursor = Len(j.events) + Len(e.events)
                    /\ \A c \in Commands : k.commands[c] = IF c = e.command THEN r
                                                           ELSE j.commands[c]
    PROVE  Recorded(k, Append(l, e))
<1>. DEFINE m == Append(l, e)
<1>1. /\ Len(l) \in Nat /\ DOMAIN l = 1 .. Len(l)
      /\ DOMAIN m = 1 .. Len(l) + 1
      /\ \A i \in 1 .. Len(l) : m[i] = l[i]
      /\ m[Len(l) + 1] = e
      /\ \A i \in 1 .. Len(l) : k.boundaries[i] = j.boundaries[i]
      /\ k.boundaries[Len(l) + 1] = Len(j.events) + Len(e.events)
  <2>1. /\ OneMore(l, e, m)
        /\ OneMore(j.boundaries, Len(j.events) + Len(e.events), k.boundaries)
    BY AfterFacts, Zenon
  <2>. QED
    BY <2>1, Zenon DEF OneMore
<1>. HIDE DEF m
<1>2. \A n \in DOMAIN l : n \in DOMAIN m /\ m[n] = l[n] /\ k.boundaries[n] = j.boundaries[n]
  BY <1>1
<1>3. Len(l) + 1 \in DOMAIN m
  BY <1>1
<1>4. \A n \in DOMAIN m : n \in DOMAIN l \/ m[n] = e
  BY <1>1
<1>5. CASE e.command = NoCommand /\ k.commands = j.commands
  <2>1. ASSUME NEW c \in Commands, k.commands[c] # NoReceipt
        PROVE  \E n \in DOMAIN m : m[n].command = c /\ k.boundaries[n] = k.commands[c].cursor
    BY <1>2, <1>5, <2>1 DEF Recorded
  <2>2. ASSUME NEW n \in DOMAIN m, m[n].command # NoCommand
        PROVE  m[n].command \in Commands /\ k.commands[m[n].command] # NoReceipt
    BY <1>2, <1>4, <1>5, <2>2 DEF Recorded
  <2>. QED
    BY <2>1, <2>2 DEF Recorded, m
<1>6. ASSUME e.command \in Commands, NEW r \in Receipt,
             r.cursor = Len(j.events) + Len(e.events),
             \A c \in Commands : k.commands[c] = IF c = e.command THEN r ELSE j.commands[c]
      PROVE  Recorded(k, m)
  <2>1. r # NoReceipt
    BY JournalAssumption
  <2>2. ASSUME NEW c \in Commands, k.commands[c] # NoReceipt
        PROVE  \E n \in DOMAIN m : m[n].command = c /\ k.boundaries[n] = k.commands[c].cursor
    <3>1. CASE c = e.command
      BY <1>1, <1>3, <1>6, <3>1
    <3>2. CASE c # e.command
      BY <1>2, <1>6, <2>2, <3>2 DEF Recorded
    <3>. QED
      BY <3>1, <3>2
  <2>3. ASSUME NEW n \in DOMAIN m, m[n].command # NoCommand
        PROVE  m[n].command \in Commands /\ k.commands[m[n].command] # NoReceipt
    BY <1>2, <1>4, <1>6, <2>1, <2>3 DEF Recorded
  <2>. QED
    BY <2>2, <2>3 DEF Recorded
<1>. QED
  BY <1>5, <1>6 DEF m

------------------------------------------------------------------------------
(* What the journal plans the contract admits                                *)

\* The contract counts as the adapter does.
LEMMA SameCardinality ==
    ASSUME NEW S
    PROVE  Contract!Cardinality(S) = Cardinality(S)
  BY Zenon DEF Contract!Cardinality, Cardinality

\* The versions of a stream are the same in the log and in the journal.
LEMMA SameVersions ==
    ASSUME NEW j, NEW l, SameEvents(j, l), NEW s
    PROVE  Contract!VersionOf(l, s) = CurrentVersion(j.events, s)
<1>1. \A x : x \in Contract!EventsOf(l, s) <=> InCommits(l, x) /\ x.stream = s
  <2>. DEFINE all == UNION { { e.events[i] : i \in DOMAIN e.events } : e \in Contract!CommitsOf(l) }
  <2>1. ASSUME NEW x
        PROVE  x \in all <=> InCommits(l, x)
    <3>1. x \in all <=> \E e \in Contract!CommitsOf(l) : x \in { e.events[i] : i \in DOMAIN e.events }
      OBVIOUS
    <3>2. x \in all <=> \E e \in Contract!CommitsOf(l) : \E i \in DOMAIN e.events : e.events[i] = x
      BY <3>1
    <3>. HIDE DEF all
    <3>. QED
      BY <3>2, Zenon DEF Contract!CommitsOf, InCommits
  <2>2. Contract!EventsOf(l, s) = { x \in all : x.stream = s }
    BY DEF Contract!EventsOf
  <2>. HIDE DEF all
  <2>. QED
    BY <2>1, <2>2
<1>2. \A x : x \in StreamOf(j.events, s) <=> InLog(j, x) /\ x.stream = s
  BY Zenon DEF StreamOf, EventSet, InLog
<1>3. Contract!EventsOf(l, s) = StreamOf(j.events, s)
  BY <1>1, <1>2 DEF SameEvents
<1>. QED
  BY <1>3, Zenon DEF Contract!VersionOf, CurrentVersion

\* The greatest version of a stream is 0 or that of an event of it.
LEMMA CurrentVersionSpec ==
    ASSUME NEW j, JournalInv(j), NEW s
    PROVE  \/ CurrentVersion(j.events, s) = 0
           \/ \E f \in StreamOf(j.events, s) : f.version = CurrentVersion(j.events, s)
<1>. DEFINE vs == { e.version : e \in StreamOf(j.events, s) } \cup {0}
<1>1. \A e \in StreamOf(j.events, s) : e \in Event
  BY ElementOfSeq, LenProperties DEF StreamOf, EventSet, JournalInv, JournalState
<1>2. \A e \in Event : e.version \in 0 .. MaxVersion
  BY JournalAssumption DEF Event, Version
<1>3. vs \in SUBSET (0 .. MaxVersion) /\ vs # {} /\ MaxVersion \in Nat
  BY <1>1, <1>2, JournalAssumption
<1>. HIDE DEF vs
<1>4. \E m \in vs : \A w \in vs : w <= m
  BY <1>3, GreatestExists
<1>5. CurrentVersion(j.events, s) = CHOOSE v \in vs : \A w \in vs : w <= v
  BY DEF CurrentVersion, vs
<1>6. CurrentVersion(j.events, s) \in vs
  BY <1>4, <1>5
<1>. QED
  BY <1>6 DEF vs

\* Whatever the journal plans, the contract admits: a transition ...
LEMMA AppendAdmitted ==
    ASSUME NEW j, JournalInv(j), NEW l, LogInv(j, l), NEW b \in Batches, Appends(j, b)
    PROVE  Contract!Admits(l, b)
<1>1. /\ b \in Batch /\ b.command \in Commands /\ b.events \in Seq(Event)
      /\ b.expected \in ReadSet
  BY StoreAssumption DEF Batch
<1>2. b.command # NoCommand
  BY <1>1, StoreAssumption
<1>3. /\ j.commands[b.command] = NoReceipt
      /\ \A e \in EventSet(b.events) : e.stream \in DOMAIN b.expected
      /\ \A a \in DOMAIN b.expected : j.versions[a] = b.expected[a]
      /\ FreshIds(j, b) /\ Contiguous(j, b)
  BY DEF Appends, Plannable, Known, ValidBatch, Changed
<1>4. DOMAIN b.expected \subseteq Aggregates
  BY <1>1 DEF ReadSet
<1>5. \A a \in DOMAIN b.expected : Contract!VersionOf(l, a) = b.expected[a]
  BY <1>3, <1>4, SameVersions, CurrentVersionIsIndexed DEF LogInv
<1>6. \A x \in Contract!CommitsOf(l) : x.command # b.command
  BY <1>1, <1>2, <1>3 DEF Contract!CommitsOf, LogInv, Recorded
<1>7. ASSUME NEW i \in DOMAIN b.events
      PROVE  /\ b.events[i].stream \in DOMAIN b.expected
             /\ b.events[i].version = b.expected[b.events[i].stream]
                    + Cardinality({ k \in 1 .. i - 1 :
                                      b.events[k].stream = b.events[i].stream }) + 1
             /\ b.events[i].version > Contract!VersionOf(l, b.events[i].stream)
                    + Cardinality({ k \in 1 .. i - 1 :
                                      b.events[k].stream = b.events[i].stream })
  <2>. DEFINE a == b.events[i].stream
              before == { k \in 1 .. i - 1 : b.events[k].stream = a }
  <2>1. a \in DOMAIN b.expected
    BY <1>3 DEF EventSet
  <2>2. i \in Nat \ {0}
    BY <1>1, LenProperties
  <2>3. b.events[i].version = b.expected[a] + Written(b, a, i)
    BY <1>3, <2>1 DEF Contiguous
  <2>4. IsFiniteSet(before) /\ Cardinality(before) \in Nat
    <3>1. IsFiniteSet(1 .. i - 1)
      BY <2>2, FS_Interval
    <3>. QED
      BY <3>1, FS_Subset, FS_CardinalityType
  <2>5. Written(b, a, i) = Cardinality(before) + 1
    <3>1. { k \in 1 .. i : b.events[k].stream = a } = before \cup {i}
      BY <2>2
    <3>2. i \notin before
      BY <2>2
    <3>. HIDE DEF before, a
    <3>3. Cardinality(before \cup {i}) = Cardinality(before) + 1
      BY <2>4, <3>2, FS_AddElement
    <3>. QED
      BY <3>1, <3>3 DEF Written
  <2>6. b.expected[a] \in Nat
    BY <1>1, <2>1, JournalAssumption DEF ReadSet
  <2>7. Contract!VersionOf(l, a) = b.expected[a]
    BY <1>5, <2>1
  <2>. HIDE DEF before
  <2>8. /\ b.events[i].version = b.expected[a] + Cardinality(before) + 1
        /\ b.events[i].version > Contract!VersionOf(l, a) + Cardinality(before)
    BY <2>3, <2>4, <2>5, <2>6, <2>7
  <2>. QED
    BY <2>1, <2>8 DEF before
<1>8. ASSUME NEW i \in DOMAIN b.events, NEW c \in Contract!CommitsOf(l),
             NEW k \in DOMAIN c.events
      PROVE  c.events[k].id # b.events[i].id
  <2>1. InCommits(l, c.events[k])
    BY DEF Contract!CommitsOf, InCommits
  <2>2. InLog(j, c.events[k])
    BY <2>1 DEF LogInv, SameEvents
  <2>3. c.events[k] \in EventSet(j.events) /\ b.events[i] \in EventSet(b.events)
    BY <2>2 DEF InLog, EventSet
  <2>. QED
    BY <1>3, <2>3 DEF FreshIds
<1>9. \A i \in DOMAIN b.events :
        LET x == b.events[i]
            before == { k \in 1 .. i - 1 : b.events[k].stream = x.stream }
        IN  /\ x.version > Contract!VersionOf(l, x.stream) + Contract!Cardinality(before)
            /\ b.command # NoCommand =>
                   /\ x.stream \in DOMAIN b.expected
                   /\ x.version = b.expected[x.stream] + Contract!Cardinality(before) + 1
            /\ \A c \in Contract!CommitsOf(l) : \A k \in DOMAIN c.events : c.events[k].id # x.id
  BY <1>7, <1>8, SameCardinality, Zenon
<1>. QED
  BY <1>5, <1>6, <1>9, Zenon DEF Contract!Admits

\* ... and a single event.
LEMMA LegacyAdmitted ==
    ASSUME NEW j, JournalInv(j), NEW l, LogInv(j, l), NEW e \in Events, NEW expected,
           AppendsLegacy(j, e, expected)
    PROVE  Contract!Admits(l, Single(e))
<1>. DEFINE b == Single(e)
<1>1. /\ b.command = NoCommand /\ DOMAIN b.expected = {}
      /\ DOMAIN b.events = {1} /\ b.events[1] = e
  BY DEF Single
<1>. HIDE DEF b
<1>2. e \in Event /\ e.version \in Nat \ {0}
  BY StoreAssumption, JournalAssumption DEF Event, Version
<1>3. /\ \A f \in EventSet(j.events) : f.id # e.id
      /\ \A f \in StreamOf(j.events, e.stream) : f.version < e.version
  BY DEF AppendsLegacy
<1>4. Contract!VersionOf(l, e.stream) = CurrentVersion(j.events, e.stream)
  BY SameVersions DEF LogInv
<1>5. e.version > Contract!VersionOf(l, e.stream) /\ Contract!VersionOf(l, e.stream) \in Nat
  <2>1. CASE CurrentVersion(j.events, e.stream) = 0
    BY <1>2, <1>4, <2>1
  <2>2. ASSUME NEW f \in StreamOf(j.events, e.stream),
               f.version = CurrentVersion(j.events, e.stream)
        PROVE  e.version > f.version /\ f.version \in Nat
    <3>1. f \in Event
      BY ElementOfSeq, LenProperties DEF StreamOf, EventSet, JournalInv, JournalState
    <3>2. f.version \in Nat
      BY <3>1, JournalAssumption DEF Event, Version
    <3>. QED
      BY <1>2, <1>3, <3>2
  <2>. QED
    BY <1>4, <2>1, <2>2, CurrentVersionSpec
<1>6. { k \in 1 .. 1 - 1 : b.events[k].stream = e.stream } = {}
  OBVIOUS
<1>7. Cardinality({ k \in 1 .. 1 - 1 : b.events[k].stream = e.stream }) = 0
  BY <1>6, FS_EmptySet
<1>8. ASSUME NEW c \in Contract!CommitsOf(l), NEW k \in DOMAIN c.events
      PROVE  c.events[k].id # e.id
  <2>1. InCommits(l, c.events[k])
    BY DEF Contract!CommitsOf, InCommits
  <2>2. InLog(j, c.events[k])
    BY <2>1 DEF LogInv, SameEvents
  <2>3. c.events[k] \in EventSet(j.events)
    BY <2>2 DEF InLog, EventSet
  <2>. QED
    BY <1>3, <2>3
<1>9. e.version > Contract!VersionOf(l, e.stream)
          + Cardinality({ k \in 1 .. 1 - 1 : b.events[k].stream = e.stream })
  BY <1>2, <1>5, <1>7
<1>. QED
  <2>1. \A i \in DOMAIN b.events : i = 1 /\ b.events[i] = e
    BY <1>1
  <2>2. \A a \in DOMAIN b.expected : Contract!VersionOf(l, a) = b.expected[a]
    BY <1>1
  <2>3. \A i \in DOMAIN b.events :
          LET x == b.events[i]
              before == { k \in 1 .. i - 1 : b.events[k].stream = x.stream }
          IN  /\ x.version > Contract!VersionOf(l, x.stream) + Contract!Cardinality(before)
              /\ b.command # NoCommand =>
                     /\ x.stream \in DOMAIN b.expected
                     /\ x.version = b.expected[x.stream] + Contract!Cardinality(before) + 1
              /\ \A c \in Contract!CommitsOf(l) : \A k \in DOMAIN c.events : c.events[k].id # x.id
    <3>1. ASSUME NEW i \in DOMAIN b.events
          PROVE  i = 1 /\ b.events[i] = e
      BY <2>1
    <3>. QED
      BY <1>1, <1>8, <1>9, <3>1, SameCardinality
  <2>4. Contract!Admits(l, b)
    BY <1>1, <2>2, <2>3, Zenon DEF Contract!Admits
  <2>. QED
    BY <2>4 DEF b

------------------------------------------------------------------------------
(* The refinement                                                            *)

\* Where a commit of the log ends is where the journal has its boundary.
LEMMA CursorIsBoundary ==
    ASSUME NEW j, JournalInv(j), NEW l, Placed(j, l), NEW n \in DOMAIN l
    PROVE  /\ j.boundaries[n] \in 0 .. Len(j.events)
           /\ Contract!CursorAt(l, n) = j.boundaries[n]
<1>. DEFINE x == j.boundaries[n]
<1>1. /\ j.events \in Seq(Event) /\ j.boundaries \in Seq(Nat) /\ l \in Seq(Entries)
      /\ Len(j.boundaries) = Len(l)
      /\ \A i \in DOMAIN j.boundaries : j.boundaries[i] <= Len(j.events)
  BY DEF JournalInv, JournalState, BoundariesInLog, Placed
<1>2. n \in 1 .. Len(l) /\ n \in DOMAIN j.boundaries /\ x \in Nat
  <2>1. DOMAIN l = 1 .. Len(l)
    BY <1>1, LenProperties
  <2>2. DOMAIN j.boundaries = 1 .. Len(l)
    BY <1>1, LenProperties
  <2>. QED
    BY <1>1, <2>1, <2>2, ElementOfSeq
<1>3. x \in 0 .. Len(j.events) /\ Len(j.events) \in Nat
  BY <1>1, <1>2, LenProperties
<1>4. Contract!EventsTo(l, n) = SubSeq(j.events, 1, x)
  BY <1>2 DEF Placed
<1>. HIDE DEF x
<1>5. Len(SubSeq(j.events, 1, x)) = x
  <2>1. \A i \in 1 .. x : j.events[i] \in Event
    BY <1>1, <1>3, ElementOfSeq
  <2>2. Len(SubSeq(j.events, 1, x)) = IF 1 <= x THEN x - 1 + 1 ELSE 0
    BY <1>3, <2>1, SubSeqProperties
  <2>. QED
    BY <1>3, <2>2
<1>. QED
  BY <1>3, <1>4, <1>5 DEF Contract!CursorAt, x

\* What callers hold is true of the log.
LEMMA ToldIsTrue ==
    ASSUME NEW j, JournalInv(j), NEW l, LogInv(j, l), NEW R \in SUBSET Receipt,
           \A r \in R : j.commands[r.command] = r
    PROVE  { [command |-> r.command, cursor |-> r.cursor] : r \in R } \subseteq Contract!Told(l)
<1>. SUFFICES ASSUME NEW r \in R
              PROVE  [command |-> r.command, cursor |-> r.cursor] \in Contract!Told(l)
  OBVIOUS
<1>1. r.command \in Commands /\ j.commands[r.command] = r /\ r # NoReceipt
  BY JournalAssumption DEF Receipt
<1>2. PICK n \in DOMAIN l : l[n].command = r.command /\ j.boundaries[n] = r.cursor
  BY <1>1 DEF LogInv, Recorded
<1>3. Contract!CursorAt(l, n) = r.cursor
  BY <1>2, CursorIsBoundary DEF LogInv
<1>. QED
  BY <1>2, <1>3 DEF Contract!Told

\* A new store holds the empty log.
LEMMA InitLogInv == Init => LogInv(journal, log)
<1>. SUFFICES ASSUME Init PROVE LogInv(journal, log)
  OBVIOUS
<1>1. /\ journal.events = << >> /\ journal.boundaries = << >> /\ log = << >>
      /\ \A c \in Commands : journal.commands[c] = NoReceipt
  BY DEF Init, EmptyJournal
<1>2. Contract!EventsTo(log, 0) = << >>
  BY EventsToSpec
<1>3. Placed(journal, log)
  BY <1>1, <1>2 DEF Placed
<1>4. SameEvents(journal, log) /\ Recorded(journal, log)
  BY <1>1 DEF SameEvents, InCommits, InLog, Recorded
<1>. QED
  BY <1>3, <1>4 DEF LogInv

\* A commit keeps the log and the journal in step.
LEMMA CommitKeepsLog ==
    ASSUME NEW j, JournalInv(j), NEW k, NEW l, NEW e \in Entries, After(j, k, e), LogInv(j, l),
           \/ e.command = NoCommand /\ k.commands = j.commands
           \/ /\ e.command \in Commands
              /\ \E r \in Receipt :
                    /\ r.cursor = Len(j.events) + Len(e.events)
                    /\ \A c \in Commands : k.commands[c] = IF c = e.command THEN r
                                                           ELSE j.commands[c]
    PROVE  LogInv(k, Append(l, e))
<1>1. /\ j.events \in Seq(Event) /\ j.boundaries \in Seq(Nat)
      /\ l \in Seq(Entries) /\ Len(j.boundaries) = Len(l)
      /\ \A i \in DOMAIN j.boundaries : j.boundaries[i] <= Len(j.events)
  BY DEF JournalInv, JournalState, BoundariesInLog, LogInv, Placed
<1>2. Placed(k, Append(l, e))
  BY <1>1, PlacedKeeps, Zenon DEF LogInv
<1>3. SameEvents(k, Append(l, e))
  BY <1>1, SameEventsKeeps, Zenon DEF LogInv
<1>4. Recorded(k, Append(l, e))
  BY <1>1, RecordedKeeps, Zenon DEF LogInv
<1>. QED
  BY <1>2, <1>3, <1>4 DEF LogInv

\* What a new transition does to journal and log.
LEMMA NewKeepsLog ==
    ASSUME JournalInv(journal), LogInv(journal, log), NEW b \in Batches, CommitNew(b)
    PROVE  LogInv(journal', log')
<1>. DEFINE r == NewReceipt(journal, b)
<1>1. b \in Batch /\ b.command \in Commands /\ b \in Entries
  BY StoreAssumption DEF Batch, Entries
<1>2. /\ Appends(journal, b) /\ journal' = ApplyTransition(journal, b, r)
      /\ log' = Append(log, b)
  BY DEF CommitNew
<1>3. r \in Receipt /\ r.cursor = Len(journal.events) + Len(b.events)
  BY <1>1, <1>2, NewReceiptType
<1>. HIDE DEF r
<1>4. /\ journal'.events = journal.events \o b.events
      /\ journal'.boundaries = Append(journal.boundaries, Len(journal.events) + Len(b.events))
      /\ journal'.commands = [journal.commands EXCEPT ![b.command] = r]
  BY <1>1, <1>2, ApplyTransitionKeeps DEF r
<1>5. \A c \in Commands : journal'.commands[c]
                              = IF c = b.command THEN r ELSE journal.commands[c]
  BY <1>4 DEF JournalInv, JournalState
<1>6. After(journal, journal', b)
  BY <1>4 DEF After
<1>. QED
  BY <1>1, <1>2, <1>3, <1>5, <1>6, CommitKeepsLog

\* The same for a single event.
LEMMA SingleKeepsLog ==
    ASSUME JournalInv(journal), LogInv(journal, log), NEW e \in Events, NEW expected,
           AppendExpected(e, expected)
    PROVE  LogInv(journal', log')
<1>1. /\ e \in Event /\ AppendsLegacy(journal, e, expected)
      /\ journal' = ApplyLegacy(journal, e) /\ log' = Append(log, Single(e))
  BY StoreAssumption DEF AppendExpected
<1>2. /\ journal'.events = journal.events \o <<e>>
      /\ journal'.boundaries = Append(journal.boundaries, Len(journal.events) + 1)
      /\ journal'.commands = journal.commands
  BY <1>1, ApplyLegacyKeeps
<1>3. /\ Single(e).events = <<e>> /\ Len(<<e>>) = 1 /\ Single(e).command = NoCommand
      /\ Single(e) \in Entries
  BY DEF Single, Entries
<1>4. After(journal, journal', Single(e))
  BY <1>2, <1>3 DEF After
<1>. QED
  BY <1>1, <1>2, <1>3, <1>4, CommitKeepsLog, Zenon

\* Every operation keeps the log and the journal in step.
LEMMA NextLogInv == Inv /\ LogInv(journal, log) /\ [Next]_vars => LogInv(journal, log)'
<1>. SUFFICES ASSUME Inv, LogInv(journal, log), [Next]_vars
              PROVE  LogInv(journal', log')
  OBVIOUS
<1>1. JournalInv(journal)
  BY DEF Inv
<1>2. ASSUME NEW b \in Batches, CommitNew(b) PROVE LogInv(journal', log')
  BY <1>1, <1>2, NewKeepsLog
<1>3. ASSUME NEW e \in Events, NEW expected, AppendExpected(e, expected)
      PROVE  LogInv(journal', log')
  BY <1>1, <1>3, SingleKeepsLog
<1>4. CASE UNCHANGED <<journal, log>>
  BY <1>4
<1>. QED
  BY <1>2, <1>3, <1>4
     DEF Next, CommitTransition, CommitReplayed, ReadCommand, AppendIdempotentExpected,
         ReadFrom, vars

\* A page shows a reader the commits up to where it ends.
LEMMA PageShows ==
    ASSUME Inv, Inv', LogInv(journal, log), NEW r \in Readers, NEW limit \in 1 .. MaxPage,
           ReadFrom(r, limit)
    PROVE  Contract!Show(r)
<1>1. /\ UNCHANGED <<journal, log, acked>>
      /\ cursor' = [cursor EXCEPT ![r] = PageEnd(journal, cursor[r], limit)]
      /\ seen' = [seen EXCEPT ![r] = @ \o PageEvents(journal, cursor[r], limit)]
  BY DEF ReadFrom
<1>2. /\ journal.events \in Seq(Event) /\ Len(journal.events) \in Nat
      /\ cursor[r] \in 0 .. Len(journal.events) /\ cursor[r] \in Nat
      /\ seen[r] = SubSeq(journal.events, 1, cursor[r])
      /\ cursor \in [Readers -> Nat] /\ seen \in [Readers -> Seq(Event)]
  BY LenProperties DEF Inv, ReaderInv, JournalInv, JournalState
<1>3. Len(seen[r]) = cursor[r]
  <2>1. \A i \in 1 .. cursor[r] : journal.events[i] \in Event
    BY <1>2, ElementOfSeq
  <2>2. Len(SubSeq(journal.events, 1, cursor[r])) = IF 1 <= cursor[r] THEN cursor[r] - 1 + 1 ELSE 0
    BY <1>2, <2>1, SubSeqProperties
  <2>. QED
    BY <1>2, <2>2
<1>4. PageEnd(journal, cursor[r], limit) >= cursor[r]
  <2>1. JournalInv(journal) /\ limit \in Nat
    BY DEF Inv
  <2>2. PageEnd(journal, cursor[r], limit) \in cursor[r] .. Len(journal.events)
    BY <1>2, <2>1, PageEndSpec
  <2>. QED
    BY <1>2, <2>2
<1>5. cursor'[r] >= cursor[r]
  BY <1>1, <1>2, <1>4
<1>6. /\ IsBoundary(journal, cursor'[r]) /\ seen'[r] = SubSeq(journal.events, 1, cursor'[r])
  BY <1>1 DEF Inv, ReaderInv
<1>7. seen' = [seen EXCEPT ![r] = seen'[r]]
  BY <1>1, <1>2
<1>8. \E n \in 0 .. Len(log) : /\ Contract!CursorAt(log, n) = cursor'[r]
                               /\ Contract!EventsTo(log, n) = seen'[r]
  <2>1. CASE cursor'[r] = 0
    <3>1. Contract!EventsTo(log, 0) = << >>
      BY EventsToSpec
    <3>2. Contract!CursorAt(log, 0) = 0
      BY <3>1 DEF Contract!CursorAt
    <3>3. seen'[r] = << >>
      BY <1>6, <2>1, SubSeqEmpty
    <3>4. 0 \in 0 .. Len(log)
      BY LenProperties DEF LogInv, Placed
    <3>. QED
      BY <2>1, <3>1, <3>2, <3>3, <3>4
  <2>2. CASE cursor'[r] # 0
    <3>1. PICK n \in DOMAIN journal.boundaries : journal.boundaries[n] = cursor'[r]
      BY <1>6, <2>2 DEF IsBoundary
    <3>2. n \in DOMAIN log /\ n \in 1 .. Len(log) /\ n \in 0 .. Len(log)
      <4>1. /\ log \in Seq(Entries) /\ journal.boundaries \in Seq(Nat)
            /\ Len(journal.boundaries) = Len(log)
        BY DEF Inv, JournalInv, JournalState, LogInv, Placed
      <4>2. DOMAIN log = 1 .. Len(log) /\ Len(log) \in Nat
        BY <4>1, LenProperties
      <4>3. DOMAIN journal.boundaries = 1 .. Len(log)
        BY <4>1, LenProperties
      <4>. QED
        BY <4>2, <4>3
    <3>3. Contract!CursorAt(log, n) = cursor'[r]
      BY <3>1, <3>2, CursorIsBoundary DEF Inv, LogInv
    <3>4. Contract!EventsTo(log, n) = SubSeq(journal.events, 1, journal.boundaries[n])
      BY <3>2 DEF LogInv, Placed
    <3>. QED
      BY <1>6, <3>1, <3>2, <3>3, <3>4
  <2>. QED
    BY <2>1, <2>2
<1>9. PICK n \in 0 .. Len(log) : /\ Contract!CursorAt(log, n) = cursor'[r]
                                 /\ Contract!EventsTo(log, n) = seen'[r]
  BY <1>8
<1>10. /\ Contract!CursorAt(log, n) >= Len(seen[r])
       /\ seen' = [seen EXCEPT ![r] = Contract!EventsTo(log, n)]
  BY <1>3, <1>5, <1>7, <1>9
<1>. QED
  BY <1>10 DEF Contract!Show

\* Every step of the adapter is a step of the contract, or none.
LEMMA StepRefines ==
    ASSUME Inv, Inv', LogInv(journal, log), LogInv(journal', log'), [Next]_vars
    PROVE  Contract!Next \/ UNCHANGED Contract!vars
<1>. DEFINE A(R) == { [command |-> r.command, cursor |-> r.cursor] : r \in R }
<1>1. ASSUME acked \subseteq acked'
      PROVE  Contract!Acknowledge
  <2>1. /\ JournalInv(journal') /\ acked' \in SUBSET Receipt
        /\ \A r \in acked' : journal'.commands[r.command] = r
    BY DEF Inv, AckedInv, AckedStands
  <2>2. A(acked') \subseteq Contract!Told(log')
    BY <2>1, ToldIsTrue
  <2>3. A(acked) \subseteq A(acked')
    BY <1>1
  <2>. QED
    BY <2>2, <2>3 DEF Contract!Acknowledge
<1>. HIDE DEF A
<1>2. ASSUME NEW b \in Batches, CommitNew(b)
      PROVE  Contract!Next
  <2>1. Appends(journal, b) /\ log' = Append(log, b) /\ UNCHANGED seen /\ acked \subseteq acked'
    BY <1>2 DEF CommitNew
  <2>2. Contract!Admits(log, b)
    BY <2>1, AppendAdmitted DEF Inv
  <2>3. Contract!Commit(b)
    BY <2>1, <2>2 DEF Contract!Commit
  <2>. QED
    BY <1>1, <2>1, <2>3 DEF Contract!Next
<1>3. ASSUME NEW e \in Events, NEW expected, AppendExpected(e, expected)
      PROVE  Contract!Next
  <2>1. /\ AppendsLegacy(journal, e, expected) /\ log' = Append(log, Single(e))
        /\ UNCHANGED seen /\ acked \subseteq acked'
    BY <1>3 DEF AppendExpected
  <2>2. Contract!Admits(log, Single(e))
    BY <2>1, LegacyAdmitted DEF Inv
  <2>3. Contract!Commit(Single(e))
    BY <2>1, <2>2 DEF Contract!Commit
  <2>. QED
    BY <1>1, <2>1, <2>3 DEF Contract!Next
<1>4. ASSUME acked \subseteq acked', UNCHANGED <<log, seen>>
      PROVE  Contract!Next
  BY <1>1, <1>4 DEF Contract!Next
<1>5. ASSUME NEW r \in Readers, NEW limit \in 1 .. MaxPage, ReadFrom(r, limit)
      PROVE  Contract!Next
  <2>1. Contract!Show(r)
    BY <1>5, PageShows
  <2>2. UNCHANGED <<log, acked>>
    BY <1>5 DEF ReadFrom
  <2>. QED
    BY <2>1, <2>2 DEF Contract!Next
<1>6. CASE UNCHANGED vars
  BY <1>6 DEF vars, Contract!vars
<1>. QED
  BY <1>2, <1>3, <1>4, <1>5, <1>6
     DEF Next, CommitTransition, CommitReplayed, ReadCommand, AppendIdempotentExpected

\* The memory adapter implements the atomic log that EventStorePort promises: every
\* commit is admitted on the versions it read, callers are told only of commits that
\* are in the log, readers get whole commits in order.
THEOREM KeepsContract == Spec => ImplementsEventStore
<1>1. Init => Contract!Init
  BY DEF Init, Contract!Init
<1>2. Inv /\ LogInv(journal, log) /\ [Next]_vars => LogInv(journal, log)'
  BY NextLogInv
<1>3. Inv /\ Inv' /\ LogInv(journal, log) /\ LogInv(journal, log)' /\ [Next]_vars
          => [Contract!Next]_(Contract!vars)
  BY StepRefines
<1>. QED
  BY <1>1, <1>2, <1>3, InitLogInv, Invariance, PTL DEF Spec, ImplementsEventStore, Contract!Spec
==============================================================================
