---------------------------- MODULE MemoryEventLog ----------------------------
(***************************************************************************)
(* MemoryEventLog (kiana-eventlog/src/memory.rs): EventStorePort over one   *)
(* JournalState behind one RwLock.  Each operation holds the lock from its   *)
(* plan to its answer, so each is one step.  A refusal (conflict, rejected   *)
(* batch, cursor off a boundary) changes nothing and is a stuttering step.   *)
(***************************************************************************)
EXTENDS Journal

CONSTANTS
    Batches,    \* the batches callers submit
    Events,     \* the single events callers append
    NoCommand,  \* the command of a single event's commit
    Readers     \* consumers that page through the log

ASSUME StoreAssumption ==
    /\ Batches \subseteq Batch
    /\ Events \subseteq Event
    /\ NoCommand \notin Commands

VARIABLES
    journal,    \* the JournalState behind the lock
    log,        \* ghost: the commits accepted so far, as the abstract log has them
    acked,      \* ghost: the receipts callers were given
    cursor,     \* where each reader asks for its next page
    seen        \* ghost: the events each reader was given

vars == <<journal, log, acked, cursor, seen>>

Single(e) == [command |-> NoCommand, digest |-> NoCommand,
              expected |-> << >>, events |-> <<e>>]

Init ==
    /\ journal = EmptyJournal
    /\ log = << >>
    /\ acked = {}
    /\ cursor = [r \in Readers |-> 0]
    /\ seen = [r \in Readers |-> << >>]

CommitNew(b) ==
    /\ Appends(journal, b)
    /\ LET receipt == NewReceipt(journal, b)
       IN  /\ journal' = ApplyTransition(journal, b, receipt)
           /\ acked' = acked \cup {receipt}
    /\ log' = Append(log, b)
    /\ UNCHANGED <<cursor, seen>>

CommitReplayed(b) ==
    /\ Replays(journal, b)
    /\ acked' = acked \cup {journal.commands[b.command]}
    /\ UNCHANGED <<journal, log, cursor, seen>>

CommitTransition(b) == CommitNew(b) \/ CommitReplayed(b)

ReadCommand(c) ==
    /\ journal.commands[c] # NoReceipt
    /\ acked' = acked \cup {journal.commands[c]}
    /\ UNCHANGED <<journal, log, cursor, seen>>

AppendExpected(e, expected) ==
    /\ AppendsLegacy(journal, e, expected)
    /\ journal' = ApplyLegacy(journal, e)
    /\ log' = Append(log, Single(e))
    /\ UNCHANGED <<acked, cursor, seen>>

\* A key that is already there answers with the stored event, before the
\* expected version is looked at.
AppendIdempotentExpected(e, expected) ==
    /\ e.key # NoKey
    /\ KeyHolders(journal, e.key) = {}
    /\ AppendExpected(e, expected)

ReadFrom(r, limit) ==
    /\ PageAllowed(journal, cursor[r], limit)
    /\ seen' = [seen EXCEPT ![r] = @ \o PageEvents(journal, cursor[r], limit)]
    /\ cursor' = [cursor EXCEPT ![r] = PageEnd(journal, @, limit)]
    /\ UNCHANGED <<journal, log, acked>>

Next ==
    \/ \E b \in Batches : CommitTransition(b)
    \/ \E c \in Commands : ReadCommand(c)
    \/ \E e \in Events, v \in {AnyVersion} \cup 0 .. MaxVersion : AppendExpected(e, v)
    \/ \E e \in Events, v \in {AnyVersion} \cup 0 .. MaxVersion :
           AppendIdempotentExpected(e, v)
    \/ \E r \in Readers, limit \in 1 .. MaxPage : ReadFrom(r, limit)

Spec == Init /\ [][Next]_vars

------------------------------------------------------------------------------
\* The journal, the ghosts and the readers always hold values of their types.
TypeOK ==
    /\ journal \in JournalState
    /\ acked \subseteq Receipt
    /\ cursor \in [Readers -> Nat]
    /\ seen \in [Readers -> Seq(Event)]

\* A receipt tells the truth about the log for ever: its range holds exactly
\* the events it lists, starts and ends on commit boundaries, and the versions
\* it reports are those its read set had at its cursor (plan_transition
\* computes them before index_event runs).
ReceiptsDescribeLog ==
    \A c \in Commands :
        LET r == journal.commands[c]
        IN  r # NoReceipt =>
            /\ r.command = c
            /\ r.cursor <= Len(journal.events)
            /\ r.ids = [i \in 1 .. r.cursor - r.first + 1 |->
                           journal.events[r.first + i - 1].id]
            /\ IsBoundary(journal, r.first - 1) /\ IsBoundary(journal, r.cursor)
            /\ \A a \in DOMAIN r.versions :
                r.versions[a] = CurrentVersion(SubSeq(journal.events, 1, r.cursor), a)

\* A command's effects are in the log once: no two receipts share an event.
CommandsDisjoint ==
    \A c, d \in Commands :
        LET r == journal.commands[c]
            s == journal.commands[d]
        IN  c # d /\ r # NoReceipt /\ s # NoReceipt =>
                r.cursor < s.first \/ s.cursor < r.first

\* What a caller was told was committed is still what the store answers.
AckedStands == \A r \in acked : journal.commands[r.command] = r

\* Streams only move forward, whichever of the two append paths wrote to them.
StreamsRise ==
    \A i, k \in DOMAIN journal.events :
        i < k /\ journal.events[i].stream = journal.events[k].stream =>
            journal.events[i].version < journal.events[k].version

\* The version index that transitions are checked against (index_event) agrees
\* with the scan of the log that single events are checked against
\* (reject_expected_version).
IndexAgrees ==
    \A a \in Aggregates : journal.versions[a] = CurrentVersion(journal.events, a)

\* An event id is stored once, and so is an idempotency key.
IdentitiesUnique ==
    \A i, k \in DOMAIN journal.events :
        \/ i = k
        \/ /\ journal.events[i].id # journal.events[k].id
           /\ journal.events[i].key = journal.events[k].key =>
                  journal.events[i].key = NoKey

\* A reader has been given exactly the events before its cursor, each once and
\* in order, and its cursor never points inside a transaction, so the next page
\* is never refused.
ReadersSeePrefix ==
    \A r \in Readers :
        /\ seen[r] = SubSeq(journal.events, 1, cursor[r])
        /\ IsBoundary(journal, cursor[r])
        /\ \A c \in Commands :
            LET t == journal.commands[c]
            IN  t # NoReceipt => ~(t.first <= cursor[r] /\ cursor[r] < t.cursor)

\* The log is well formed: its streams rise, the index agrees with it, and it stores
\* nothing twice.
LogSound == StreamsRise /\ IndexAgrees /\ IdentitiesUnique

\* What callers and readers were told stands: the receipts describe the log, those
\* handed out are still the ones on record, and readers have a prefix of the log.
CallersServed == ReceiptsDescribeLog /\ AckedStands /\ ReadersSeePrefix

\* A page has events whenever the log has any past the cursor: paging with any
\* limit, even one smaller than a transaction, gets on.
PagesProgress ==
    \A r \in Readers, limit \in 1 .. MaxPage :
        cursor[r] < Len(journal.events) => PageEnd(journal, cursor[r], limit) > cursor[r]

\* What is in the log stays in it, at its place.
AppendOnly ==
    [][/\ SubSeq(journal'.events, 1, Len(journal.events)) = journal.events
       /\ \A c \in Commands :
              journal.commands[c] # NoReceipt => journal'.commands[c] = journal.commands[c]]_vars

\* The atomic contract of the port.
Contract == INSTANCE EventStore WITH
    InitialLogs <- {<< >>},
    acked <- { [command |-> r.command, cursor |-> r.cursor] : r \in acked },
    Entries <- Batches \cup { Single(e) : e \in Events }

\* The adapter implements the atomic log EventStorePort promises: every commit
\* is admitted against the versions it read, callers are told only of commits
\* that are in the log, and readers get whole commits in order.
ImplementsEventStore == Contract!Spec
==============================================================================
