------------------------------- MODULE Journal -------------------------------
(***************************************************************************)
(* JournalState, the index over the accepted events that both EventStore   *)
(* adapters share (kiana-eventlog/src/journal_core.rs), with the rules it   *)
(* takes from event_store_core.rs and from TransitionBatch::validate of     *)
(* kiana-domain/src/journal.rs.  Planning is pure: a predicate or operator  *)
(* here says what a plan returns, Apply... gives the state after it.        *)
(*                                                                         *)
(* A stream is what same_stream compares: the aggregate of an event that    *)
(* carries aggregate metadata, the request of one that carries none.  Only  *)
(* aggregates have an entry in the version index.                           *)
(***************************************************************************)
EXTENDS Integers, Sequences, FiniteSets

CONSTANTS
    Aggregates,     \* (aggregate_type, aggregate_id) pairs
    Requests,       \* requests of events without aggregate metadata
    EventIds,
    Keys, NoKey,    \* idempotency keys, and the absence of one
    Payloads,       \* everything ensure_idempotent_match compares beyond these
    Commands,       \* command_id
    Digests,        \* command_digest
    NoReceipt,      \* HashMap::get finds nothing
    AnyVersion,     \* expected = None
    MaxEvents,      \* MAX_JOURNAL_EVENTS
    MaxBatch,       \* MAX_TRANSITION_EVENTS
    MaxPage,        \* MAX_JOURNAL_PAGE_EVENTS
    MaxVersion      \* the largest stream version, u64::MAX

Streams == Aggregates \cup Requests
Version == 1 .. MaxVersion
ReadSet == UNION { [S -> 0 .. MaxVersion] : S \in SUBSET Aggregates }

Event == [id: EventIds, stream: Streams, version: Version,
          key: Keys \cup {NoKey}, payload: Payloads]

Batch == [command: Commands, digest: Digests, expected: ReadSet,
          events: Seq(Event)]

Receipt == [command: Commands, digest: Digests, first: Nat \ {0}, cursor: Nat,
            ids: Seq(EventIds), versions: ReadSet]

JournalState == [events: Seq(Event),
                 commands: [Commands -> Receipt \cup {NoReceipt}],
                 versions: [Aggregates -> 0 .. MaxVersion],
                 keys: SUBSET Keys,
                 boundaries: Seq(Nat)]

ASSUME JournalAssumption ==
    /\ Aggregates \cap Requests = {}
    /\ NoKey \notin Keys
    /\ NoReceipt \notin Receipt
    /\ AnyVersion \notin Nat
    /\ MaxEvents \in Nat /\ MaxBatch \in Nat /\ MaxPage \in Nat
    /\ MaxVersion \in Nat

EmptyJournal == [events |-> << >>,
                 commands |-> [c \in Commands |-> NoReceipt],
                 versions |-> [a \in Aggregates |-> 0],
                 keys |-> {},
                 boundaries |-> << >>]

------------------------------------------------------------------------------
(* What a state says                                                         *)

EventSet(events) == { events[i] : i \in DOMAIN events }

StreamOf(events, s) == { e \in EventSet(events) : e.stream = s }

\* The .max().unwrap_or(0) of reject_expected_version.
CurrentVersion(events, s) ==
    LET seen == { e.version : e \in StreamOf(events, s) } \cup {0}
    IN  CHOOSE v \in seen : \A w \in seen : w <= v

CommittedCursor(j) ==
    IF j.boundaries = << >> THEN 0 ELSE j.boundaries[Len(j.boundaries)]

------------------------------------------------------------------------------
(* Transitions                                                               *)

\* TransitionBatch::validate, as far as a batch of this model can fail it.
ValidBatch(b) ==
    /\ Len(b.events) \in 1 .. MaxBatch
    /\ DOMAIN b.expected # {}
    /\ \A e \in EventSet(b.events) : e.stream \in DOMAIN b.expected

Known(j, b) == j.commands[b.command] # NoReceipt

Replays(j, b) == Known(j, b) /\ j.commands[b.command].digest = b.digest

\* The command is new, the batch is valid, and the journal has room for it.
Plannable(j, b) ==
    /\ ~Known(j, b)
    /\ ValidBatch(b)
    /\ Len(j.events) + Len(b.events) <= MaxEvents

\* Mutant: only the aggregates a batch writes are checked, not those it read.
Changed_WrittenOnly(j, b) ==
    { a \in { e.stream : e \in EventSet(b.events) } : j.versions[a] # b.expected[a] }

Changed(j, b) == { a \in DOMAIN b.expected : j.versions[a] # b.expected[a] }

Conflicts(j, b) == Plannable(j, b) /\ Changed(j, b) # {}

FreshIds(j, b) ==
    /\ \A i, k \in DOMAIN b.events : b.events[i].id = b.events[k].id => i = k
    /\ \A e \in EventSet(j.events), f \in EventSet(b.events) : e.id # f.id

FreshKeys(j, b) ==
    \A i \in DOMAIN b.events :
        b.events[i].key # NoKey =>
            /\ b.events[i].key \notin j.keys
            /\ \A k \in DOMAIN b.events : b.events[k].key = b.events[i].key => k = i

\* How many of the first n events of a batch are for aggregate a.
Written(b, a, n) == Cardinality({ i \in 1 .. n : b.events[i].stream = a })

\* Each event takes the version just after its aggregate's last one, and
\* checked_add refuses to go past the largest version.
Contiguous(j, b) ==
    \A i \in DOMAIN b.events :
        LET a == b.events[i].stream
        IN  b.events[i].version = j.versions[a] + Written(b, a, i)

Appends(j, b) ==
    /\ Plannable(j, b)
    /\ Changed(j, b) = {}
    /\ FreshIds(j, b)
    /\ FreshKeys(j, b)
    /\ Contiguous(j, b)

NewReceipt(j, b) ==
    [command |-> b.command,
     digest |-> b.digest,
     first |-> Len(j.events) + 1,
     cursor |-> Len(j.events) + Len(b.events),
     ids |-> [i \in DOMAIN b.events |-> b.events[i].id],
     versions |-> [a \in DOMAIN b.expected |->
                      j.versions[a] + Written(b, a, Len(b.events))]]

\* Mutant: the index keeps the version that comes next.
IndexedVersions_Next(versions, events) ==
    [a \in Aggregates |->
        LET mine == { i \in DOMAIN events : events[i].stream = a }
        IN  IF mine = {} THEN versions[a]
            ELSE events[CHOOSE i \in mine : \A k \in mine : k <= i].version + 1]

\* index_event over a run of events: the last event of an aggregate sets its
\* version.
IndexedVersions(versions, events) ==
    [a \in Aggregates |->
        LET mine == { i \in DOMAIN events : events[i].stream = a }
        IN  IF mine = {} THEN versions[a]
            ELSE events[CHOOSE i \in mine : \A k \in mine : k <= i].version]

Index(j, events) ==
    [j EXCEPT !.events = @ \o events,
              !.versions = IndexedVersions(@, events),
              !.keys = @ \cup ({ e.key : e \in EventSet(events) } \ {NoKey}),
              !.boundaries = Append(@, Len(j.events) + Len(events))]

\* Mutant: the receipt is not indexed.
ApplyTransition_NoReceipt(j, b, receipt) == Index(j, b.events)

ApplyTransition(j, b, receipt) ==
    [Index(j, b.events) EXCEPT !.commands[receipt.command] = receipt]

------------------------------------------------------------------------------
(* Single events, the compatibility path                                     *)

KeyHolders(j, key) == { e \in EventSet(j.events) : e.key = key }

\* ensure_idempotent_match compares everything but the event id.
SameFact(e, f) == [e EXCEPT !.id = f.id] = f

ReplaysLegacy(j, e) ==
    /\ e.key # NoKey
    /\ KeyHolders(j, e.key) # {}
    /\ \A f \in KeyHolders(j, e.key) : SameFact(e, f)

\* Mutant: a single event only has to differ from the last version.
AppendsLegacy_AnyOther(j, e, expected) ==
    /\ expected = AnyVersion \/ expected = CurrentVersion(j.events, e.stream)
    /\ \A f \in EventSet(j.events) : f.id # e.id
    /\ CurrentVersion(j.events, e.stream) # e.version
    /\ Len(j.events) < MaxEvents
    /\ e.key \notin j.keys

\* plan_append and the tail of plan_legacy.  Versions only have to grow here:
\* a single event may skip some.
AppendsLegacy(j, e, expected) ==
    /\ expected = AnyVersion \/ expected = CurrentVersion(j.events, e.stream)
    /\ \A f \in EventSet(j.events) : f.id # e.id
    /\ \A f \in StreamOf(j.events, e.stream) : f.version < e.version
    /\ Len(j.events) < MaxEvents
    /\ e.key \notin j.keys

ApplyLegacy(j, e) == Index(j, <<e>>)

------------------------------------------------------------------------------
(* Pages                                                                     *)

IsBoundary(j, cursor) ==
    cursor = 0 \/ \E i \in DOMAIN j.boundaries : j.boundaries[i] = cursor

PageAllowed(j, cursor, limit) ==
    /\ limit \in 1 .. MaxPage
    /\ cursor <= Len(j.events)
    /\ IsBoundary(j, cursor)

\* Mutant: the page is cut at the limit, wherever that falls.
PageEnd_Cut(j, cursor, limit) ==
    IF cursor + limit <= Len(j.events) THEN cursor + limit ELSE Len(j.events)

\* The loop over the boundaries past the cursor takes whole commits until it
\* has `limit` events or the next one would exceed it, and always the first.
PageEnd(j, cursor, limit) ==
    LET past == { j.boundaries[i] : i \in DOMAIN j.boundaries } \ 0 .. cursor
        fits == { x \in past : x - cursor <= limit }
    IN  IF past = {} THEN cursor
        ELSE IF fits = {} THEN CHOOSE x \in past : \A y \in past : x <= y
        ELSE CHOOSE x \in fits : \A y \in fits : y <= x

PageEvents(j, cursor, limit) ==
    SubSeq(j.events, cursor + 1, PageEnd(j, cursor, limit))
==============================================================================
