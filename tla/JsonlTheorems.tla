---------------------------- MODULE JsonlTheorems ----------------------------
(***************************************************************************)
(* The safety of JsonlEventLog for every value of the constants.  Scan is  *)
(* reasoned about one chunk at a time: what a replay keeps, where its cache *)
(* stands and how it ends, for any sequence of chunks, hence for any file a *)
(* torn write, a mended tail or a power failure leaves.  Shape is inductive *)
(* whatever fails; TypeOK and WithinCapacity follow from it.  Upheld adds  *)
(* that nothing durable is lost and no cache is led astray (Becomes); the  *)
(* durability of answers, the recovery of the file and the truth of the    *)
(* caches follow from that, under the two conditions of Calm.              *)
(***************************************************************************)
EXTENDS JsonlEventLog, JournalTheorems

------------------------------------------------------------------------------
(* Induction without an induction theorem                                    *)

\* A set of naturals that holds 0 and with every number the next is Nat.
LEMMA CountsUp ==
    ASSUME NEW S, 0 \in S, \A n \in Nat : n \in S => n + 1 \in S
    PROVE  Nat \subseteq S
<1>. DEFINE T == Nat \ S
<1>. SUFFICES ASSUME T # {} PROVE FALSE
  OBVIOUS
<1>1. T \in SUBSET Nat
  OBVIOUS
<1>2. PICK m \in T : \A k \in T : m <= k
  BY <1>1, LeastExists
<1>3. m \in Nat /\ m # 0 /\ m - 1 \in Nat /\ m - 1 + 1 = m
  BY <1>2
<1>4. m - 1 \notin T
  BY <1>2, <1>3
<1>. QED
  BY <1>2, <1>3, <1>4

------------------------------------------------------------------------------
(* Unfolding Scan                                                            *)

Begins(k) == [k |-> k, line |-> << >>, bad |-> FALSE]

\* A function that Scan may choose, over the file up to m.
IsTrace(u, k, f, m) ==
    u = [n \in k.offset .. m |-> IF n = k.offset THEN Begins(k) ELSE Step(u[n - 1], f[n])]

\* There is one.
LEMMA TraceExists ==
    ASSUME NEW k, k.offset \in Nat, NEW f, NEW p \in Nat
    PROVE  \E u : IsTrace(u, k, f, k.offset + p)
<1>. DEFINE o == k.offset
            S == { n \in Nat : \E u : IsTrace(u, k, f, o + n) }
<1>1. 0 \in S
  <2>. DEFINE u == [n \in o .. o |-> Begins(k)]
  <2>0. o + 0 = o /\ \A n \in o .. o : n = o
    OBVIOUS
  <2>1. u = [n \in o .. o + 0 |-> IF n = o THEN Begins(k) ELSE Step(u[n - 1], f[n])]
    BY <2>0, Zenon
  <2>2. IsTrace(u, k, f, o + 0)
    BY <2>1, Zenon DEF IsTrace
  <2>. QED
    BY <2>2
<1>2. ASSUME NEW n \in Nat, n \in S
      PROVE  n + 1 \in S
  <2>1. PICK u : IsTrace(u, k, f, o + n)
    BY <1>2
  <2>. DEFINE m == o + n + 1
              w == [i \in o .. m |-> IF i = m THEN Step(u[m - 1], f[m]) ELSE u[i]]
  <2>2. ASSUME NEW i \in o .. m
        PROVE  w[i] = IF i = o THEN Begins(k) ELSE Step(w[i - 1], f[i])
    <3>1. CASE i = m
      <4>1. i # o /\ i - 1 \in o .. m /\ i - 1 # m
        BY <3>1
      <4>. QED
        BY <3>1, <4>1
    <3>2. CASE i # m
      <4>1. i \in o .. o + n /\ (i # o => i - 1 \in o .. m /\ i - 1 # m)
        BY <3>2
      <4>2. u[i] = IF i = o THEN Begins(k) ELSE Step(u[i - 1], f[i])
        BY <2>1, <4>1 DEF IsTrace
      <4>. QED
        BY <3>2, <4>1, <4>2
    <3>. QED
      BY <3>1, <3>2
  <2>3. w = [i \in o .. m |-> w[i]]
    OBVIOUS
  <2>. HIDE DEF w
  <2>4. w = [i \in o .. m |-> IF i = o THEN Begins(k) ELSE Step(w[i - 1], f[i])]
    BY <2>2, <2>3, Zenon
  <2>5. IsTrace(w, k, f, m)
    BY <2>4 DEF IsTrace
  <2>6. m = o + (n + 1)
    BY <1>2
  <2>. QED
    BY <2>5, <2>6
<1>. HIDE DEF S
<1>3. Nat \subseteq S
  BY <1>1, <1>2, CountsUp
<1>4. p \in S
  BY <1>3
<1>. QED
  BY <1>4 DEF S

\* The states of the loop over f, from the end of what the cache k knows.
Trace(k, f) == CHOOSE u : IsTrace(u, k, f, Len(f))

\* The loop starts with the cache, takes one chunk after the other, and Scan is where
\* it ends.
LEMMA ScanIsTrace ==
    ASSUME NEW k, k.offset \in Nat, NEW f, Len(f) \in Nat, k.offset <= Len(f)
    PROVE  /\ Trace(k, f)[k.offset] = Begins(k)
           /\ \A n \in k.offset + 1 .. Len(f) :
                Trace(k, f)[n] = Step(Trace(k, f)[n - 1], f[n])
           /\ Scan(k, f) = Trace(k, f)[Len(f)]
<1>. DEFINE u == Trace(k, f)
<1>1. /\ Len(f) - k.offset \in Nat /\ k.offset + (Len(f) - k.offset) = Len(f)
  OBVIOUS
<1>2. \E w : IsTrace(w, k, f, Len(f))
  BY <1>1, TraceExists, Zenon
<1>3. IsTrace(u, k, f, Len(f))
  BY <1>2, Zenon DEF Trace
<1>. HIDE DEF u
<1>4. \A n \in k.offset .. Len(f) :
          u[n] = IF n = k.offset THEN Begins(k) ELSE Step(u[n - 1], f[n])
  BY <1>3 DEF IsTrace
<1>5. u[k.offset] = Begins(k)
  BY <1>4
<1>6. \A n \in k.offset + 1 .. Len(f) : u[n] = Step(u[n - 1], f[n])
  BY <1>4
<1>7. Scan(k, f) = u[Len(f)]
  BY Zenon DEF Scan, u, Trace, IsTrace, Begins
<1>. QED
  BY <1>5, <1>6, <1>7 DEF u

------------------------------------------------------------------------------
(* What a replay keeps                                                       *)

CacheSet == [journal: JournalState, offset: Nat, upgraded: BOOLEAN,
             warm: BOOLEAN, current: BOOLEAN, uncertain: BOOLEAN]

GoodCache(k) == k \in CacheSet /\ JournalInv(k.journal)

\* Journal j holds all that journal i holds, at the same places.
Within(i, j) ==
    /\ Len(i.events) <= Len(j.events)
    /\ \A n \in 1 .. Len(i.events) : j.events[n] = i.events[n]
    /\ Len(i.boundaries) <= Len(j.boundaries)
    /\ \A n \in 1 .. Len(i.boundaries) : j.boundaries[n] = i.boundaries[n]
    /\ \A c \in Commands : i.commands[c] # NoReceipt => j.commands[c] = i.commands[c]

\* Cache l is cache k after more of the file; only the flags of the load differ.
Later(k, l) ==
    /\ Within(k.journal, l.journal)
    /\ k.upgraded => l.upgraded
    /\ k.offset <= l.offset
    /\ l.warm = k.warm /\ l.current = k.current /\ l.uncertain = k.uncertain

\* A journal holds itself, and what it holds holds.
LEMMA WithinSelf ==
    ASSUME NEW j
    PROVE  Within(j, j)
  BY DEF Within

\* What holds a journal that holds another holds that one too.
LEMMA WithinTransitive ==
    ASSUME NEW i \in JournalState, NEW j \in JournalState, NEW k \in JournalState,
           Within(i, j), Within(j, k)
    PROVE  Within(i, k)
<1>1. /\ Len(i.events) \in Nat /\ Len(j.events) \in Nat /\ Len(k.events) \in Nat
      /\ Len(i.boundaries) \in Nat /\ Len(j.boundaries) \in Nat /\ Len(k.boundaries) \in Nat
  BY LenProperties DEF JournalState
<1>. QED
  BY <1>1 DEF Within

\* A longer log has the same beginning.
LEMMA WithinLonger ==
    ASSUME NEW i \in JournalState, NEW j, NEW es \in Seq(Event), NEW m \in Nat,
           j.events = i.events \o es, j.boundaries = Append(i.boundaries, m),
           \A c \in Commands : i.commands[c] # NoReceipt => j.commands[c] = i.commands[c]
    PROVE  Within(i, j)
<1>1. i.events \in Seq(Event) /\ i.boundaries \in Seq(Nat)
  BY DEF JournalState
<1>2. /\ Len(i.events) \in Nat /\ Len(es) \in Nat /\ Len(i.boundaries) \in Nat
      /\ Len(j.events) = Len(i.events) + Len(es)
      /\ \A n \in 1 .. Len(i.events) + Len(es) :
            j.events[n] = IF n <= Len(i.events) THEN i.events[n] ELSE es[n - Len(i.events)]
  BY <1>1, LenProperties, ConcatProperties
<1>3. /\ Len(j.boundaries) = Len(i.boundaries) + 1
      /\ \A n \in 1 .. Len(i.boundaries) : j.boundaries[n] = i.boundaries[n]
  BY <1>1, AppendProperties
<1>. QED
  BY <1>2, <1>3 DEF Within

\* What the chunks are.
LEMMA ChunkType ==
    ASSUME NEW x \in Chunk
    PROVE  /\ x = Newline <=> x.is = "newline"
           /\ x = Torn <=> x.is = "torn"
           /\ x.is = "frame" => x.batch \in Batches /\ x.batch \in Batch /\ x.receipt \in Receipt
           /\ x.is \in {"event", "legacy"} => x.event \in Events /\ x.event \in Event
           /\ x.is \in {"newline", "torn", "header", "frame", "event", "legacy"}
<1>1. CASE x \in [is: {"newline", "torn", "header"}]
  BY <1>1 DEF Newline, Torn
<1>2. CASE x \in [is: {"frame"}, batch: Batches, receipt: Receipt]
  BY <1>2, JsonlInputs DEF Newline, Torn
<1>3. CASE x \in [is: {"event", "legacy"}, event: Events]
  BY <1>3, JsonlInputs DEF Newline, Torn
<1>. QED
  BY <1>1, <1>2, <1>3 DEF Chunk

\* The chunks the adapter writes.
LEMMA ChunksWritten ==
    /\ Newline \in Chunk /\ Torn \in Chunk /\ Header \in Chunk
    /\ \A b \in Batches, r \in Receipt : Frame(b, r) \in Chunk
    /\ \A e \in Events : EventFrame(e) \in Chunk /\ LegacyLine(e) \in Chunk
    /\ Torn # Newline /\ Header # Newline /\ Header # Torn
  BY DEF Chunk, Newline, Torn, Header, Frame, EventFrame, LegacyLine

\* A record that is accepted leaves a good cache that holds more.
LEMMA AcceptSpec ==
    ASSUME NEW k, GoodCache(k), NEW x \in Chunk, Accepts(k, x)
    PROVE  /\ GoodCache(Accept(k, x))
           /\ Later(k, Accept(k, x))
           /\ Accept(k, x).offset = k.offset
<1>. DEFINE l == Accept(k, x)
<1>1. k \in CacheSet /\ k.journal \in JournalState /\ JournalInv(k.journal)
  BY DEF GoodCache, CacheSet
<1>2. CASE x.is = "header"
  <2>1. l = [k EXCEPT !.upgraded = TRUE]
    BY <1>2, Zenon DEF Accept
  <2>2. /\ l \in CacheSet /\ l.journal = k.journal /\ l.upgraded = TRUE /\ l.offset = k.offset
        /\ l.warm = k.warm /\ l.current = k.current /\ l.uncertain = k.uncertain
    BY <1>1, <2>1 DEF CacheSet
  <2>3. k.offset \in Nat
    BY <1>1 DEF CacheSet
  <2>. HIDE DEF l
  <2>. QED
    BY <1>1, <2>2, <2>3, WithinSelf DEF Later, GoodCache, l
<1>3. ASSUME NEW j, l = [k EXCEPT !.journal = j], JournalInv(j), Within(k.journal, j)
      PROVE  GoodCache(l) /\ Later(k, l) /\ l.offset = k.offset
  <2>1. j \in JournalState
    BY <1>3 DEF JournalInv
  <2>. HIDE DEF l
  <2>2. /\ l \in CacheSet /\ l.journal = j /\ l.upgraded = k.upgraded /\ l.offset = k.offset
        /\ l.warm = k.warm /\ l.current = k.current /\ l.uncertain = k.uncertain
    BY <1>1, <1>3, <2>1 DEF CacheSet
  <2>3. k.offset \in Nat
    BY <1>1 DEF CacheSet
  <2>. QED
    BY <1>3, <2>2, <2>3 DEF Later, GoodCache
<1>4. CASE x.is = "frame"
  <2>. DEFINE b == x.batch
              j == ApplyTransition(k.journal, b, x.receipt)
  <2>1. Appends(k.journal, b) /\ x.receipt = NewReceipt(k.journal, b)
    BY <1>4 DEF Accepts
  <2>2. b \in Batch /\ b.events \in Seq(Event)
    BY <1>4, ChunkType DEF Batch
  <2>3. /\ JournalInv(j) /\ j.events = k.journal.events \o b.events
        /\ j.boundaries = Append(k.journal.boundaries, Len(k.journal.events) + Len(b.events))
        /\ k.journal.commands[b.command] = NoReceipt
        /\ j.commands = [k.journal.commands EXCEPT ![b.command] = NewReceipt(k.journal, b)]
    <3>1. j = ApplyTransition(k.journal, b, NewReceipt(k.journal, b))
      BY <2>1
    <3>. HIDE DEF j, b
    <3>. QED
      BY <1>1, <2>1, <2>2, <3>1, ApplyTransitionKeeps, Zenon
  <2>4. l = [k EXCEPT !.journal = j]
    BY <1>4, Zenon DEF Accept
  <2>. HIDE DEF j, l, b
  <2>5. \A c \in Commands : k.journal.commands[c] # NoReceipt
                                => j.commands[c] = k.journal.commands[c]
    BY <1>1, <2>3 DEF JournalState
  <2>6. Len(k.journal.events) + Len(b.events) \in Nat
    <3>1. Len(k.journal.events) \in Nat
      BY <1>1, LenProperties DEF JournalState
    <3>2. Len(b.events) \in Nat
      BY <2>2, LenProperties
    <3>3. \A a, c \in Nat : a + c \in Nat
      OBVIOUS
    <3>. QED
      BY <3>1, <3>2, <3>3, Zenon
  <2>7. Within(k.journal, j)
    <3>1. /\ j.events = k.journal.events \o b.events
          /\ j.boundaries = Append(k.journal.boundaries, Len(k.journal.events) + Len(b.events))
      BY <2>3
    <3>. QED
      BY <1>1, <2>2, <2>5, <2>6, <3>1, WithinLonger
  <2>. QED
    BY <1>3, <2>3, <2>4, <2>7 DEF l
<1>5. CASE x.is \in {"event", "legacy"}
  <2>. DEFINE e == x.event
              j == ApplyLegacy(k.journal, e)
  <2>1. AppendsLegacy(k.journal, e, AnyVersion)
    BY <1>5 DEF Accepts
  <2>2. e \in Event /\ <<e>> \in Seq(Event)
    BY <1>5, ChunkType
  <2>3. /\ JournalInv(j) /\ j.events = k.journal.events \o <<e>>
        /\ j.boundaries = Append(k.journal.boundaries, Len(k.journal.events) + 1)
        /\ j.commands = k.journal.commands
    BY <1>1, <2>1, <2>2, ApplyLegacyKeeps
  <2>4. l = [k EXCEPT !.journal = j]
    BY <1>5, Zenon DEF Accept
  <2>. HIDE DEF j, l, e
  <2>5. Len(k.journal.events) + 1 \in Nat
    BY <1>1, LenProperties DEF JournalState
  <2>6. Within(k.journal, j)
    BY <1>1, <2>2, <2>3, <2>5, WithinLonger
  <2>. QED
    BY <1>3, <2>3, <2>4, <2>6 DEF l
<1>6. x.is \in {"header", "frame", "event", "legacy"}
  BY DEF Accepts
<1>. QED
  BY <1>2, <1>4, <1>5, <1>6

------------------------------------------------------------------------------
(* The loop of load_delta, chunk by chunk                                    *)

ScanSet == [k: CacheSet, line: Seq(Chunk), bad: BOOLEAN]

\* The ways one chunk takes the loop on.
Corrupt(s, t) == s.bad /\ t = s
Reads(s, x, t) == ~s.bad /\ x # Newline /\ t.k = s.k /\ t.line = Append(s.line, x) /\ ~t.bad
Blank(s, x, t) ==
    /\ ~s.bad /\ x = Newline /\ s.line = << >>
    /\ t.k = [s.k EXCEPT !.offset = s.k.offset + 1] /\ t.line = << >> /\ ~t.bad
Ends(s, x, t) ==
    /\ ~s.bad /\ x = Newline /\ Len(s.line) = 1 /\ Accepts(s.k, s.line[1])
    /\ t.k = [Accept(s.k, s.line[1]) EXCEPT !.offset = Accept(s.k, s.line[1]).offset + 2]
    /\ t.line = << >> /\ ~t.bad
Spoils(s, x, t) ==
    /\ ~s.bad /\ x = Newline /\ s.line # << >> /\ ~(Len(s.line) = 1 /\ Accepts(s.k, s.line[1]))
    /\ t.k = s.k /\ t.line = s.line /\ t.bad

\* There are no others.
LEMMA StepCases ==
    ASSUME NEW s \in ScanSet, NEW x, NEW t, t = Step(s, x)
    PROVE  /\ Corrupt(s, t) \/ Reads(s, x, t) \/ Blank(s, x, t) \/ Ends(s, x, t)
                  \/ Spoils(s, x, t)
           /\ t = [k |-> t.k, line |-> t.line, bad |-> t.bad]
           /\ t.bad \in BOOLEAN
<1>0. s.bad \in BOOLEAN /\ s = [k |-> s.k, line |-> s.line, bad |-> s.bad]
  BY DEF ScanSet
<1>1. CASE s.bad
  <2>1. t = s
    BY <1>1, Zenon DEF Step
  <2>. QED
    BY <1>0, <1>1, <2>1 DEF Corrupt
<1>2. CASE ~s.bad /\ x # Newline
  <2>1. t = [s EXCEPT !.line = Append(@, x)]
    BY <1>2, Zenon DEF Step
  <2>. QED
    BY <1>0, <1>2, <2>1 DEF Reads, ScanSet
<1>3. CASE ~s.bad /\ x = Newline /\ s.line = << >>
  <2>1. t = [s EXCEPT !.k.offset = @ + 1]
    BY <1>3, Zenon DEF Step
  <2>2. /\ t.k = [s.k EXCEPT !.offset = s.k.offset + 1] /\ t.line = s.line /\ t.bad = s.bad
        /\ t = [k |-> t.k, line |-> t.line, bad |-> t.bad]
    BY <1>0, <2>1 DEF ScanSet
  <2>. QED
    BY <1>0, <1>3, <2>2 DEF Blank
<1>4. CASE ~s.bad /\ x = Newline /\ s.line # << >> /\ Len(s.line) = 1 /\ Accepts(s.k, s.line[1])
  <2>. DEFINE a == Accept(s.k, s.line[1])
              k == [a EXCEPT !.offset = a.offset + 2]
  <2>1. t = [s EXCEPT !.k = [Accept(s.k, s.line[1]) EXCEPT !.offset = @ + 2], !.line = << >>]
    BY <1>4, Zenon DEF Step
  <2>2. t = [s EXCEPT !.k = k, !.line = << >>]
    BY <2>1
  <2>. HIDE DEF k
  <2>3. t.k = k /\ t.line = << >> /\ t.bad = s.bad /\ t = [k |-> t.k, line |-> t.line, bad |-> t.bad]
    BY <1>0, <2>2 DEF ScanSet
  <2>4. t.k = [Accept(s.k, s.line[1]) EXCEPT !.offset = Accept(s.k, s.line[1]).offset + 2]
    BY <2>3, Zenon DEF k
  <2>. QED
    BY <1>0, <1>4, <2>3, <2>4, Zenon DEF Ends
<1>5. CASE /\ ~s.bad /\ x = Newline /\ s.line # << >>
           /\ ~(Len(s.line) = 1 /\ Accepts(s.k, s.line[1]))
  <2>1. t = [s EXCEPT !.bad = TRUE]
    BY <1>5, Zenon DEF Step
  <2>2. t.k = s.k /\ t.line = s.line /\ t.bad = TRUE /\ t = [k |-> t.k, line |-> t.line, bad |-> t.bad]
    BY <1>0, <2>1 DEF ScanSet
  <2>. QED
    BY <1>5, <2>2 DEF Spoils
<1>. QED
  BY <1>1, <1>2, <1>3, <1>4, <1>5

\* Reading on keeps what was read.
LEMMA LaterSelf ==
    ASSUME NEW k, k.offset \in Nat
    PROVE  Later(k, k)
  BY WithinSelf DEF Later

\* Reading on twice is reading on.
LEMMA LaterTransitive ==
    ASSUME NEW i \in CacheSet, NEW j \in CacheSet, NEW k \in CacheSet, Later(i, j), Later(j, k)
    PROVE  Later(i, k)
<1>1. Within(i.journal, k.journal)
  BY WithinTransitive DEF Later, CacheSet
<1>2. i.offset \in Nat /\ j.offset \in Nat /\ k.offset \in Nat
  BY DEF CacheSet
<1>. QED
  BY <1>1, <1>2 DEF Later

\* Another offset changes nothing else in a cache.
LEMMA OffsetSpec ==
    ASSUME NEW k, GoodCache(k), NEW o \in Nat, k.offset <= o,
           NEW l, l = [k EXCEPT !.offset = o]
    PROVE  /\ GoodCache(l) /\ Later(k, l) /\ l.offset = o /\ l.journal = k.journal
           /\ l.upgraded = k.upgraded
<1>1. k \in CacheSet /\ JournalInv(k.journal)
  BY DEF GoodCache
<1>2. /\ l \in CacheSet /\ l.offset = o /\ l.journal = k.journal /\ l.upgraded = k.upgraded
      /\ l.warm = k.warm /\ l.current = k.current /\ l.uncertain = k.uncertain
  BY <1>1 DEF CacheSet
<1>. QED
  BY <1>1, <1>2, WithinSelf DEF GoodCache, Later

\* What one chunk changes: the cache moves on over a blank line or an accepted record.
LEMMA StepMoves ==
    ASSUME NEW s \in ScanSet, GoodCache(s.k), NEW x \in Chunk, NEW t, t = Step(s, x)
    PROVE  /\ t \in ScanSet /\ GoodCache(t.k) /\ Later(s.k, t.k)
           /\ Blank(s, x, t) => t.k.offset = s.k.offset + 1
           /\ Ends(s, x, t) => t.k.offset = s.k.offset + 2
<1>1. /\ s.k \in CacheSet /\ s.line \in Seq(Chunk) /\ s.k.offset \in Nat
      /\ s.bad \in BOOLEAN
  BY DEF ScanSet, CacheSet
<1>2. t = [k |-> t.k, line |-> t.line, bad |-> t.bad] /\ t.bad \in BOOLEAN
  BY StepCases
<1>3. ASSUME t.k \in CacheSet, t.line \in Seq(Chunk)
      PROVE  t \in ScanSet
  BY <1>2, <1>3 DEF ScanSet
<1>4. Later(s.k, s.k)
  BY <1>1, LaterSelf
<1>. DEFINE P == t \in ScanSet /\ GoodCache(t.k) /\ Later(s.k, t.k)
<1>5. ASSUME t.k = s.k, t.line \in Seq(Chunk)
      PROVE  P
  BY <1>1, <1>3, <1>4, <1>5
<1>6. CASE Corrupt(s, t)
  BY <1>1, <1>4, <1>6 DEF Corrupt, Blank, Ends
<1>7. CASE Reads(s, x, t)
  <2>1. t.k = s.k /\ t.line \in Seq(Chunk)
    BY <1>1, <1>7, AppendProperties DEF Reads
  <2>. QED
    BY <1>5, <1>7, <2>1 DEF Reads, Blank, Ends
<1>8. CASE Blank(s, x, t)
  <2>1. /\ s.k.offset + 1 \in Nat /\ s.k.offset <= s.k.offset + 1
        /\ t.k = [s.k EXCEPT !.offset = s.k.offset + 1] /\ t.line = << >>
    BY <1>1, <1>8 DEF Blank
  <2>2. GoodCache(t.k) /\ Later(s.k, t.k) /\ t.k.offset = s.k.offset + 1
    BY <2>1, OffsetSpec
  <2>3. t \in ScanSet
    BY <1>3, <2>1, <2>2 DEF GoodCache
  <2>4. ~Ends(s, x, t)
    BY <1>8 DEF Blank, Ends
  <2>. QED
    BY <2>2, <2>3, <2>4
<1>9. CASE Ends(s, x, t)
  <2>. DEFINE a == Accept(s.k, s.line[1])
  <2>1. /\ Len(s.line) = 1 /\ Accepts(s.k, s.line[1]) /\ t.line = << >> /\ s.line # << >>
        /\ t.k = [a EXCEPT !.offset = a.offset + 2]
    BY <1>1, <1>9 DEF Ends
  <2>2. s.line[1] \in Chunk
    BY <1>1, <2>1, ElementOfSeq
  <2>3. GoodCache(a) /\ Later(s.k, a) /\ a.offset = s.k.offset
    BY <2>1, <2>2, AcceptSpec
  <2>. HIDE DEF a
  <2>4. a.offset + 2 \in Nat /\ a.offset <= a.offset + 2 /\ a.offset + 2 = s.k.offset + 2
    BY <1>1, <2>3
  <2>5. GoodCache(t.k) /\ Later(a, t.k) /\ t.k.offset = s.k.offset + 2
    BY <2>1, <2>3, <2>4, OffsetSpec
  <2>6. a \in CacheSet /\ t.k \in CacheSet
    BY <2>3, <2>5 DEF GoodCache
  <2>7. Later(s.k, t.k)
    BY <1>1, <2>3, <2>5, <2>6, LaterTransitive
  <2>8. t \in ScanSet
    BY <1>3, <2>1, <2>6
  <2>9. ~Blank(s, x, t)
    BY <2>1 DEF Blank
  <2>. QED
    BY <2>5, <2>7, <2>8, <2>9
<1>10. CASE Spoils(s, x, t)
  BY <1>1, <1>5, <1>10 DEF Spoils, Blank, Ends
<1>. QED
  BY <1>6, <1>7, <1>8, <1>9, <1>10, StepCases

\* Where the loop is at the end of f, begun with the cache k.
Sound(k, f, s) ==
    /\ s \in ScanSet /\ GoodCache(s.k) /\ Later(k, s.k)
    /\ s.k.offset <= Len(f)
    /\ ~s.bad => s.k.offset + Len(s.line) = Len(f)
    /\ s.line # << >> /\ ~s.bad => f[Len(f)] # Newline
    /\ \A i \in DOMAIN s.line : s.line[i] # Newline

\* One chunk more leaves it sound.
LEMMA StepSound ==
    ASSUME NEW k \in CacheSet, NEW f \in Seq(Chunk), NEW x \in Chunk, NEW s, Sound(k, f, s),
           NEW t, t = Step(s, x)
    PROVE  Sound(k, Append(f, x), t)
<1>. DEFINE g == Append(f, x)
<1>1. /\ s \in ScanSet /\ s.k \in CacheSet /\ s.line \in Seq(Chunk) /\ s.k.offset \in Nat
      /\ Len(s.line) \in Nat /\ DOMAIN s.line = 1 .. Len(s.line)
      /\ s.bad \in BOOLEAN /\ GoodCache(s.k) /\ Later(k, s.k) /\ s.k.offset <= Len(f)
  BY LenProperties DEF Sound, ScanSet, CacheSet
<1>2. /\ g \in Seq(Chunk) /\ Len(g) = Len(f) + 1 /\ g[Len(g)] = x /\ Len(f) \in Nat
  BY LenProperties, AppendProperties
<1>. HIDE DEF g
<1>3. /\ t \in ScanSet /\ GoodCache(t.k) /\ Later(s.k, t.k) /\ t.k \in CacheSet
      /\ Blank(s, x, t) => t.k.offset = s.k.offset + 1
      /\ Ends(s, x, t) => t.k.offset = s.k.offset + 2
  BY <1>1, StepMoves DEF GoodCache
<1>4. Later(k, t.k)
  BY <1>1, <1>3, LaterTransitive
<1>5. ~s.bad => s.k.offset + Len(s.line) = Len(f)
  BY DEF Sound
<1>. DEFINE P == /\ t.k.offset <= Len(g)
                 /\ ~t.bad => t.k.offset + Len(t.line) = Len(g)
                 /\ t.line # << >> /\ ~t.bad => g[Len(g)] # Newline
                 /\ \A i \in DOMAIN t.line : t.line[i] # Newline
<1>6. ASSUME Corrupt(s, t) PROVE P
  BY <1>1, <1>2, <1>6 DEF Corrupt, Sound
<1>7. ASSUME Reads(s, x, t) PROVE P
  <2>1. t.k = s.k /\ t.line = Append(s.line, x) /\ x # Newline /\ ~s.bad /\ t.bad = FALSE
    BY <1>3, <1>7 DEF Reads, ScanSet
  <2>2. /\ Len(t.line) = Len(s.line) + 1 /\ DOMAIN t.line = 1 .. Len(s.line) + 1
        /\ \A i \in 1 .. Len(s.line) : t.line[i] = s.line[i]
        /\ t.line[Len(s.line) + 1] = x
    BY <1>1, <2>1, AppendProperties
  <2>3. \A i \in 1 .. Len(s.line) : s.line[i] # Newline
    BY <1>1 DEF Sound
  <2>4. \A i \in DOMAIN t.line : t.line[i] # Newline
    BY <1>1, <2>1, <2>2, <2>3
  <2>5. t.k.offset + Len(t.line) = Len(g) /\ t.k.offset <= Len(g)
    BY <1>1, <1>2, <1>5, <2>1, <2>2
  <2>. QED
    BY <1>2, <2>1, <2>4, <2>5
<1>8. ASSUME Blank(s, x, t) PROVE P
  <2>1. t.line = << >> /\ s.line = << >> /\ ~s.bad
    BY <1>8 DEF Blank
  <2>2. Len(t.line) = 0 /\ Len(s.line) = 0 /\ DOMAIN t.line = {}
    BY <2>1
  <2>. QED
    BY <1>1, <1>2, <1>3, <1>5, <1>8, <2>1, <2>2
<1>9. ASSUME Ends(s, x, t) PROVE P
  <2>1. t.line = << >> /\ Len(s.line) = 1 /\ ~s.bad
    BY <1>9 DEF Ends
  <2>2. Len(t.line) = 0 /\ DOMAIN t.line = {}
    BY <2>1
  <2>. QED
    BY <1>1, <1>2, <1>3, <1>5, <1>9, <2>1, <2>2
<1>10. ASSUME Spoils(s, x, t) PROVE P
  <2>1. t.k = s.k /\ t.line = s.line /\ t.bad /\ ~s.bad
    BY <1>10 DEF Spoils
  <2>2. \A i \in DOMAIN t.line : t.line[i] # Newline
    BY <2>1 DEF Sound
  <2>. QED
    BY <1>1, <1>2, <2>1, <2>2
<1>11. P
  BY <1>1, <1>6, <1>7, <1>8, <1>9, <1>10, StepCases
<1>12. Sound(k, g, t)
  BY <1>3, <1>4, <1>11 DEF Sound
<1>. QED
  BY <1>12 DEF g

------------------------------------------------------------------------------
(* Files, chunk by chunk                                                     *)

\* The first n chunks of a file.
LEMMA FrontSpec ==
    ASSUME NEW f \in Seq(Chunk), NEW n \in 0 .. Len(f)
    PROVE  /\ SubSeq(f, 1, n) \in Seq(Chunk) /\ Len(SubSeq(f, 1, n)) = n
           /\ \A i \in 1 .. n : SubSeq(f, 1, n)[i] = f[i]
           /\ Len(f) \in Nat /\ n \in Nat
<1>1. Len(f) \in Nat /\ n \in Nat /\ \A i \in 1 .. n : i \in 1 .. Len(f)
  BY LenProperties
<1>2. \A i \in 1 .. n : f[i] \in Chunk
  BY <1>1, ElementOfSeq
<1>3. SubSeq(f, 1, n) \in Seq(Chunk) /\ Len(SubSeq(f, 1, n)) = n
  BY <1>1, <1>2, SubSeqProperties
<1>4. \A i \in 1 .. n : SubSeq(f, 1, n)[i] = f[i]
  BY <1>1, <1>3, SubSeqProperties
<1>. QED
  BY <1>1, <1>3, <1>4

\* The whole of it, and the front of a front.
LEMMA Fronts ==
    ASSUME NEW f \in Seq(Chunk)
    PROVE  /\ SubSeq(f, 1, Len(f)) = f
           /\ SubSeq(f, 1, 0) = << >>
           /\ \A n \in 0 .. Len(f), m \in 0 .. Len(f) :
                m <= n => SubSeq(SubSeq(f, 1, n), 1, m) = SubSeq(f, 1, m)
           /\ \A x, n \in 0 .. Len(f) : SubSeq(Append(f, x), 1, n) = SubSeq(f, 1, n)
           /\ \A n \in Nat : n + 1 <= Len(f) =>
                SubSeq(f, 1, n + 1) = Append(SubSeq(f, 1, n), f[n + 1])
  OBVIOUS

\* Every file is built from the empty one, a chunk at a time.
LEMMA FileInduction ==
    ASSUME NEW T, << >> \in T,
           \A g \in T, x \in Chunk : g \in Seq(Chunk) => Append(g, x) \in T
    PROVE  Seq(Chunk) \subseteq T
<1>. DEFINE S == { n \in Nat : \A f \in Seq(Chunk) : Len(f) = n => f \in T }
<1>1. 0 \in S
  OBVIOUS
<1>2. ASSUME NEW n \in Nat, n \in S
      PROVE  n + 1 \in S
  <2>. SUFFICES ASSUME NEW f \in Seq(Chunk), Len(f) = n + 1
                PROVE  f \in T
    OBVIOUS
  <2>. DEFINE g == SubSeq(f, 1, n)
  <2>0. n \in 0 .. Len(f)
    OBVIOUS
  <2>1. g \in Seq(Chunk) /\ Len(g) = n
    BY <2>0, FrontSpec
  <2>2. f[n + 1] \in Chunk
    BY ElementOfSeq
  <2>3. f = Append(g, f[n + 1])
    BY Fronts
  <2>4. g \in T
    BY <1>2, <2>1
  <2>. QED
    BY <2>1, <2>2, <2>3, <2>4
<1>. HIDE DEF S
<1>3. Nat \subseteq S
  BY <1>1, <1>2, CountsUp
<1>4. ASSUME NEW f \in Seq(Chunk)
      PROVE  f \in T
  <2>1. Len(f) \in S
    BY <1>3, LenProperties
  <2>. QED
    BY <2>1 DEF S
<1>. QED
  BY <1>4

------------------------------------------------------------------------------
(* The scan of a file that grows                                             *)

\* Nothing to read.
LEMMA ScanNothing ==
    ASSUME NEW k, k.offset \in Nat, NEW f \in Seq(Chunk), Len(f) = k.offset
    PROVE  Scan(k, f) = Begins(k)
  BY ScanIsTrace

\* A scan of the file with one chunk more takes one step more.
LEMMA ScanAppend ==
    ASSUME NEW k, k.offset \in Nat, NEW f \in Seq(Chunk), k.offset <= Len(f), NEW x \in Chunk
    PROVE  Scan(k, Append(f, x)) = Step(Scan(k, f), x)
<1>. DEFINE g == Append(f, x)
            o == k.offset
            m == Len(f)
            u == Trace(k, f)
            w == Trace(k, g)
            S == { n \in Nat : o + n <= m => w[o + n] = u[o + n] }
<1>1. /\ m \in Nat /\ Len(g) = m + 1 /\ g[m + 1] = x
      /\ \A i \in 1 .. m : g[i] = f[i]
  BY LenProperties, AppendProperties
<1>. HIDE DEF g
<1>2. /\ u[o] = Begins(k)
      /\ \A n \in o + 1 .. m : u[n] = Step(u[n - 1], f[n])
      /\ Scan(k, f) = u[m]
  BY <1>1, ScanIsTrace
<1>3. /\ w[o] = Begins(k)
      /\ \A n \in o + 1 .. m + 1 : w[n] = Step(w[n - 1], g[n])
      /\ Scan(k, g) = w[m + 1]
  BY <1>1, ScanIsTrace
<1>. HIDE DEF u, w
<1>4. 0 \in S
  BY <1>2, <1>3
<1>5. ASSUME NEW n \in Nat, n \in S
      PROVE  n + 1 \in S
  <2>. SUFFICES ASSUME o + (n + 1) <= m
                PROVE  w[o + (n + 1)] = u[o + (n + 1)]
    OBVIOUS
  <2>. DEFINE i == o + (n + 1)
  <2>1. i \in o + 1 .. m /\ i \in o + 1 .. m + 1 /\ i \in 1 .. m /\ i - 1 = o + n /\ o + n <= m
    OBVIOUS
  <2>2. w[i - 1] = u[i - 1]
    BY <1>5, <2>1
  <2>3. w[i] = Step(w[i - 1], g[i]) /\ u[i] = Step(u[i - 1], f[i]) /\ g[i] = f[i]
    BY <1>1, <1>2, <1>3, <2>1
  <2>. QED
    BY <2>2, <2>3
<1>. HIDE DEF S
<1>6. Nat \subseteq S
  BY <1>4, <1>5, CountsUp
<1>7. m - o \in S /\ o + (m - o) = m
  BY <1>1, <1>6
<1>8. w[m] = u[m]
  BY <1>7 DEF S
<1>9. w[m + 1] = Step(w[m], x)
  <2>1. m + 1 \in o + 1 .. m + 1 /\ m + 1 - 1 = m
    BY <1>1
  <2>. QED
    BY <1>1, <1>3, <2>1
<1>. QED
  BY <1>2, <1>3, <1>8, <1>9 DEF g

\* The start of a scan is sound.
LEMMA BeginsSound ==
    ASSUME NEW k, GoodCache(k), NEW f \in Seq(Chunk), Len(f) = k.offset
    PROVE  Sound(k, f, Begins(k))
<1>. DEFINE b == Begins(k)
<1>1. k \in CacheSet /\ k.offset \in Nat /\ Len(f) \in Nat
  BY LenProperties DEF GoodCache, CacheSet
<1>2. b.k = k /\ b.line = << >> /\ b.bad = FALSE /\ b \in ScanSet
  BY <1>1 DEF Begins, ScanSet
<1>. HIDE DEF b
<1>3. Later(k, k)
  BY <1>1, LaterSelf
<1>4. Len(b.line) = 0 /\ DOMAIN b.line = {}
  BY <1>2
<1>5. Sound(k, f, b)
  BY <1>1, <1>2, <1>3, <1>4 DEF Sound
<1>. QED
  BY <1>5 DEF b

\* So is its end.
LEMMA ScanSound ==
    ASSUME NEW k, GoodCache(k), NEW f \in Seq(Chunk), k.offset <= Len(f)
    PROVE  Sound(k, f, Scan(k, f))
<1>. DEFINE T == { g \in Seq(Chunk) : k.offset <= Len(g) => Sound(k, g, Scan(k, g)) }
<1>1. k \in CacheSet /\ k.offset \in Nat
  BY DEF GoodCache, CacheSet
<1>2. ASSUME NEW g \in Seq(Chunk), Len(g) = k.offset
      PROVE  Sound(k, g, Scan(k, g))
  BY <1>1, <1>2, ScanNothing, BeginsSound
<1>3. << >> \in T
  <2>1. << >> \in Seq(Chunk) /\ Len(<< >>) = 0
    OBVIOUS
  <2>2. k.offset = 0 => Sound(k, << >>, Scan(k, << >>))
    BY <1>2, <2>1
  <2>3. k.offset <= 0 => k.offset = 0
    BY <1>1
  <2>. QED
    BY <2>1, <2>2, <2>3
<1>4. ASSUME NEW g \in T, NEW x \in Chunk, g \in Seq(Chunk)
      PROVE  Append(g, x) \in T
  <2>1. Append(g, x) \in Seq(Chunk) /\ Len(Append(g, x)) = Len(g) + 1 /\ Len(g) \in Nat
    BY LenProperties, AppendProperties
  <2>2. CASE k.offset <= Len(g)
    <3>1. Sound(k, g, Scan(k, g))
      BY <1>4, <2>2
    <3>2. Scan(k, Append(g, x)) = Step(Scan(k, g), x)
      BY <1>1, <2>2, ScanAppend
    <3>3. Sound(k, Append(g, x), Scan(k, Append(g, x)))
      BY <1>1, <3>1, <3>2, StepSound
    <3>. QED
      BY <2>1, <3>3
  <2>3. CASE k.offset = Len(g) + 1
    BY <1>2, <2>1, <2>3
  <2>4. CASE k.offset > Len(g) + 1
    BY <1>1, <2>1, <2>4
  <2>. QED
    BY <1>1, <2>1, <2>2, <2>3, <2>4
<1>. HIDE DEF T
<1>5. f \in T
  BY <1>3, <1>4, FileInduction
<1>. QED
  BY <1>5 DEF T

------------------------------------------------------------------------------
(* How a scan ends                                                           *)

\* The four endings, each by what the scan has left.
LEMMA EndingSpec ==
    ASSUME NEW s \in ScanSet
    PROVE  /\ Ending(s) \in {"corrupt", "clean", "torn", "unterminated"}
           /\ Ending(s) = "clean" <=> ~s.bad /\ s.line = << >>
           /\ Ending(s) = "torn" <=> /\ ~s.bad /\ s.line = <<Torn>>
                                     /\ s.k.upgraded \/ s.k.journal.events # << >>
           /\ Ending(s) = "unterminated" <=>
                ~s.bad /\ s.line # << >> /\ Len(s.line) = 1 /\ Accepts(s.k, s.line[1])
<1>0. s.bad \in BOOLEAN /\ s.line \in Seq(Chunk)
  BY DEF ScanSet
<1>1. s.line = <<Torn>> => s.line # << >> /\ s.line[1] = Torn /\ Len(s.line) = 1
  OBVIOUS
<1>2. ~Accepts(s.k, Torn)
  BY DEF Accepts, Torn
<1>3. CASE s.bad
  <2>1. Ending(s) = "corrupt"
    BY <1>3 DEF Ending
  <2>. QED
    BY <1>3, <2>1
<1>4. CASE ~s.bad /\ s.line = << >>
  <2>1. Ending(s) = "clean"
    BY <1>4 DEF Ending
  <2>. QED
    BY <1>1, <1>4, <2>1
<1>5. CASE ~s.bad /\ s.line = <<Torn>>
  <2>1. Ending(s) = IF s.k.upgraded \/ s.k.journal.events # << >> THEN "torn" ELSE "corrupt"
    BY <1>1, <1>5 DEF Ending
  <2>2. ~Accepts(s.k, s.line[1])
    BY <1>1, <1>2, <1>5
  <2>. QED
    BY <1>1, <1>5, <2>1, <2>2
<1>6. CASE ~s.bad /\ s.line # << >> /\ s.line # <<Torn>>
  <2>1. Ending(s) = IF Len(s.line) = 1 /\ Accepts(s.k, s.line[1]) THEN "unterminated" ELSE "corrupt"
    BY <1>6 DEF Ending
  <2>. QED
    BY <1>6, <2>1
<1>. QED
  BY <1>0, <1>3, <1>4, <1>5, <1>6

\* A line that can no longer become a good one.
Doomed(s) == s.bad \/ Len(s.line) >= 2

\* A line that is spoilt stays spoilt, whatever is read next.
LEMMA DoomedStays ==
    ASSUME NEW s \in ScanSet, NEW x, Doomed(s), NEW t, t = Step(s, x)
    PROVE  Doomed(t)
<1>1. s.line \in Seq(Chunk) /\ Len(s.line) \in Nat /\ s.bad \in BOOLEAN /\ t.bad \in BOOLEAN
  BY StepCases, LenProperties DEF ScanSet
<1>2. CASE Reads(s, x, t)
  <2>1. t.line = Append(s.line, x) /\ Len(t.line) = Len(s.line) + 1 /\ ~s.bad
    BY <1>1, <1>2 DEF Reads
  <2>. QED
    BY <1>1, <2>1 DEF Doomed
<1>3. CASE Blank(s, x, t)
  <2>1. s.line = << >> /\ Len(s.line) = 0 /\ ~s.bad
    BY <1>3 DEF Blank
  <2>. QED
    BY <2>1 DEF Doomed
<1>4. CASE Corrupt(s, t)
  BY <1>4 DEF Corrupt
<1>5. CASE Ends(s, x, t)
  <2>1. Len(s.line) = 1 /\ ~s.bad
    BY <1>5 DEF Ends
  <2>. QED
    BY <2>1 DEF Doomed
<1>6. CASE Spoils(s, x, t)
  BY <1>6 DEF Spoils, Doomed
<1>. QED
  BY <1>2, <1>3, <1>4, <1>5, <1>6, StepCases

\* A file that ends in a spoilt line is corrupt.
LEMMA DoomedEnds ==
    ASSUME NEW s \in ScanSet, Doomed(s)
    PROVE  Ending(s) = "corrupt"
<1>1. s.line = << >> => Len(s.line) = 0
  OBVIOUS
<1>2. s.line = <<Torn>> => Len(s.line) = 1
  OBVIOUS
<1>3. s.line \in Seq(Chunk) /\ Len(s.line) \in Nat /\ s.bad \in BOOLEAN
  BY LenProperties DEF ScanSet
<1>4. s.bad \/ (s.line # << >> /\ s.line # <<Torn>> /\ Len(s.line) # 1)
  <2>. SUFFICES ASSUME ~s.bad
                PROVE  s.line # << >> /\ s.line # <<Torn>> /\ Len(s.line) # 1
    OBVIOUS
  <2>1. Len(s.line) >= 2
    BY DEF Doomed
  <2>2. Len(s.line) # 0 /\ Len(s.line) # 1
    <3>1. \A n \in Nat : n >= 2 => n # 0 /\ n # 1
      OBVIOUS
    <3>. QED
      BY <1>3, <2>1, <3>1, Zenon
  <2>. QED
    BY <1>1, <1>2, <2>2, Zenon
<1>. QED
  BY <1>4, EndingSpec, Zenon

\* The cache after a scan: good, and past all the scan has read.
LEMMA MovedSpec ==
    ASSUME NEW s \in ScanSet, GoodCache(s.k)
    PROVE  /\ GoodCache(Moved(s)) /\ Later(s.k, Moved(s))
           /\ Ending(s) # "unterminated" => Moved(s) = s.k
           /\ Ending(s) = "unterminated" =>
                /\ Moved(s).journal = Accept(s.k, s.line[1]).journal
                /\ Moved(s).upgraded = Accept(s.k, s.line[1]).upgraded
                /\ Moved(s).offset = s.k.offset + 1
<1>1. s.k \in CacheSet /\ s.k.offset \in Nat /\ s.line \in Seq(Chunk)
  BY DEF GoodCache, CacheSet, ScanSet
<1>2. CASE Ending(s) # "unterminated"
  <2>1. Moved(s) = s.k
    BY <1>2 DEF Moved
  <2>. QED
    BY <1>1, <1>2, <2>1, LaterSelf
<1>3. CASE Ending(s) = "unterminated"
  <2>. DEFINE a == Accept(s.k, s.line[1])
  <2>1. s.line[1] \in Chunk /\ Accepts(s.k, s.line[1])
    BY <1>1, <1>3, EndingSpec, ElementOfSeq
  <2>2. GoodCache(a) /\ Later(s.k, a) /\ a.offset = s.k.offset
    BY <2>1, AcceptSpec
  <2>3. Moved(s) = [a EXCEPT !.offset = a.offset + 1]
    BY <1>3, Zenon DEF Moved
  <2>4. a.offset + 1 \in Nat /\ a.offset <= a.offset + 1 /\ a.offset + 1 = s.k.offset + 1
    BY <1>1, <2>2
  <2>. DEFINE m == Moved(s)
  <2>. HIDE DEF a, m
  <2>5. /\ GoodCache(m) /\ Later(a, m) /\ m.offset = s.k.offset + 1
        /\ m.journal = a.journal /\ m.upgraded = a.upgraded
    BY <2>2, <2>3, <2>4, OffsetSpec DEF m
  <2>6. Later(s.k, m)
    BY <1>1, <2>2, <2>5, LaterTransitive DEF GoodCache
  <2>. QED
    BY <1>3, <2>5, <2>6 DEF a, m
<1>. QED
  BY <1>2, <1>3

------------------------------------------------------------------------------
(* What a file recovers to                                                   *)

Opens(f) == Ending(Recovered(f)) # "corrupt"
View(f) == Moved(Recovered(f))

\* The cache of a handle that has read nothing is a good one.
LEMMA EmptyCacheGood == GoodCache(EmptyCache) /\ EmptyCache.offset = 0
<1>1. JournalInv(EmptyJournal) /\ EmptyJournal \in JournalState
  BY EmptyJournalKeeps DEF JournalInv
<1>. QED
  BY <1>1 DEF GoodCache, EmptyCache, CacheSet

\* A replay from the start reads one more chunk with one more step.
LEMMA RecoverAppend ==
    ASSUME NEW f \in Seq(Chunk), NEW x \in Chunk
    PROVE  Recovered(Append(f, x)) = Step(Recovered(f), x)
<1>1. EmptyCache.offset \in Nat /\ EmptyCache.offset <= Len(f)
  BY EmptyCacheGood, LenProperties
<1>. QED
  BY <1>1, ScanAppend DEF Recovered

\* A replay of no file ends where it begins.
LEMMA RecoverNothing == Recovered(<< >>) = Begins(EmptyCache)
<1>1. << >> \in Seq(Chunk) /\ Len(<< >>) = 0 /\ EmptyCache.offset = 0
  BY EmptyCacheGood
<1>2. EmptyCache.offset \in Nat /\ Len(<< >>) = EmptyCache.offset
  BY <1>1
<1>3. Scan(EmptyCache, << >>) = Begins(EmptyCache)
  BY <1>1, <1>2, ScanNothing, Zenon
<1>. QED
  BY <1>3 DEF Recovered

\* A replay from the start is sound: its cache is good and its offset in the file.
LEMMA RecoverSound ==
    ASSUME NEW f \in Seq(Chunk)
    PROVE  /\ Sound(EmptyCache, f, Recovered(f))
           /\ Recovered(f) \in ScanSet /\ GoodCache(Recovered(f).k)
           /\ Recovered(f).k \in CacheSet /\ Recovered(f).k.offset \in 0 .. Len(f)
           /\ Recovered(f).line \in Seq(Chunk)
<1>1. EmptyCache.offset \in Nat /\ EmptyCache.offset <= Len(f) /\ Len(f) \in Nat
  BY EmptyCacheGood, LenProperties
<1>2. Sound(EmptyCache, f, Recovered(f))
  BY <1>1, EmptyCacheGood, ScanSound DEF Recovered
<1>. QED
  BY <1>1, <1>2 DEF Sound, ScanSet, CacheSet

\* The end of the last good record is a place where nothing is left over.
LEMMA RecoverCut ==
    ASSUME NEW f \in Seq(Chunk), ~Recovered(f).bad
    PROVE  Recovered(SubSeq(f, 1, Recovered(f).k.offset)) = Begins(Recovered(f).k)
<1>. DEFINE R(g) == Recovered(g)
            T == { g \in Seq(Chunk) :
                    ~R(g).bad => R(SubSeq(g, 1, R(g).k.offset)) = Begins(R(g).k) }
<1>1. << >> \in T
  <2>1. << >> \in Seq(Chunk) /\ SubSeq(<< >>, 1, 0) = << >>
    OBVIOUS
  <2>2. R(<< >>) = Begins(EmptyCache) /\ R(<< >>).k = EmptyCache /\ EmptyCache.offset = 0
    BY RecoverNothing, EmptyCacheGood DEF Begins
  <2>3. SubSeq(<< >>, 1, R(<< >>).k.offset) = << >>
    BY <2>1, <2>2
  <2>. QED
    BY <2>1, <2>2, <2>3
<1>2. ASSUME NEW g \in T, NEW x \in Chunk, g \in Seq(Chunk)
      PROVE  Append(g, x) \in T
  <2>. DEFINE h == Append(g, x)
              s == R(g)
              t == R(h)
  <2>1. h \in Seq(Chunk) /\ Len(h) = Len(g) + 1 /\ Len(g) \in Nat
    BY LenProperties, AppendProperties
  <2>2. t = Step(s, x)
    BY RecoverAppend
  <2>3. /\ s \in ScanSet /\ Sound(EmptyCache, h, t) /\ t.k \in CacheSet /\ t.line \in Seq(Chunk)
        /\ s.k.offset \in 0 .. Len(g) /\ t.k.offset \in 0 .. Len(h)
        /\ GoodCache(t.k) /\ t = [k |-> t.k, line |-> t.line, bad |-> t.bad]
    BY <2>1, RecoverSound DEF ScanSet
  <2>4. SubSeq(h, 1, s.k.offset) = SubSeq(g, 1, s.k.offset)
    BY <2>3, Fronts
  <2>5. ~s.bad => R(SubSeq(g, 1, s.k.offset)) = Begins(s.k)
    BY <1>2
  <2>. HIDE DEF s, t, R
  <2>6. CASE t.k = s.k /\ ~s.bad
    BY <2>1, <2>4, <2>5, <2>6 DEF t
  <2>7. CASE t.line = << >> /\ ~t.bad
    <3>1. t.k.offset = Len(h)
      BY <2>1, <2>3, <2>7 DEF Sound
    <3>2. SubSeq(h, 1, t.k.offset) = h
      BY <2>1, <3>1, Fronts
    <3>3. t = Begins(t.k)
      BY <2>3, <2>7 DEF Begins, Sound, ScanSet
    <3>. QED
      BY <2>1, <3>2, <3>3 DEF t
  <2>8. CASE t.bad
    BY <2>1, <2>8 DEF t
  <2>9. (t.k = s.k /\ ~s.bad) \/ (t.line = << >> /\ ~t.bad) \/ t.bad
    <3>1. Corrupt(s, t) \/ Reads(s, x, t) \/ Blank(s, x, t) \/ Ends(s, x, t) \/ Spoils(s, x, t)
      BY <2>2, <2>3, StepCases
    <3>. QED
      BY <3>1 DEF Corrupt, Reads, Blank, Ends, Spoils
  <2>. QED
    BY <2>6, <2>7, <2>8, <2>9
<1>. HIDE DEF T
<1>3. f \in T
  BY <1>1, <1>2, FileInduction
<1>. QED
  BY <1>3 DEF T

\* What the front of a file gives stays, for better or worse.
LEMMA RecoverGrows ==
    ASSUME NEW f \in Seq(Chunk), NEW n \in 0 .. Len(f)
    PROVE  LET s == Recovered(SubSeq(f, 1, n))
           IN  /\ s \in ScanSet /\ GoodCache(s.k)
               /\ Later(s.k, Recovered(f).k)
               /\ Doomed(s) => Doomed(Recovered(f))
<1>. DEFINE P(g, m) == /\ Later(Recovered(SubSeq(g, 1, m)).k, Recovered(g).k)
                       /\ Doomed(Recovered(SubSeq(g, 1, m))) => Doomed(Recovered(g))
            T == { g \in Seq(Chunk) : \A m \in 0 .. Len(g) : P(g, m) }
<1>1. ASSUME NEW g \in Seq(Chunk)
      PROVE  P(g, Len(g))
  <2>1. SubSeq(g, 1, Len(g)) = g
    BY Fronts
  <2>2. Recovered(g).k.offset \in Nat
    BY RecoverSound DEF CacheSet
  <2>3. Later(Recovered(g).k, Recovered(g).k)
    BY <2>2, LaterSelf
  <2>. QED
    BY <2>1, <2>3
<1>2. << >> \in T
  <2>1. << >> \in Seq(Chunk) /\ Len(<< >>) = 0 /\ \A m \in 0 .. 0 : m = 0
    OBVIOUS
  <2>. QED
    BY <1>1, <2>1
<1>3. ASSUME NEW g \in T, NEW x \in Chunk, g \in Seq(Chunk)
      PROVE  Append(g, x) \in T
  <2>. DEFINE h == Append(g, x)
  <2>1. h \in Seq(Chunk) /\ Len(h) = Len(g) + 1 /\ Len(g) \in Nat
    BY LenProperties, AppendProperties
  <2>2. ASSUME NEW m \in 0 .. Len(h)
        PROVE  P(h, m)
    <3>1. CASE m = Len(h)
      BY <1>1, <2>1, <3>1
    <3>2. CASE m # Len(h)
      <4>. DEFINE r == Recovered(SubSeq(g, 1, m))
                  s == Recovered(g)
                  t == Recovered(h)
      <4>1. m \in 0 .. Len(g) /\ SubSeq(h, 1, m) = SubSeq(g, 1, m)
        BY <2>1, <3>2, Fronts
      <4>2. P(g, m)
        BY <1>3, <4>1
      <4>3. t = Step(s, x)
        BY RecoverAppend
      <4>4. SubSeq(g, 1, m) \in Seq(Chunk)
        BY <4>1, FrontSpec
      <4>5. s \in ScanSet /\ GoodCache(s.k) /\ s.k \in CacheSet /\ r.k \in CacheSet
        BY <4>4, RecoverSound
      <4>. HIDE DEF r, s, t, h
      <4>6. Later(s.k, t.k) /\ GoodCache(t.k) /\ (Doomed(s) => Doomed(t))
        BY <4>3, <4>5, StepMoves, DoomedStays
      <4>7. Later(r.k, s.k) /\ (Doomed(r) => Doomed(s))
        BY <4>2 DEF r, s
      <4>8. Later(r.k, t.k)
        BY <4>5, <4>6, <4>7, LaterTransitive DEF GoodCache
      <4>. QED
        BY <4>1, <4>6, <4>7, <4>8 DEF r, t
    <3>. QED
      BY <3>1, <3>2
  <2>. QED
    BY <2>1, <2>2
<1>. HIDE DEF T
<1>4. f \in T
  BY <1>2, <1>3, FileInduction
<1>5. P(f, n)
  BY <1>4 DEF T
<1>6. SubSeq(f, 1, n) \in Seq(Chunk)
  BY FrontSpec
<1>. QED
  BY <1>5, <1>6, RecoverSound

\* The newline a last line lacks: the record is in the cache, and nothing is left over.
LEMMA EndsLine ==
    ASSUME NEW s \in ScanSet, GoodCache(s.k), Ending(s) = "unterminated",
           NEW t, t = Step(s, Newline)
    PROVE  /\ ~t.bad /\ t.line = << >> /\ t.k.journal = Moved(s).journal
           /\ t.k.upgraded = Moved(s).upgraded /\ t.k.offset = Moved(s).offset + 1
<1>1. /\ ~s.bad /\ s.line # << >> /\ Len(s.line) = 1 /\ Accepts(s.k, s.line[1])
      /\ s.line \in Seq(Chunk)
  BY EndingSpec DEF ScanSet
<1>. DEFINE a == Accept(s.k, s.line[1])
<1>2. t.line = << >> /\ ~t.bad /\ t.k = [a EXCEPT !.offset = a.offset + 2]
  <2>1. Corrupt(s, t) \/ Reads(s, Newline, t) \/ Blank(s, Newline, t) \/ Ends(s, Newline, t)
        \/ Spoils(s, Newline, t)
    BY StepCases, ChunksWritten
  <2>2. ~Corrupt(s, t) /\ ~Reads(s, Newline, t) /\ ~Blank(s, Newline, t) /\ ~Spoils(s, Newline, t)
    BY <1>1, Zenon DEF Corrupt, Reads, Blank, Spoils
  <2>3. Ends(s, Newline, t)
    BY <2>1, <2>2
  <2>. QED
    BY <2>3, Zenon DEF Ends
<1>3. s.line[1] \in Chunk
  BY <1>1, ElementOfSeq
<1>4. GoodCache(a) /\ a.offset = s.k.offset
  BY <1>1, <1>3, AcceptSpec
<1>5. a \in CacheSet /\ a.offset \in Nat
  BY <1>4 DEF GoodCache, CacheSet
<1>6. /\ Moved(s).journal = a.journal /\ Moved(s).upgraded = a.upgraded
      /\ Moved(s).offset = s.k.offset + 1
  BY MovedSpec
<1>. HIDE DEF a
<1>7. t.k.journal = a.journal /\ t.k.upgraded = a.upgraded /\ t.k.offset = a.offset + 2
  BY <1>2, <1>5 DEF CacheSet
<1>. QED
  BY <1>2, <1>4, <1>5, <1>6, <1>7

\* Cache l holds what cache k does.
Holds(k, l) == Within(k.journal, l.journal) /\ (k.upgraded => l.upgraded)

\* A cache that holds one that holds a third holds the third.
LEMMA HoldsTransitive ==
    ASSUME NEW i, GoodCache(i), NEW j, GoodCache(j), NEW k, GoodCache(k), Holds(i, j), Holds(j, k)
    PROVE  Holds(i, k)
<1>1. i.journal \in JournalState /\ j.journal \in JournalState /\ k.journal \in JournalState
  BY DEF GoodCache, CacheSet
<1>2. Within(i.journal, k.journal)
  BY <1>1, WithinTransitive DEF Holds
<1>. QED
  BY <1>2 DEF Holds

\* A cache that has read on holds what it held.
LEMMA LaterHolds ==
    ASSUME NEW k, NEW l, Later(k, l)
    PROVE  Holds(k, l)
  BY DEF Later, Holds

\* Caches that replayed the same hold each other.
LEMMA HoldsSelf ==
    ASSUME NEW k, NEW l, k.journal = l.journal, k.upgraded = l.upgraded
    PROVE  Holds(k, l)
  BY WithinSelf DEF Holds

\* A file that opens is cut, wherever it is cut, between lines or before a newline.
LEMMA OpensFront ==
    ASSUME NEW f \in Seq(Chunk), Opens(f), NEW n \in Nat, n < Len(f),
           NEW s, s = Recovered(SubSeq(f, 1, n))
    PROVE  /\ Ending(s) = "clean" \/ (Ending(s) = "unterminated" /\ f[n + 1] = Newline)
           /\ s \in ScanSet /\ GoodCache(s.k) /\ f[n + 1] \in Chunk
           /\ Recovered(SubSeq(f, 1, n + 1)) = Step(s, f[n + 1])
<1>. DEFINE x == f[n + 1]
            t == Recovered(SubSeq(f, 1, n + 1))
<1>1. Len(f) \in Nat /\ n \in 0 .. Len(f) /\ n + 1 \in 0 .. Len(f) /\ n + 1 \in 1 .. Len(f)
  BY LenProperties
<1>2. SubSeq(f, 1, n) \in Seq(Chunk) /\ x \in Chunk
  BY <1>1, FrontSpec, ElementOfSeq
<1>3. t = Step(s, x)
  <2>1. SubSeq(f, 1, n + 1) = Append(SubSeq(f, 1, n), x)
    BY <1>1, Fronts
  <2>. QED
    BY <1>2, <2>1, RecoverAppend
<1>4. s \in ScanSet /\ GoodCache(s.k) /\ s.line \in Seq(Chunk) /\ Len(s.line) \in Nat
  BY <1>2, RecoverSound, LenProperties
<1>5. ~Doomed(t)
  <2>1. ~Doomed(Recovered(f))
    BY RecoverSound, DoomedEnds DEF Opens
  <2>. QED
    BY <1>1, <2>1, RecoverGrows
<1>. HIDE DEF t, x
<1>. DEFINE P == Ending(s) = "clean" \/ (Ending(s) = "unterminated" /\ x = Newline)
<1>6. ASSUME Corrupt(s, t) \/ Spoils(s, x, t) PROVE P
  BY <1>5, <1>6 DEF Corrupt, Spoils, Doomed
<1>7. ASSUME Reads(s, x, t) PROVE P
  <2>1. t.line = Append(s.line, x) /\ ~s.bad /\ Len(t.line) = Len(s.line) + 1
    BY <1>4, <1>7 DEF Reads
  <2>2. ~(Len(t.line) >= 2)
    BY <1>5 DEF Doomed
  <2>3. Len(s.line) = 0
    BY <1>4, <2>1, <2>2
  <2>4. s.line = << >>
    BY <1>4, <2>3, EmptySeq
  <2>. QED
    BY <1>4, <2>1, <2>4, EndingSpec
<1>8. ASSUME Blank(s, x, t) PROVE P
  BY <1>4, <1>8, EndingSpec DEF Blank
<1>9. ASSUME Ends(s, x, t) PROVE P
  <2>1. s.line # << >>
    BY <1>9 DEF Ends
  <2>. QED
    BY <1>4, <1>9, <2>1, EndingSpec DEF Ends
<1>10. P
  BY <1>3, <1>4, <1>6, <1>7, <1>8, <1>9, StepCases
<1>. QED
  BY <1>2, <1>3, <1>4, <1>10 DEF x, t

\* So its front opens too, on less.
LEMMA ViewGrows ==
    ASSUME NEW f \in Seq(Chunk), Opens(f), NEW n \in 0 .. Len(f),
           NEW g, g = SubSeq(f, 1, n)
    PROVE  Opens(g) /\ Holds(View(g), View(f)) /\ GoodCache(View(g)) /\ GoodCache(View(f))
<1>. DEFINE s == Recovered(g)
            r == Recovered(f)
<1>1. g \in Seq(Chunk) /\ Len(f) \in Nat
  BY FrontSpec
<1>2. /\ s \in ScanSet /\ GoodCache(s.k) /\ r \in ScanSet /\ GoodCache(r.k)
      /\ s.k \in CacheSet /\ r.k \in CacheSet
  BY <1>1, RecoverSound
<1>3. GoodCache(View(g)) /\ GoodCache(View(f)) /\ Later(r.k, View(f))
  BY <1>2, MovedSpec DEF View
<1>4. CASE n = Len(f)
  <2>1. g = f
    BY <1>4, Fronts
  <2>. QED
    BY <1>3, <2>1, HoldsSelf
<1>5. CASE n < Len(f)
  <2>1. Ending(s) = "clean" \/ (Ending(s) = "unterminated" /\ f[n + 1] = Newline)
    BY <1>5, OpensFront
  <2>2. Later(s.k, r.k)
    BY RecoverGrows
  <2>3. CASE Ending(s) = "clean"
    <3>1. View(g) = s.k
      BY <1>2, <2>3, MovedSpec DEF View
    <3>2. Holds(s.k, r.k) /\ Holds(r.k, View(f))
      BY <1>3, <2>2, LaterHolds
    <3>. QED
      BY <1>2, <1>3, <2>3, <3>1, <3>2, HoldsTransitive DEF Opens
  <2>4. CASE Ending(s) = "unterminated" /\ f[n + 1] = Newline
    <3>. DEFINE t == Recovered(SubSeq(f, 1, n + 1))
    <3>1. t = Step(s, Newline)
      BY <1>5, <2>4, OpensFront
    <3>2. n + 1 \in 0 .. Len(f)
      BY <1>1, <1>5
    <3>3. t \in ScanSet /\ GoodCache(t.k) /\ Later(t.k, r.k)
      BY <3>2, RecoverGrows
    <3>. HIDE DEF t
    <3>4. t.k.journal = View(g).journal /\ t.k.upgraded = View(g).upgraded
      BY <1>2, <2>4, <3>1, EndsLine DEF View
    <3>5. Holds(View(g), t.k)
      BY <3>4, HoldsSelf
    <3>6. Holds(t.k, r.k) /\ Holds(r.k, View(f))
      BY <1>3, <3>3, LaterHolds
    <3>7. Holds(View(g), r.k)
      BY <1>2, <1>3, <3>3, <3>5, <3>6, HoldsTransitive
    <3>8. Holds(View(g), View(f))
      BY <1>2, <1>3, <3>6, <3>7, HoldsTransitive
    <3>. QED
      BY <1>3, <2>4, <3>8 DEF Opens
  <2>. QED
    BY <2>1, <2>3, <2>4
<1>. QED
  BY <1>1, <1>4, <1>5

------------------------------------------------------------------------------
(* A scan that starts in the middle                                          *)

\* Two caches that replayed the same, and two scans that are at the same place.
Alike(k, l) == k.journal = l.journal /\ k.upgraded = l.upgraded /\ k.offset = l.offset
Same(s, t) == Alike(s.k, t.k) /\ s.line = t.line /\ s.bad = t.bad

\* Whether a record is accepted depends on what was replayed, not on the flags.
LEMMA AlikeAccepts ==
    ASSUME NEW k \in CacheSet, NEW l \in CacheSet, Alike(k, l), NEW x
    PROVE  /\ Accepts(k, x) <=> Accepts(l, x)
           /\ Accepts(k, x) => Alike(Accept(k, x), Accept(l, x))
<1>1. Accepts(k, x) <=> Accepts(l, x)
  BY DEF Accepts, Alike
<1>. DEFINE A(c, a) == \/ x.is = "header" /\ a = [c EXCEPT !.upgraded = TRUE]
                       \/ x.is = "frame"
                            /\ a = [c EXCEPT !.journal = ApplyTransition(c.journal, x.batch, x.receipt)]
                       \/ x.is \in {"event", "legacy"}
                            /\ a = [c EXCEPT !.journal = ApplyLegacy(c.journal, x.event)]
<1>2. ASSUME x.is \in {"header", "frame", "event", "legacy"}, NEW c
      PROVE  A(c, Accept(c, x))
  <2>1. CASE x.is = "header"
    <3>1. Accept(c, x) = [c EXCEPT !.upgraded = TRUE]
      BY <2>1, Zenon DEF Accept
    <3>. QED
      BY <2>1, <3>1, Zenon
  <2>2. CASE x.is = "frame"
    <3>1. Accept(c, x) = [c EXCEPT !.journal = ApplyTransition(c.journal, x.batch, x.receipt)]
      BY <2>2, Zenon DEF Accept
    <3>. QED
      BY <2>2, <3>1, Zenon
  <2>3. CASE x.is \in {"event", "legacy"}
    <3>0. x.is # "header" /\ x.is # "frame"
      BY <2>3
    <3>1. Accept(c, x) = [c EXCEPT !.journal = ApplyLegacy(c.journal, x.event)]
      BY <3>0, Zenon DEF Accept
    <3>. QED
      BY <2>3, <3>1, Zenon
  <2>. QED
    BY <1>2, <2>1, <2>2, <2>3
<1>3. ASSUME Accepts(k, x) PROVE Alike(Accept(k, x), Accept(l, x))
  <2>. DEFINE a == Accept(k, x)
              b == Accept(l, x)
  <2>1. x.is \in {"header", "frame", "event", "legacy"}
    BY <1>3 DEF Accepts
  <2>2. A(k, a) /\ A(l, b)
    BY <1>2, <2>1
  <2>. HIDE DEF a, b
  <2>3. CASE x.is = "header"
    <3>1. a = [k EXCEPT !.upgraded = TRUE] /\ b = [l EXCEPT !.upgraded = TRUE]
      BY <2>2, <2>3
    <3>2. Alike(a, b)
      BY <3>1 DEF Alike, CacheSet
    <3>. QED
      BY <3>2 DEF a, b
  <2>4. ASSUME NEW j, a = [k EXCEPT !.journal = j], b = [l EXCEPT !.journal = j]
        PROVE  Alike(Accept(k, x), Accept(l, x))
    <3>1. Alike(a, b)
      BY <2>4 DEF Alike, CacheSet
    <3>. QED
      BY <3>1 DEF a, b
  <2>5. CASE x.is = "frame"
    <3>. DEFINE j == ApplyTransition(k.journal, x.batch, x.receipt)
    <3>1. a = [k EXCEPT !.journal = j] /\ b = [l EXCEPT !.journal = j]
      BY <2>2, <2>5 DEF Alike
    <3>. QED
      BY <2>4, <3>1
  <2>6. CASE x.is \in {"event", "legacy"}
    <3>. DEFINE j == ApplyLegacy(k.journal, x.event)
    <3>1. a = [k EXCEPT !.journal = j] /\ b = [l EXCEPT !.journal = j]
      BY <2>2, <2>6 DEF Alike
    <3>. QED
      BY <2>4, <3>1
  <2>. QED
    BY <2>1, <2>3, <2>5, <2>6
<1>. QED
  BY <1>1, <1>3

\* Two scans at the same place read a chunk alike.
LEMMA SameStep ==
    ASSUME NEW s \in ScanSet, GoodCache(s.k), NEW t \in ScanSet, GoodCache(t.k), Same(s, t),
           NEW x \in Chunk
    PROVE  Same(Step(s, x), Step(t, x))
<1>. DEFINE u == Step(s, x)
            w == Step(t, x)
<1>1. /\ s.k \in CacheSet /\ t.k \in CacheSet /\ s.bad \in BOOLEAN /\ t.bad \in BOOLEAN
      /\ s.line \in Seq(Chunk) /\ s.k.offset = t.k.offset /\ s.k.offset \in Nat
      /\ s.line = t.line /\ s.bad = t.bad /\ Alike(s.k, t.k)
  BY DEF ScanSet, CacheSet, Same, Alike
<1>2. Accepts(s.k, s.line[1]) <=> Accepts(t.k, t.line[1])
  BY <1>1, AlikeAccepts
<1>3. /\ Corrupt(s, u) \/ Reads(s, x, u) \/ Blank(s, x, u) \/ Ends(s, x, u) \/ Spoils(s, x, u)
      /\ Corrupt(t, w) \/ Reads(t, x, w) \/ Blank(t, x, w) \/ Ends(t, x, w) \/ Spoils(t, x, w)
      /\ u.bad \in BOOLEAN /\ w.bad \in BOOLEAN
  BY StepCases
<1>. HIDE DEF u, w
<1>4. CASE Corrupt(s, u)
  <2>1. Corrupt(t, w)
    BY <1>1, <1>3, <1>4 DEF Corrupt, Reads, Blank, Ends, Spoils
  <2>. QED
    BY <1>4, <2>1 DEF Corrupt, u, w
<1>5. CASE Reads(s, x, u)
  <2>1. Reads(t, x, w)
    BY <1>1, <1>3, <1>5 DEF Corrupt, Reads, Blank, Ends, Spoils
  <2>2. Same(u, w)
    BY <1>1, <1>3, <1>5, <2>1 DEF Reads, Same
  <2>. QED
    BY <2>2 DEF u, w
<1>6. CASE Blank(s, x, u)
  <2>1. Blank(t, x, w)
    <3>1. ~s.bad /\ x = Newline /\ s.line = << >>
      BY <1>6 DEF Blank
    <3>2. Len(t.line) # 1
      BY <1>1, <3>1
    <3>. QED
      BY <1>1, <1>3, <3>1, <3>2 DEF Corrupt, Reads, Ends, Spoils
  <2>2. /\ u.k = [s.k EXCEPT !.offset = s.k.offset + 1] /\ u.line = << >> /\ ~u.bad
        /\ w.k = [t.k EXCEPT !.offset = t.k.offset + 1] /\ w.line = << >> /\ ~w.bad
    BY <1>6, <2>1 DEF Blank
  <2>3. Alike(u.k, w.k)
    BY <1>1, <2>2 DEF Alike, CacheSet
  <2>4. Same(u, w)
    BY <1>3, <2>2, <2>3 DEF Same
  <2>. QED
    BY <2>4 DEF u, w
<1>7. CASE Ends(s, x, u)
  <2>. DEFINE a == Accept(s.k, s.line[1])
              b == Accept(t.k, t.line[1])
  <2>1. Ends(t, x, w)
    <3>1. ~s.bad /\ x = Newline /\ s.line # << >> /\ Len(s.line) = 1 /\ Accepts(s.k, s.line[1])
      BY <1>7 DEF Ends
    <3>. QED
      BY <1>1, <1>2, <1>3, <3>1 DEF Corrupt, Reads, Blank, Spoils
  <2>2. /\ u.k = [a EXCEPT !.offset = a.offset + 2] /\ u.line = << >> /\ ~u.bad
        /\ w.k = [b EXCEPT !.offset = b.offset + 2] /\ w.line = << >> /\ ~w.bad
        /\ Accepts(s.k, s.line[1]) /\ Accepts(t.k, t.line[1]) /\ Len(s.line) = 1
    BY <1>7, <2>1 DEF Ends
  <2>3. Alike(a, b)
    BY <1>1, <2>2, AlikeAccepts
  <2>4. s.line[1] \in Chunk /\ t.line[1] \in Chunk
    BY <1>1, <2>2, ElementOfSeq
  <2>5. a \in CacheSet /\ b \in CacheSet
    BY <2>2, <2>4, AcceptSpec DEF GoodCache
  <2>. HIDE DEF a, b
  <2>6. Alike(u.k, w.k)
    BY <2>2, <2>3, <2>5 DEF Alike, CacheSet
  <2>7. Same(u, w)
    BY <1>3, <2>2, <2>6 DEF Same
  <2>. QED
    BY <2>7 DEF u, w
<1>8. CASE Spoils(s, x, u)
  <2>1. Spoils(t, x, w)
    BY <1>1, <1>2, <1>3, <1>8 DEF Corrupt, Reads, Blank, Ends, Spoils
  <2>2. Same(u, w)
    BY <1>1, <1>3, <1>8, <2>1 DEF Spoils, Same
  <2>. QED
    BY <2>2 DEF u, w
<1>. QED
  BY <1>3, <1>4, <1>5, <1>6, <1>7, <1>8

\* Two scans at the same place end alike.
LEMMA SameEnding ==
    ASSUME NEW s \in ScanSet, GoodCache(s.k), NEW t \in ScanSet, GoodCache(t.k), Same(s, t)
    PROVE  Ending(s) = Ending(t) /\ Alike(Moved(s), Moved(t))
<1>1. /\ s.k \in CacheSet /\ t.k \in CacheSet /\ s.line = t.line /\ s.bad = t.bad
      /\ Alike(s.k, t.k) /\ s.k.journal = t.k.journal /\ s.k.upgraded = t.k.upgraded
  BY DEF ScanSet, Same, Alike
<1>2. Accepts(s.k, s.line[1]) <=> Accepts(t.k, t.line[1])
  BY <1>1, AlikeAccepts
<1>3. Ending(s) = Ending(t)
  <2>. DEFINE e == Ending(s)
              h == Ending(t)
  <2>1. /\ e \in {"corrupt", "clean", "torn", "unterminated"}
        /\ h \in {"corrupt", "clean", "torn", "unterminated"}
        /\ e = "clean" <=> h = "clean"
        /\ e = "torn" <=> h = "torn"
        /\ e = "unterminated" <=> h = "unterminated"
    BY <1>1, <1>2, EndingSpec
  <2>. HIDE DEF e, h
  <2>. QED
    BY <2>1 DEF e, h
<1>4. CASE Ending(s) = "unterminated"
  <2>. DEFINE a == Accept(s.k, s.line[1])
              b == Accept(t.k, t.line[1])
  <2>1. Accepts(s.k, s.line[1])
    BY <1>4, EndingSpec
  <2>2. Alike(a, b)
    BY <1>1, <2>1, AlikeAccepts
  <2>3. /\ Moved(s).journal = a.journal /\ Moved(s).upgraded = a.upgraded
        /\ Moved(s).offset = s.k.offset + 1
        /\ Moved(t).journal = b.journal /\ Moved(t).upgraded = b.upgraded
        /\ Moved(t).offset = t.k.offset + 1
    BY <1>3, <1>4, MovedSpec
  <2>. HIDE DEF a, b
  <2>. QED
    BY <1>1, <1>3, <2>2, <2>3 DEF Alike
<1>5. CASE Ending(s) # "unterminated"
  BY <1>1, <1>3, <1>5, MovedSpec
<1>. QED
  BY <1>4, <1>5

\* The cache is what a replay of the file up to its offset gives, and if the last line
\* lacked its newline then, it has it by now.
InPlace(k, f) ==
    LET s == Recovered(SubSeq(f, 1, k.offset))
    IN  /\ k.offset <= Len(f)
        /\ Ending(s) \in {"clean", "unterminated"}
        /\ Moved(s).journal = k.journal /\ Moved(s).upgraded = k.upgraded
        /\ Ending(s) = "unterminated" => k.offset < Len(f)

\* From a common place on, a scan agrees with the scan from the start.
LEMMA SameOnwards ==
    ASSUME NEW k, GoodCache(k), NEW f \in Seq(Chunk), NEW n \in Nat, k.offset <= n, n <= Len(f),
           Same(Scan(k, SubSeq(f, 1, n)), Recovered(SubSeq(f, 1, n)))
    PROVE  Same(Scan(k, f), Recovered(f))
<1>. DEFINE P(m) == Same(Scan(k, SubSeq(f, 1, m)), Recovered(SubSeq(f, 1, m)))
            S == { i \in Nat : n + i <= Len(f) => P(n + i) }
<1>0. Len(f) \in Nat /\ k.offset \in Nat
  BY LenProperties DEF GoodCache, CacheSet
<1>1. 0 \in S
  OBVIOUS
<1>2. ASSUME NEW i \in Nat, i \in S
      PROVE  i + 1 \in S
  <2>. SUFFICES ASSUME n + (i + 1) <= Len(f)
                PROVE  P(n + (i + 1))
    OBVIOUS
  <2>. DEFINE m == n + i
              g == SubSeq(f, 1, m)
              x == f[m + 1]
  <2>1. m \in Nat /\ m \in 0 .. Len(f) /\ m + 1 \in 1 .. Len(f) /\ n + (i + 1) = m + 1
        /\ k.offset <= m /\ m + 1 <= Len(f)
    BY <1>0
  <2>2. g \in Seq(Chunk) /\ Len(g) = m /\ x \in Chunk
    BY <1>0, <2>1, FrontSpec, ElementOfSeq
  <2>3. SubSeq(f, 1, m + 1) = Append(g, x)
    BY <2>1, Fronts
  <2>4. Same(Scan(k, g), Recovered(g))
    BY <1>2, <2>1
  <2>. HIDE DEF g, x, m
  <2>5. Scan(k, Append(g, x)) = Step(Scan(k, g), x) /\ Recovered(Append(g, x)) = Step(Recovered(g), x)
    BY <1>0, <2>1, <2>2, ScanAppend, RecoverAppend
  <2>6. /\ Scan(k, g) \in ScanSet /\ GoodCache(Scan(k, g).k)
        /\ Recovered(g) \in ScanSet /\ GoodCache(Recovered(g).k)
    BY <2>1, <2>2, ScanSound, RecoverSound DEF Sound
  <2>7. Same(Scan(k, Append(g, x)), Recovered(Append(g, x)))
    BY <2>2, <2>4, <2>5, <2>6, SameStep
  <2>. QED
    BY <2>1, <2>3, <2>7
<1>. HIDE DEF S
<1>3. Nat \subseteq S
  BY <1>1, <1>2, CountsUp
<1>4. Len(f) - n \in S /\ n + (Len(f) - n) = Len(f)
  BY <1>0, <1>3
<1>5. P(Len(f))
  BY <1>4 DEF S
<1>6. SubSeq(f, 1, Len(f)) = f
  BY Fronts
<1>. QED
  BY <1>5, <1>6

\* A cache in its place reads on as if it had read from the start.
LEMMA Resumes ==
    ASSUME NEW k, GoodCache(k), NEW f \in Seq(Chunk), Opens(f), InPlace(k, f)
    PROVE  /\ Same(Scan(k, f), Recovered(f))
           /\ Scan(k, f) \in ScanSet /\ GoodCache(Scan(k, f).k)
           /\ Ending(Scan(k, f)) = Ending(Recovered(f))
           /\ Alike(Moved(Scan(k, f)), View(f))
<1>. DEFINE o == k.offset
            g == SubSeq(f, 1, o)
            s == Recovered(g)
<1>0. /\ Len(f) \in Nat /\ o \in Nat /\ o <= Len(f) /\ o \in 0 .. Len(f) /\ k \in CacheSet
      /\ k.journal \in JournalState
  BY LenProperties DEF GoodCache, CacheSet, InPlace
<1>1. g \in Seq(Chunk) /\ Len(g) = o
  BY <1>0, FrontSpec
<1>2. Scan(k, g) = Begins(k) /\ Begins(k).k = k /\ Begins(k).line = << >> /\ Begins(k).bad = FALSE
  BY <1>0, <1>1, ScanNothing DEF Begins
<1>3. /\ s \in ScanSet /\ GoodCache(s.k) /\ Sound(EmptyCache, g, s) /\ s.k.offset \in Nat
      /\ s.bad \in BOOLEAN
  BY <1>1, RecoverSound DEF ScanSet, CacheSet
<1>4. /\ Ending(s) \in {"clean", "unterminated"}
      /\ Moved(s).journal = k.journal /\ Moved(s).upgraded = k.upgraded
      /\ Ending(s) = "unterminated" => o < Len(f)
  BY DEF InPlace
<1>5. Same(Scan(k, f), Recovered(f))
  <2>1. CASE Ending(s) = "clean"
    <3>1. s.line = << >> /\ ~s.bad /\ Moved(s) = s.k
      BY <1>3, <2>1, EndingSpec, MovedSpec
    <3>2. s.k.offset = o
      BY <1>1, <1>3, <3>1 DEF Sound
    <3>3. Same(Scan(k, g), s)
      BY <1>2, <1>3, <1>4, <3>1, <3>2 DEF Same, Alike
    <3>. QED
      BY <1>0, <3>3, SameOnwards
  <2>2. CASE Ending(s) = "unterminated"
    <3>. DEFINE h == SubSeq(f, 1, o + 1)
                t == Recovered(h)
                r == Scan(k, h)
    <3>1. o < Len(f)
      BY <1>4, <2>2
    <3>2. f[o + 1] = Newline /\ t = Step(s, Newline)
      BY <1>0, <2>2, <3>1, OpensFront
    <3>3. Newline \in Chunk /\ h = Append(g, Newline)
      BY <1>0, <3>1, <3>2, Fronts, ChunksWritten
    <3>4. /\ ~t.bad /\ t.line = << >> /\ t.k.journal = Moved(s).journal
          /\ t.k.upgraded = Moved(s).upgraded /\ t.k.offset = Moved(s).offset + 1
      BY <1>3, <2>2, <3>2, EndsLine
    <3>5. Moved(s).offset = o
      <4>1. Len(s.line) = 1 /\ ~s.bad /\ Moved(s).offset = s.k.offset + 1
        BY <1>3, <2>2, EndingSpec, MovedSpec
      <4>. QED
        BY <1>1, <1>3, <4>1 DEF Sound
    <3>6. r = Step(Begins(k), Newline)
      <4>1. k.offset \in Nat /\ k.offset <= Len(g)
        BY <1>0, <1>1
      <4>. QED
        BY <1>1, <1>2, <3>3, <4>1, ScanAppend
    <3>7. Begins(k) \in ScanSet
      BY <1>0, <1>2 DEF Begins, ScanSet
    <3>8. Blank(Begins(k), Newline, r)
      <4>1. Begins(k).line = << >> /\ ~Begins(k).bad /\ Len(Begins(k).line) # 1
        BY <1>2
      <4>. QED
        BY <3>6, <3>7, <4>1, StepCases DEF Corrupt, Reads, Ends, Spoils
    <3>9. r.k = [k EXCEPT !.offset = o + 1] /\ r.line = << >> /\ ~r.bad /\ r.bad \in BOOLEAN
      BY <1>2, <3>6, <3>7, <3>8, StepCases DEF Blank
    <3>10. t.bad \in BOOLEAN
      BY <1>3, <3>2, StepCases
    <3>. HIDE DEF r, t, h
    <3>11. Same(r, t)
      <4>1. r.k.journal = k.journal /\ r.k.upgraded = k.upgraded /\ r.k.offset = o + 1
        BY <1>0, <3>9 DEF CacheSet
      <4>. QED
        BY <1>4, <3>4, <3>5, <3>9, <3>10, <4>1 DEF Same, Alike
    <3>12. o + 1 \in Nat /\ k.offset <= o + 1 /\ o + 1 <= Len(f)
      BY <1>0, <3>1
    <3>. QED
      BY <1>0, <3>11, <3>12, SameOnwards DEF r, t, h
  <2>. QED
    BY <1>4, <2>1, <2>2
<1>6. /\ Scan(k, f) \in ScanSet /\ GoodCache(Scan(k, f).k)
      /\ Recovered(f) \in ScanSet /\ GoodCache(Recovered(f).k)
  BY <1>0, ScanSound, RecoverSound DEF Sound
<1>. QED
  BY <1>5, <1>6, SameEnding DEF View

------------------------------------------------------------------------------
(* The outcomes of load_delta                                                *)

\* The load got through: the cache is at the end of the mended file, and what it had not
\* seen before is behind a barrier.
IsDone(k, s, r) ==
    /\ r.ok /\ r.fault = "none" /\ Ending(s) # "corrupt"
    /\ r.file = Mended(s) /\ r.cache.offset = Len(r.file) /\ ~r.cache.uncertain
    /\ \/ r.disk = r.file
       \/ r.disk = disk /\ s.k.offset = k.offset /\ r.file = file /\ ~k.uncertain

IsCorrupt(s, r) ==
    /\ ~r.ok /\ r.fault = "none" /\ Ending(s) = "corrupt"
    /\ r.file = file /\ r.disk = disk /\ r.cache = s.k

\* The tail was not mended, or only on the way to the disk.
IsUnmended(s, r) ==
    /\ ~r.ok /\ Ending(s) \in {"torn", "unterminated"}
    /\ r.cache.offset = Moved(s).offset /\ r.cache.uncertain = Moved(s).uncertain
    /\ \/ r.fault \in {"mend", "newline"} /\ r.file = file /\ r.disk = disk
            /\ (r.fault = "mend" => Ending(s) = "torn")
       \/ r.fault = "mend" /\ r.file = Mended(s) /\ r.disk \in {disk, r.file}

\* The last barrier failed.
IsUnsynced(s, r) ==
    /\ ~r.ok /\ r.fault = "barrier" /\ Ending(s) # "corrupt"
    /\ r.file = Mended(s) /\ r.cache.offset = Len(r.file) /\ r.cache.uncertain
    /\ r.disk \in {disk, r.file}

Formed(r) ==
    r = [ok |-> r.ok, cache |-> r.cache, file |-> r.file, disk |-> r.disk, fault |-> r.fault]

Replayed(k, s, r) ==
    /\ GoodCache(r.cache) /\ r.ok \in BOOLEAN
    /\ Formed(r)
    /\ r.cache.journal = Moved(s).journal /\ r.cache.upgraded = Moved(s).upgraded
    /\ IsDone(k, s, r) \/ IsCorrupt(s, r) \/ IsUnmended(s, r) \/ IsUnsynced(s, r)

\* The flags and the offset of a cache do not make it better or worse.
LEMMA FlagsSpec ==
    ASSUME NEW k, GoodCache(k), NEW l \in CacheSet, l.journal = k.journal
    PROVE  GoodCache(l)
  BY DEF GoodCache

\* The file stays one.
LEMMA MendedSpec ==
    ASSUME NEW s \in ScanSet, GoodCache(s.k), file \in Seq(Chunk), s.k.offset <= Len(file)
    PROVE  /\ Mended(s) \in Seq(Chunk) /\ Len(Mended(s)) \in Nat
           /\ Ending(s) = "torn" => Mended(s) = SubSeq(file, 1, s.k.offset)
           /\ Ending(s) = "unterminated" => Mended(s) = Append(file, Newline)
           /\ Ending(s) \in {"corrupt", "clean"} => Mended(s) = file
<1>1. s.k.offset \in 0 .. Len(file) /\ Newline \in Chunk
  BY LenProperties, ChunksWritten DEF GoodCache, CacheSet
<1>2. Ending(s) = "torn" => Mended(s) = SubSeq(file, 1, s.k.offset)
  BY DEF Mended
<1>3. Ending(s) = "unterminated" => Mended(s) = Append(file, Newline)
  BY DEF Mended
<1>4. Ending(s) \in {"corrupt", "clean"} => Mended(s) = file
  BY DEF Mended
<1>5. SubSeq(file, 1, s.k.offset) \in Seq(Chunk) /\ Append(file, Newline) \in Seq(Chunk)
  BY <1>1, FrontSpec, AppendProperties
<1>6. Mended(s) \in Seq(Chunk)
  BY <1>2, <1>3, <1>4, <1>5, EndingSpec
<1>. QED
  BY <1>2, <1>3, <1>4, <1>6, LenProperties

\* What load_delta leaves when nothing fails.
LEMMA CompletesSpec ==
    ASSUME NEW k, NEW s \in ScanSet, GoodCache(s.k), file \in Seq(Chunk), s.k.offset <= Len(file),
           Ending(s) # "corrupt", NEW r, r = Completes(k, s)
    PROVE  Replayed(k, s, r)
<1>. DEFINE m == Moved(s)
            f == Mended(s)
            l == [m EXCEPT !.offset = Len(f), !.warm = TRUE, !.current = TRUE, !.uncertain = FALSE]
            d == IF s.k.offset = k.offset /\ f = file /\ ~k.uncertain THEN disk ELSE f
<1>1. r = [Loaded(l) EXCEPT !.file = f, !.disk = d]
  BY Zenon DEF Completes
<1>2. Len(f) \in Nat /\ GoodCache(m) /\ m \in CacheSet
  BY MendedSpec, MovedSpec DEF GoodCache
<1>. HIDE DEF m, f, d
<1>3. /\ l \in CacheSet /\ l.journal = m.journal /\ l.upgraded = m.upgraded
      /\ l.offset = Len(f) /\ l.uncertain = FALSE
  BY <1>2 DEF CacheSet
<1>4. GoodCache(l)
  BY <1>2, <1>3, FlagsSpec
<1>. HIDE DEF l
<1>5. /\ r.ok = TRUE /\ r.cache = l /\ r.file = f /\ r.disk = d /\ r.fault = "none"
      /\ Formed(r)
  BY <1>1 DEF Loaded, Formed
<1>6. d = f \/ (d = disk /\ s.k.offset = k.offset /\ f = file /\ ~k.uncertain)
  BY DEF d
<1>7. IsDone(k, s, r)
  BY <1>3, <1>5, <1>6 DEF IsDone, f
<1>. QED
  BY <1>3, <1>4, <1>5, <1>7 DEF Replayed, m

\* What load_delta leaves when the repair of a tail fails.
LEMMA RepairFailsSpec ==
    ASSUME NEW k, NEW s \in ScanSet, GoodCache(s.k), file \in Seq(Chunk), s.k.offset <= Len(file),
           Ending(s) \in {"torn", "unterminated"}, NEW r \in RepairFails(k, s)
    PROVE  Replayed(k, s, r)
<1>. DEFINE m == Moved(s)
            f == Mended(s)
            X == { <<IF Ending(s) = "torn" THEN "mend" ELSE "newline", file, disk>>,
                   <<"mend", f, disk>>, <<"mend", f, f>> }
<1>1. PICK x \in X :
        r = [ok |-> FALSE, file |-> x[2], disk |-> x[3], fault |-> x[1],
             cache |-> [m EXCEPT !.current = @ /\ x[2] = file]]
  BY Zenon DEF RepairFails
<1>2. GoodCache(m) /\ m \in CacheSet
  BY MovedSpec DEF GoodCache
<1>. DEFINE l == [m EXCEPT !.current = @ /\ x[2] = file]
<1>3. l = [m EXCEPT !.current = (m.current /\ x[2] = file)]
  BY Zenon
<1>. HIDE DEF m, f, l
<1>4. (m.current /\ x[2] = file) \in BOOLEAN
  OBVIOUS
<1>5. /\ l \in CacheSet /\ l.journal = m.journal /\ l.upgraded = m.upgraded
      /\ l.offset = m.offset /\ l.uncertain = m.uncertain
  BY <1>2, <1>3, <1>4 DEF CacheSet
<1>6. GoodCache(l)
  BY <1>2, <1>5, FlagsSpec
<1>7. /\ r.ok = FALSE /\ r.cache = l /\ r.file = x[2] /\ r.disk = x[3] /\ r.fault = x[1]
      /\ Formed(r)
  <2>1. r = [ok |-> FALSE, file |-> x[2], disk |-> x[3], fault |-> x[1], cache |-> l]
    BY <1>1, Zenon DEF l
  <2>. QED
    BY <2>1 DEF Formed
<1>8. \/ x[1] \in {"mend", "newline"} /\ x[2] = file /\ x[3] = disk
            /\ (x[1] = "mend" => Ending(s) = "torn")
      \/ x[1] = "mend" /\ x[2] = f /\ x[3] \in {disk, f}
  OBVIOUS
<1>9. IsUnmended(s, r)
  BY <1>5, <1>7, <1>8 DEF IsUnmended, m, f
<1>. QED
  BY <1>5, <1>6, <1>7, <1>9 DEF Replayed, m

\* What load_delta leaves when its last barrier fails.
LEMMA BarrierFailsSpec ==
    ASSUME NEW k, NEW s \in ScanSet, GoodCache(s.k), file \in Seq(Chunk), s.k.offset <= Len(file),
           Ending(s) # "corrupt", NEW r \in BarrierFails(k, s)
    PROVE  Replayed(k, s, r)
<1>. DEFINE m == Moved(s)
            f == Mended(s)
            D == {IF f = file THEN disk ELSE f, f}
<1>1. PICK d \in D :
        r = [ok |-> FALSE, file |-> f, disk |-> d, fault |-> "barrier",
             cache |-> [m EXCEPT !.offset = Len(f), !.uncertain = TRUE,
                                 !.current = @ /\ f = file]]
  BY Zenon DEF BarrierFails
<1>2. Len(f) \in Nat /\ GoodCache(m) /\ m \in CacheSet
  BY MendedSpec, MovedSpec DEF GoodCache
<1>. DEFINE l == [m EXCEPT !.offset = Len(f), !.uncertain = TRUE, !.current = @ /\ f = file]
<1>3. l = [m EXCEPT !.offset = Len(f), !.uncertain = TRUE, !.current = (m.current /\ f = file)]
  BY Zenon
<1>4. d = disk \/ d = f
  OBVIOUS
<1>. HIDE DEF m, f, l
<1>5. (m.current /\ f = file) \in BOOLEAN
  OBVIOUS
<1>6. /\ l \in CacheSet /\ l.journal = m.journal /\ l.upgraded = m.upgraded
      /\ l.offset = Len(f) /\ l.uncertain = TRUE
  BY <1>2, <1>3, <1>5 DEF CacheSet
<1>7. GoodCache(l)
  BY <1>2, <1>6, FlagsSpec
<1>8. /\ r.ok = FALSE /\ r.cache = l /\ r.file = f /\ r.disk = d /\ r.fault = "barrier"
      /\ Formed(r)
  <2>1. r = [ok |-> FALSE, file |-> f, disk |-> d, fault |-> "barrier", cache |-> l]
    BY <1>1, Zenon DEF l
  <2>. QED
    BY <2>1 DEF Formed
<1>9. IsUnsynced(s, r)
  BY <1>4, <1>6, <1>8 DEF IsUnsynced, f
<1>. QED
  BY <1>6, <1>7, <1>8, <1>9 DEF Replayed, m

\* Every outcome of a replay is one of the four.
LEMMA ReplaySpec ==
    ASSUME NEW k, GoodCache(k), file \in Seq(Chunk), k.offset <= Len(file),
           NEW r \in Replay(k), NEW s, s = Scan(k, file)
    PROVE  Replayed(k, s, r) /\ s \in ScanSet /\ GoodCache(s.k) /\ s.k.offset <= Len(file)
<1>1. s \in ScanSet /\ GoodCache(s.k) /\ s.k.offset <= Len(file)
  BY ScanSound DEF Sound
<1>. DEFINE B == IF Moved(s).offset = k.offset /\ ~k.uncertain THEN {} ELSE BarrierFails(k, s)
<1>2. CASE Ending(s) = "corrupt"
  <2>1. r = LoadFailed(s.k)
    BY <1>2, Zenon DEF Replay
  <2>2. /\ r.ok = FALSE /\ r.cache = s.k /\ r.file = file /\ r.disk = disk /\ r.fault = "none"
        /\ Formed(r)
    BY <2>1 DEF LoadFailed, Loaded, Formed
  <2>3. Moved(s) = s.k
    BY <1>1, <1>2, MovedSpec
  <2>4. Replayed(k, s, r)
    BY <1>1, <1>2, <2>2, <2>3 DEF Replayed, IsCorrupt
  <2>. QED
    BY <1>1, <2>4
<1>3. CASE Ending(s) = "clean"
  <2>1. r = Completes(k, s) \/ r \in BarrierFails(k, s)
    <3>1. CASE s.k.offset = k.offset /\ ~k.uncertain
      <4>1. r \in {Completes(k, s)}
        BY <1>3, <3>1, Zenon DEF Replay
      <4>. QED
        BY <4>1
    <3>2. CASE ~(s.k.offset = k.offset /\ ~k.uncertain)
      <4>1. r \in {Completes(k, s)} \cup BarrierFails(k, s)
        BY <1>3, <3>2 DEF Replay
      <4>. QED
        BY <4>1
    <3>. QED
      BY <3>1, <3>2
  <2>. QED
    BY <1>1, <1>3, <2>1, CompletesSpec, BarrierFailsSpec
<1>4. CASE Ending(s) \in {"torn", "unterminated"}
  <2>1. r \in {Completes(k, s)} \cup RepairFails(k, s) \cup B
    BY <1>4 DEF Replay
  <2>2. r = Completes(k, s) \/ r \in RepairFails(k, s) \/ r \in BarrierFails(k, s)
    BY <2>1
  <2>. QED
    BY <1>1, <1>4, <2>2, CompletesSpec, RepairFailsSpec, BarrierFailsSpec
<1>. QED
  BY <1>1, <1>2, <1>3, <1>4, EndingSpec

\* What a load may do: nothing; refuse; replay from where the cache is; or replay from
\* the start, and believe the cache only if that gives the same.
Refuses(k, r) == r.ok = FALSE /\ r.cache = k /\ r.file = file /\ r.disk = disk /\ r.fault = "none"
Absent(k, r) == ~present /\ r.ok = TRUE /\ r.cache = k /\ r.file = file /\ r.disk = disk
                         /\ r.fault = "none"
Catches(k, r) == present /\ r \in Replay(k) /\ k.offset <= Len(file)
Verifies(k, r) ==
    \E q \in Replay(EmptyCache) :
        /\ present /\ r.file = q.file /\ r.disk = q.disk /\ r.fault = q.fault
        /\ Len(file) = k.offset
        /\ \/ r.cache = q.cache /\ r.ok = TRUE /\ q.ok /\ q.cache.offset = k.offset
           \/ r.cache = k /\ r.ok = FALSE

\* Every outcome of opening the file and load_delta is one of the four.
LEMMA LoadsSpec ==
    ASSUME NEW k, GoodCache(k), file \in Seq(Chunk), NEW r \in Loads(k)
    PROVE  /\ Refuses(k, r) \/ Absent(k, r) \/ Catches(k, r) \/ Verifies(k, r)
           /\ Formed(r)
<1>0. Len(file) \in Nat /\ k.offset \in Nat
  BY LenProperties DEF GoodCache, CacheSet
<1>1. /\ \A x : x = LoadFailed(k) => Refuses(k, x) /\ Formed(x)
      /\ \A x : x = Loaded(k) /\ ~present => Absent(k, x) /\ Formed(x)
  BY DEF LoadFailed, Loaded, Refuses, Absent, Formed
<1>2. CASE ~present
  <2>1. r = LoadFailed(k) \/ r = Loaded(k)
    BY <1>2 DEF Loads
  <2>. QED
    BY <1>1, <1>2, <2>1
<1>3. CASE present /\ (Len(file) > MaxLog \/ Len(file) < k.offset)
  <2>1. r \in {LoadFailed(k)}
    BY <1>3, Zenon DEF Loads
  <2>. QED
    BY <1>1, <2>1
<1>4. CASE present /\ ~(Len(file) > MaxLog \/ Len(file) < k.offset) /\ Suspect(k)
  <2>1. r \in { Verified(k, q) : q \in Replay(EmptyCache) }
    BY <1>4, Zenon DEF Loads
  <2>2. PICK q \in Replay(EmptyCache) : r = Verified(k, q)
    BY <2>1
  <2>3. Len(file) = k.offset
    BY <1>4 DEF Suspect
  <2>4. Replayed(EmptyCache, Scan(EmptyCache, file), q)
    <3>1. EmptyCache.offset <= Len(file)
      BY <1>0, EmptyCacheGood
    <3>. QED
      BY <3>1, EmptyCacheGood, ReplaySpec
  <2>5. /\ q = [ok |-> q.ok, cache |-> q.cache, file |-> q.file, disk |-> q.disk, fault |-> q.fault]
        /\ q.ok \in BOOLEAN
    BY <2>4 DEF Replayed, Formed
  <2>6. CASE q.ok /\ r = q /\ q.cache.offset = k.offset
    BY <1>4, <2>3, <2>5, <2>6 DEF Verifies, Formed
  <2>7. CASE r = [q EXCEPT !.ok = FALSE, !.cache = k]
    <3>1. /\ r.ok = FALSE /\ r.cache = k /\ r.file = q.file /\ r.disk = q.disk
          /\ r.fault = q.fault /\ Formed(r)
      BY <2>5, <2>7 DEF Formed
    <3>. QED
      BY <1>4, <2>3, <3>1 DEF Verifies
  <2>. QED
    BY <2>2, <2>6, <2>7 DEF Verified
<1>5. CASE present /\ ~(Len(file) > MaxLog \/ Len(file) < k.offset) /\ ~Suspect(k)
  <2>1. r \in Replay(k)
    BY <1>5, Zenon DEF Loads
  <2>2. k.offset <= Len(file)
    BY <1>0, <1>5
  <2>3. Formed(r)
    BY <2>1, <2>2, ReplaySpec DEF Replayed
  <2>. QED
    BY <1>5, <2>1, <2>2, <2>3 DEF Catches
<1>. QED
  BY <1>2, <1>3, <1>4, <1>5

------------------------------------------------------------------------------
(* The shape of a state, whatever fails                                      *)

Asks == Operations \cup {[is |-> "none"]}
Replies == [is: {"none", "refused", "unknown", "health"}]
           \cup [is: {"receipt"}, receipt: Receipt] \cup [is: {"stored"}, event: Events]
           \cup [is: {"page"}, cursor: Nat, events: Seq(Event)]
Places == {"idle", "queued", "started", "load", "run", "write", "answer"}

\* The file has room for the newline its last line may lack.
Fits(f) ==
    /\ f \in Seq(Chunk) /\ Len(f) <= MaxLog
    /\ f # << >> /\ f[Len(f)] # Newline => Len(f) < MaxLog

FilesOK == Fits(file) /\ Fits(disk) /\ present \in BOOLEAN /\ (~present => file = << >>)
CachesOK == cache \in [Handles -> CacheSet] /\ \A h \in Handles : GoodCache(cache[h])
ClientsOK ==
    /\ pc \in [Clients -> Places] /\ op \in [Clients -> Asks] /\ reply \in [Clients -> Replies]
    /\ \A c \in Clients : pc[c] # "idle" => op[c] \in Operations
LocksOK ==
    /\ lock \in Clients \cup {NoClient}
    /\ \A c \in Clients : pc[c] \in {"load", "run", "write"} => lock = c
ToldOK ==
    /\ acked \subseteq Receipt /\ stored \subseteq Events
    /\ cursor \in [Clients -> Nat] /\ seen \in [Clients -> Seq(Event)]
LivesOK ==
    /\ life \in [Handles -> {"down", "open", "closing", "closed"}]
    /\ sealed \in [Handles -> BOOLEAN]

\* What the write of client c is about to append fits, the index and the file.
Planned(c) ==
    /\ Room(Mine(c))
    /\ \/ op[c].is = "commit" /\ Appends(Mine(c).journal, op[c].batch)
       \/ op[c].is \in {"append", "idempotent"}
            /\ AppendsLegacy(Mine(c).journal, op[c].event, AnyVersion)

ReadyOK ==
    \A c \in Clients :
        /\ pc[c] \in {"run", "write"} => Len(file) <= Mine(c).offset
        /\ pc[c] = "write" => Planned(c)

Shape == FilesOK /\ CachesOK /\ ClientsOK /\ LocksOK /\ ToldOK /\ LivesOK /\ ReadyOK

\* What the operations carry.
LEMMA OperationSpec ==
    ASSUME NEW o \in Operations
    PROVE  /\ o.is = "commit" => o.batch \in Batches /\ o.batch \in Batch
           /\ o.is \in {"append", "idempotent"} => o.event \in Events /\ o.event \in Event
           /\ o.is = "command" => o.command \in Commands
           /\ o.is \in {"commit", "command", "append", "idempotent", "page", "flush", "close"}
           /\ o \in Asks
  BY JsonlInputs DEF Operations, Asks

\* The answers the operations give are answers.
LEMMA RepliesSpec ==
    /\ Refused \in Replies /\ Unknown \in Replies /\ Health \in Replies
    /\ [is |-> "none"] \in Replies /\ [is |-> "none"] \in Asks
    /\ \A r \in Receipt : Found(r) \in Replies
    /\ \A e \in Events : Stored(e) \in Replies
    /\ \A n \in Nat, es \in Seq(Event) : [is |-> "page", cursor |-> n, events |-> es] \in Replies
  BY DEF Replies, Asks, Refused, Unknown, Health, Found, Stored

\* The front of a file fits where the file does, and so does a torn line after it.
LEMMA FitsFront ==
    ASSUME NEW f, Fits(f), NEW n \in 0 .. Len(f)
    PROVE  /\ Fits(SubSeq(f, 1, n))
           /\ n < Len(f) /\ f[n + 1] # Newline => Fits(Append(SubSeq(f, 1, n), Torn))
<1>. DEFINE g == SubSeq(f, 1, n)
            h == Append(g, Torn)
<1>1. f \in Seq(Chunk) /\ Len(f) \in Nat /\ n \in Nat /\ MaxLog \in Nat /\ Torn \in Chunk
      /\ Len(f) <= MaxLog
  BY LenProperties, JsonlAssumption, ChunksWritten DEF Fits
<1>2. g \in Seq(Chunk) /\ Len(g) = n /\ \A i \in 1 .. n : g[i] = f[i]
  BY <1>1, FrontSpec
<1>3. CASE n = Len(f)
  <2>1. g = f /\ ~(n < Len(f))
    BY <1>1, <1>3, Fronts
  <2>. QED
    BY <2>1, Zenon
<1>4. CASE n < Len(f)
  <2>1. n < MaxLog
    BY <1>1, <1>4
  <2>2. Fits(g)
    BY <1>1, <1>2, <2>1 DEF Fits
  <2>3. h \in Seq(Chunk) /\ Len(h) = n + 1
    BY <1>1, <1>2, AppendProperties
  <2>4. ASSUME f[n + 1] # Newline
        PROVE  n + 1 < MaxLog
    <3>1. n + 1 = Len(f) \/ n + 1 < Len(f)
      BY <1>1, <1>4
    <3>2. CASE n + 1 = Len(f)
      <4>1. f # << >> /\ f[Len(f)] # Newline
        BY <1>1, <2>4, <3>2
      <4>2. Len(f) < MaxLog
        BY <4>1 DEF Fits
      <4>. QED
        BY <3>2, <4>2
    <3>3. CASE n + 1 < Len(f)
      BY <1>1, <3>3
    <3>. QED
      BY <3>1, <3>2, <3>3
  <2>5. f[n + 1] # Newline => Fits(h)
    <3>. SUFFICES ASSUME f[n + 1] # Newline PROVE Fits(h)
      OBVIOUS
    <3>1. n + 1 < MaxLog
      BY <2>4
    <3>2. Len(h) < MaxLog /\ Len(h) <= MaxLog
      BY <1>1, <2>3, <3>1
    <3>. QED
      BY <2>3, <3>2 DEF Fits
  <2>. QED
    BY <2>2, <2>5
<1>. QED
  BY <1>1, <1>3, <1>4

\* A line and its newline fit where check_disk_capacity finds room for both.
LEMMA FitsMore ==
    ASSUME NEW f, Fits(f), Len(f) + 2 <= MaxLog, NEW x \in Chunk
    PROVE  /\ f \o << >> = f
           /\ Fits(f \o <<x>>) /\ f \o <<x>> = Append(f, x)
           /\ Fits(f \o <<x, Newline>>)
           /\ f \o <<x, Newline>> = Append(Append(f, x), Newline)
           /\ Len(f \o <<x, Newline>>) = Len(f) + 2 /\ Len(f \o <<x>>) = Len(f) + 1
<1>1. f \in Seq(Chunk) /\ Len(f) \in Nat /\ MaxLog \in Nat /\ Newline \in Chunk
  BY LenProperties, JsonlAssumption, ChunksWritten DEF Fits
<1>2. f \o << >> = f
  BY <1>1
<1>3. f \o <<x>> = Append(f, x) /\ f \o <<x, Newline>> = Append(Append(f, x), Newline)
  BY <1>1
<1>4. Append(f, x) \in Seq(Chunk) /\ Len(Append(f, x)) = Len(f) + 1
  BY <1>1, AppendProperties
<1>5. /\ Append(Append(f, x), Newline) \in Seq(Chunk)
      /\ Len(Append(Append(f, x), Newline)) = Len(f) + 2
      /\ Append(Append(f, x), Newline)[Len(f) + 2] = Newline
  BY <1>1, <1>4, AppendProperties
<1>6. Len(f) + 1 < MaxLog /\ Len(f) + 1 <= MaxLog
  BY <1>1
<1>7. Fits(Append(f, x))
  BY <1>4, <1>6 DEF Fits
<1>8. Fits(Append(Append(f, x), Newline))
  BY <1>5 DEF Fits
<1>. QED
  BY <1>2, <1>3, <1>4, <1>5, <1>7, <1>8

\* A mended file fits.
LEMMA FitsMended ==
    ASSUME NEW k, GoodCache(k), Fits(file), k.offset <= Len(file), NEW s, s = Scan(k, file)
    PROVE  Fits(Mended(s))
<1>1. file \in Seq(Chunk) /\ Len(file) \in Nat /\ MaxLog \in Nat /\ Newline \in Chunk
  BY LenProperties, JsonlAssumption, ChunksWritten DEF Fits
<1>2. Sound(k, file, s) /\ s \in ScanSet /\ GoodCache(s.k) /\ s.k.offset \in 0 .. Len(file)
  BY <1>1, ScanSound DEF Sound, GoodCache, CacheSet
<1>3. CASE Ending(s) = "torn"
  <2>1. Mended(s) = SubSeq(file, 1, s.k.offset)
    BY <1>1, <1>2, <1>3, MendedSpec
  <2>2. Fits(SubSeq(file, 1, s.k.offset))
    BY <1>2, FitsFront
  <2>. QED
    BY <2>1, <2>2
<1>4. CASE Ending(s) = "unterminated"
  <2>1. ~s.bad /\ s.line # << >> /\ Len(s.line) = 1
    BY <1>2, <1>4, EndingSpec
  <2>2. file[Len(file)] # Newline /\ s.k.offset + 1 = Len(file)
    BY <1>2, <2>1 DEF Sound
  <2>3. Len(file) < MaxLog
    <3>1. file # << >>
      BY <1>1, <1>2, <2>2
    <3>. QED
      BY <2>2, <3>1 DEF Fits
  <2>4. Mended(s) = Append(file, Newline)
    BY <1>1, <1>2, <1>4, MendedSpec
  <2>5. /\ Mended(s) \in Seq(Chunk) /\ Len(Mended(s)) = Len(file) + 1
        /\ Mended(s)[Len(file) + 1] = Newline
    BY <1>1, <2>4, AppendProperties
  <2>. QED
    BY <1>1, <2>3, <2>5 DEF Fits
<1>5. CASE Ending(s) \in {"corrupt", "clean"}
  BY <1>1, <1>2, <1>5, MendedSpec
<1>. QED
  BY <1>2, <1>3, <1>4, <1>5, EndingSpec

\* What a load leaves fits, and a load that succeeds is at the end of the file.
LEMMA ReplayFits ==
    ASSUME NEW k, GoodCache(k), Fits(file), Fits(disk), k.offset <= Len(file), NEW r \in Replay(k)
    PROVE  /\ GoodCache(r.cache) /\ r.ok \in BOOLEAN /\ Fits(r.file) /\ Fits(r.disk)
           /\ r.ok => Len(r.file) = r.cache.offset
<1>. DEFINE s == Scan(k, file)
<1>1. file \in Seq(Chunk)
  BY DEF Fits
<1>2. Replayed(k, s, r) /\ Fits(Mended(s))
  BY <1>1, ReplaySpec, FitsMended
<1>. HIDE DEF s
<1>. DEFINE P == /\ r.file \in {file, Mended(s)} /\ r.disk \in {disk, r.file}
                 /\ r.ok => Len(r.file) = r.cache.offset
<1>3. P
  <2>1. ASSUME IsDone(k, s, r) PROVE P
    BY <2>1 DEF IsDone
  <2>2. ASSUME IsCorrupt(s, r) PROVE P
    BY <2>2 DEF IsCorrupt
  <2>3. ASSUME IsUnmended(s, r) PROVE P
    <3>1. r.ok = FALSE \/ ~r.ok
      BY <2>3 DEF IsUnmended
    <3>2. \/ r.file = file /\ r.disk = disk
          \/ r.file = Mended(s) /\ r.disk \in {disk, r.file}
      BY <2>3 DEF IsUnmended
    <3>. QED
      BY <3>1, <3>2
  <2>4. ASSUME IsUnsynced(s, r) PROVE P
    BY <2>4 DEF IsUnsynced
  <2>. QED
    BY <1>2, <2>1, <2>2, <2>3, <2>4, Zenon DEF Replayed
<1>4. GoodCache(r.cache) /\ r.ok \in BOOLEAN
  BY <1>2 DEF Replayed
<1>. QED
  BY <1>2, <1>3, <1>4

\* Whatever load_delta does, the file still fits and the cache is a good one.
LEMMA LoadsFit ==
    ASSUME FilesOK, NEW k, GoodCache(k), NEW r \in Loads(k)
    PROVE  /\ GoodCache(r.cache) /\ r.ok \in BOOLEAN /\ Fits(r.file) /\ Fits(r.disk)
           /\ ~present => r.file = << >>
           /\ r.ok => Len(r.file) <= r.cache.offset
           /\ Formed(r)
<1>1. Fits(file) /\ Fits(disk) /\ present \in BOOLEAN /\ (~present => file = << >>)
      /\ file \in Seq(Chunk) /\ Len(file) \in Nat
  BY LenProperties DEF FilesOK, Fits
<1>2. k.offset \in Nat
  BY DEF GoodCache, CacheSet
<1>. DEFINE P == /\ GoodCache(r.cache) /\ r.ok \in BOOLEAN /\ Fits(r.file) /\ Fits(r.disk)
                 /\ ~present => r.file = << >>
                 /\ r.ok => Len(r.file) <= r.cache.offset
<1>3. ASSUME Refuses(k, r) PROVE P
  BY <1>1, <1>3 DEF Refuses
<1>4. ASSUME Absent(k, r) PROVE P
  <2>1. Len(file) = 0
    BY <1>1, <1>4 DEF Absent
  <2>2. r.ok = TRUE /\ r.cache = k /\ r.file = file /\ r.disk = disk /\ file = << >>
    BY <1>1, <1>4 DEF Absent
  <2>3. Len(r.file) <= r.cache.offset
    BY <1>2, <2>1, <2>2
  <2>. QED
    BY <1>1, <2>2, <2>3
<1>5. ASSUME Catches(k, r) PROVE P
  <2>1. r \in Replay(k) /\ k.offset <= Len(file) /\ present
    BY <1>5 DEF Catches
  <2>2. /\ GoodCache(r.cache) /\ r.ok \in BOOLEAN /\ Fits(r.file) /\ Fits(r.disk)
        /\ r.ok => Len(r.file) = r.cache.offset
    BY <1>1, <2>1, ReplayFits
  <2>3. Len(r.file) \in Nat
    BY <2>2, LenProperties DEF Fits
  <2>. QED
    BY <2>1, <2>2, <2>3
<1>6. ASSUME Verifies(k, r) PROVE P
  <2>1. PICK q \in Replay(EmptyCache) :
          /\ present /\ r.file = q.file /\ r.disk = q.disk /\ r.fault = q.fault
          /\ Len(file) = k.offset
          /\ \/ r.cache = q.cache /\ r.ok = TRUE /\ q.ok /\ q.cache.offset = k.offset
             \/ r.cache = k /\ r.ok = FALSE
    BY <1>6 DEF Verifies
  <2>2. EmptyCache.offset <= Len(file)
    BY <1>1, EmptyCacheGood
  <2>3. /\ GoodCache(q.cache) /\ q.ok \in BOOLEAN /\ Fits(q.file) /\ Fits(q.disk)
        /\ q.ok => Len(q.file) = q.cache.offset
    BY <1>1, <2>2, EmptyCacheGood, ReplayFits
  <2>4. Len(q.file) \in Nat
    BY <2>3, LenProperties DEF Fits
  <2>5. r.ok => Len(r.file) <= r.cache.offset
    <3>. SUFFICES ASSUME r.ok
                  PROVE  Len(r.file) <= r.cache.offset
      OBVIOUS
    <3>1. Len(q.file) = q.cache.offset /\ r.cache = q.cache
      BY <2>1, <2>3
    <3>2. \A n \in Nat : n <= n
      OBVIOUS
    <3>. QED
      BY <2>1, <2>4, <3>1, <3>2, Zenon
  <2>6. GoodCache(r.cache) /\ r.ok \in BOOLEAN
    BY <2>1, <2>3
  <2>7. Fits(r.file) /\ Fits(r.disk) /\ (~present => r.file = << >>)
    BY <2>1, <2>3, Zenon
  <2>. QED
    BY <2>5, <2>6, <2>7
<1>. QED
  BY <1>1, <1>3, <1>4, <1>5, <1>6, LoadsSpec, Zenon

\* SetFile changes one cache, and the flag `current` of the others.
LEMMA SetFileSpec ==
    ASSUME CachesOK, NEW h \in Handles, NEW k, GoodCache(k), NEW f, SetFile(h, k, f)
    PROVE  /\ CachesOK' /\ cache'[h] = k /\ file' = f
           /\ \A g \in Handles : g # h =>
                /\ Alike(cache'[g], cache[g]) /\ cache'[g].warm = cache[g].warm
                /\ cache'[g].uncertain = cache[g].uncertain
<1>1. cache \in [Handles -> CacheSet] /\ \A g \in Handles : cache[g] \in CacheSet /\ GoodCache(cache[g])
  BY DEF CachesOK
<1>2. k \in CacheSet
  BY DEF GoodCache
<1>3. cache' = [g \in Handles |-> cache'[g]]
  BY DEF SetFile
<1>4. ASSUME NEW g \in Handles, g # h
      PROVE  /\ cache'[g] \in CacheSet /\ GoodCache(cache'[g])
             /\ Alike(cache'[g], cache[g]) /\ cache'[g].warm = cache[g].warm
             /\ cache'[g].uncertain = cache[g].uncertain
  <2>1. cache'[g] = cache[g] \/ cache'[g] = [cache[g] EXCEPT !.current = FALSE]
    BY <1>4 DEF SetFile
  <2>2. /\ cache'[g] \in CacheSet /\ cache'[g].journal = cache[g].journal
        /\ Alike(cache'[g], cache[g]) /\ cache'[g].warm = cache[g].warm
        /\ cache'[g].uncertain = cache[g].uncertain
    BY <1>1, <2>1 DEF CacheSet, Alike
  <2>3. GoodCache(cache'[g])
    BY <1>1, <2>2, FlagsSpec
  <2>. QED
    BY <2>2, <2>3
<1>5. cache'[h] = k /\ file' = f
  BY DEF SetFile
<1>6. CachesOK'
  BY <1>2, <1>3, <1>4, <1>5 DEF CachesOK
<1>. QED
  BY <1>4, <1>5, <1>6

\* Nobody but the holder of the lock is past it.
LEMMA Alone ==
    ASSUME LocksOK, NEW c \in Clients, lock = c \/ lock = NoClient, NEW d \in Clients, d # c
    PROVE  pc[d] \notin {"load", "run", "write"}
  BY JsonlAssumption DEF LocksOK

\* The end of an operation releases the lock and disturbs no other client.
LEMMA FinishSpec ==
    ASSUME ClientsOK, LocksOK, NEW c \in Clients, lock = c, pc[c] # "idle", NEW a \in Replies,
           Finish(c, a)
    PROVE  /\ ClientsOK' /\ LocksOK' /\ lock' = NoClient
           /\ pc'[c] \in {"idle", "answer"} /\ reply'[c] \in {a, [is |-> "none"]}
           /\ pc'[c] = "answer" => op'[c] = op[c] /\ reply'[c] = a
           /\ \A d \in Clients : d # c => pc'[d] = pc[d] /\ op'[d] = op[d] /\ reply'[d] = reply[d]
           /\ \A d \in Clients : pc'[d] \notin {"load", "run", "write"}
<1>1. /\ pc \in [Clients -> Places] /\ op \in [Clients -> Asks] /\ reply \in [Clients -> Replies]
      /\ \A d \in Clients : pc[d] # "idle" => op[d] \in Operations
  BY DEF ClientsOK
<1>2. \A d \in Clients : d # c => pc[d] \notin {"load", "run", "write"}
  BY Alone
<1>3. [is |-> "none"] \in Replies /\ [is |-> "none"] \in Asks
  BY RepliesSpec
<1>4. lock' = NoClient /\
      \/ /\ pc' = [pc EXCEPT ![c] = "idle"] /\ op' = [op EXCEPT ![c] = [is |-> "none"]]
         /\ reply' = [reply EXCEPT ![c] = [is |-> "none"]]
      \/ pc' = [pc EXCEPT ![c] = "answer"] /\ op' = op /\ reply' = [reply EXCEPT ![c] = a]
  BY DEF Finish, Idle
<1>5. /\ pc' \in [Clients -> Places] /\ op' \in [Clients -> Asks] /\ reply' \in [Clients -> Replies]
      /\ \A d \in Clients : d # c => pc'[d] = pc[d] /\ op'[d] = op[d] /\ reply'[d] = reply[d]
      /\ pc'[c] \in {"idle", "answer"} /\ reply'[c] \in {a, [is |-> "none"]}
      /\ pc'[c] = "answer" => op'[c] = op[c] /\ reply'[c] = a
  BY <1>1, <1>3, <1>4 DEF Places
<1>6. \A d \in Clients : pc'[d] # "idle" => op'[d] \in Operations
  BY <1>1, <1>5
<1>7. \A d \in Clients : pc'[d] \notin {"load", "run", "write"}
  BY <1>2, <1>5
<1>. QED
  BY <1>4, <1>5, <1>6, <1>7 DEF ClientsOK, LocksOK

------------------------------------------------------------------------------
(* Every step keeps the shape                                                *)

\* Nobody is past the lock: nothing is promised.
LEMMA NobodyReady ==
    ASSUME \A d \in Clients : pc'[d] \notin {"load", "run", "write"}
    PROVE  ReadyOK'
  BY DEF ReadyOK

\* The store starts in shape.
LEMMA ShapeInit == Init => Shape
<1>. SUFFICES ASSUME Init PROVE Shape
  OBVIOUS
<1>1. Fits(file) /\ disk = file /\ present \in BOOLEAN /\ (~present => file = << >>)
  <2>1. file \in InitialFiles /\ disk = file /\ present = (file # << >>)
    BY DEF Init
  <2>. QED
    BY <2>1, JsonlInputs DEF Fits
<1>2. FilesOK
  BY <1>1 DEF FilesOK
<1>3. CachesOK
  <2>1. cache = [h \in Handles |-> EmptyCache]
    BY DEF Init
  <2>2. GoodCache(EmptyCache) /\ EmptyCache \in CacheSet
    BY EmptyCacheGood DEF GoodCache
  <2>. HIDE DEF Init
  <2>. QED
    BY <2>1, <2>2 DEF CachesOK
<1>4. ClientsOK
  <2>1. /\ pc = [c \in Clients |-> "idle"] /\ op = [c \in Clients |-> [is |-> "none"]]
        /\ reply = [c \in Clients |-> [is |-> "none"]]
    BY DEF Init
  <2>. HIDE DEF Init
  <2>. QED
    BY <2>1, RepliesSpec DEF ClientsOK, Places
<1>5. LocksOK /\ ReadyOK
  BY DEF Init, LocksOK, ReadyOK
<1>6. ToldOK
  BY DEF Init, ToldOK
<1>7. LivesOK
  BY DEF Init, LivesOK
<1>. QED
  BY <1>2, <1>3, <1>4, <1>5, <1>6, <1>7 DEF Shape

\* open_with_recovery keeps the shape.
LEMMA OpenShape ==
    ASSUME Shape, NEW h \in Handles, Open(h)
    PROVE  Shape'
<1>0. FilesOK /\ CachesOK /\ ClientsOK /\ LocksOK /\ ToldOK /\ LivesOK
  BY DEF Shape
<1>1. lock = NoClient /\ lock' = lock /\ pc' = pc /\ op' = op /\ reply' = reply /\ present' = present
      /\ acked' = acked /\ stored' = stored /\ cursor' = cursor /\ seen' = seen
  BY DEF Open
<1>2. PICK r \in Loads(EmptyCache) :
        /\ TakeLoad(h, IF r.ok THEN r ELSE [r EXCEPT !.cache = EmptyCache])
        /\ life' = [life EXCEPT ![h] = IF r.ok THEN "open" ELSE "down"]
  BY Zenon DEF Open
<1>. DEFINE q == IF r.ok THEN r ELSE [r EXCEPT !.cache = EmptyCache]
<1>3. /\ GoodCache(r.cache) /\ r.ok \in BOOLEAN /\ Fits(r.file) /\ Fits(r.disk)
      /\ ~present => r.file = << >>
      /\ Formed(r)
  BY <1>0, EmptyCacheGood, LoadsFit
<1>4. GoodCache(q.cache) /\ q.file = r.file /\ q.disk = r.disk
  BY <1>3, EmptyCacheGood DEF Formed
<1>. HIDE DEF q
<1>5. SetFile(h, q.cache, r.file) /\ disk' = r.disk
  BY <1>2, <1>4 DEF TakeLoad, q
<1>6. CachesOK' /\ file' = r.file
  BY <1>0, <1>4, <1>5, SetFileSpec
<1>7. FilesOK'
  BY <1>0, <1>1, <1>3, <1>5, <1>6 DEF FilesOK
<1>8. ClientsOK' /\ LocksOK' /\ ToldOK'
  BY <1>0, <1>1 DEF ClientsOK, LocksOK, ToldOK
<1>9. LivesOK'
  <2>1. sealed' = [sealed EXCEPT ![h] = FALSE]
    BY DEF Open
  <2>. QED
    BY <1>0, <1>2, <2>1 DEF LivesOK
<1>10. ReadyOK'
  <2>1. \A d \in Clients : pc'[d] \notin {"load", "run", "write"}
    BY <1>0, <1>1, JsonlAssumption DEF LocksOK
  <2>. QED
    BY <2>1, NobodyReady
<1>. QED
  BY <1>6, <1>7, <1>8, <1>9, <1>10 DEF Shape

\* Handles hs are gone, with their callers.
LEMMA ForgetSpec ==
    ASSUME ClientsOK, LocksOK, LivesOK, NEW hs, Forget(hs)
    PROVE  /\ ClientsOK' /\ LocksOK' /\ life' \in [Handles -> {"down", "open", "closing", "closed"}]
           /\ \A d \in Clients :
                \/ HandleOf[d] \in hs /\ pc'[d] = "idle" /\ reply'[d] = [is |-> "none"]
                \/ HandleOf[d] \notin hs /\ pc'[d] = pc[d] /\ op'[d] = op[d] /\ reply'[d] = reply[d]
<1>. DEFINE gone == { c \in Clients : HandleOf[c] \in hs }
<1>1. /\ life' = [h \in Handles |-> IF h \in hs THEN "down" ELSE life[h]]
      /\ pc' = [c \in Clients |-> IF c \in gone THEN "idle" ELSE pc[c]]
      /\ op' = [c \in Clients |-> IF c \in gone THEN [is |-> "none"] ELSE op[c]]
      /\ reply' = [c \in Clients |-> IF c \in gone THEN [is |-> "none"] ELSE reply[c]]
      /\ lock' = IF lock \in gone THEN NoClient ELSE lock
  BY Zenon DEF Forget
<1>2. /\ pc \in [Clients -> Places] /\ op \in [Clients -> Asks] /\ reply \in [Clients -> Replies]
      /\ \A c \in Clients : pc[c] # "idle" => op[c] \in Operations
      /\ [is |-> "none"] \in Replies /\ [is |-> "none"] \in Asks
  BY RepliesSpec DEF ClientsOK
<1>3. \A d \in Clients :
        \/ d \in gone /\ pc'[d] = "idle" /\ op'[d] = [is |-> "none"] /\ reply'[d] = [is |-> "none"]
        \/ d \notin gone /\ pc'[d] = pc[d] /\ op'[d] = op[d] /\ reply'[d] = reply[d]
  BY <1>1
<1>4. pc' \in [Clients -> Places] /\ op' \in [Clients -> Asks] /\ reply' \in [Clients -> Replies]
  BY <1>1, <1>2 DEF Places
<1>5. \A c \in Clients : pc'[c] # "idle" => op'[c] \in Operations
  BY <1>2, <1>3
<1>6. LocksOK'
  <2>1. lock' \in Clients \cup {NoClient}
    BY <1>1 DEF LocksOK
  <2>2. ASSUME NEW c \in Clients, pc'[c] \in {"load", "run", "write"}
        PROVE  lock' = c
    <3>1. c \notin gone /\ pc'[c] = pc[c]
      BY <1>3, <2>2
    <3>2. lock = c
      BY <2>2, <3>1 DEF LocksOK
    <3>. QED
      BY <1>1, <3>1, <3>2
  <2>. QED
    BY <2>1, <2>2 DEF LocksOK
<1>7. life' \in [Handles -> {"down", "open", "closing", "closed"}]
  BY <1>1 DEF LivesOK
<1>. QED
  BY <1>3, <1>4, <1>5, <1>6, <1>7 DEF ClientsOK

\* The death of a process keeps the shape.
LEMMA CrashShape ==
    ASSUME Shape, NEW h \in Handles, Crash(h)
    PROVE  Shape'
<1>0. /\ FilesOK /\ CachesOK /\ ClientsOK /\ LocksOK /\ ToldOK /\ LivesOK /\ ReadyOK
      /\ HandleOf \in [Clients -> Handles]
  BY JsonlAssumption DEF Shape
<1>1. /\ Forget({h}) /\ cache' = [cache EXCEPT ![h] = EmptyCache]
      /\ file' = file /\ present' = present /\ disk' = disk /\ sealed' = sealed
      /\ acked' = acked /\ stored' = stored /\ cursor' = cursor /\ seen' = seen
  BY DEF Crash, told
<1>2. /\ ClientsOK' /\ LocksOK' /\ life' \in [Handles -> {"down", "open", "closing", "closed"}]
      /\ \A d \in Clients :
            \/ HandleOf[d] = h /\ pc'[d] = "idle"
            \/ HandleOf[d] # h /\ pc'[d] = pc[d] /\ op'[d] = op[d]
  BY <1>0, <1>1, ForgetSpec
<1>3. CachesOK'
  BY <1>0, <1>1, EmptyCacheGood DEF CachesOK, GoodCache
<1>4. FilesOK' /\ ToldOK' /\ LivesOK'
  BY <1>0, <1>1, <1>2 DEF FilesOK, ToldOK, LivesOK
<1>5. ReadyOK'
  <2>. SUFFICES ASSUME NEW d \in Clients, pc'[d] \in {"run", "write"}
                PROVE  /\ Len(file') <= Mine(d)'.offset
                       /\ pc'[d] = "write" => Planned(d)'
    BY DEF ReadyOK
  <2>1. HandleOf[d] # h /\ pc'[d] = pc[d] /\ op'[d] = op[d]
    BY <1>2
  <2>2. Mine(d)' = Mine(d)
    BY <1>0, <1>1, <2>1 DEF Mine, CachesOK
  <2>3. Len(file) <= Mine(d).offset /\ (pc[d] = "write" => Planned(d))
    BY <1>0, <2>1 DEF ReadyOK
  <2>4. Planned(d) => Planned(d)'
    BY <2>1, <2>2 DEF Planned, Room
  <2>. QED
    BY <1>1, <2>1, <2>2, <2>3, <2>4
<1>. QED
  BY <1>2, <1>3, <1>4, <1>5 DEF Shape

\* What a power failure leaves fits.
LEMMA SurvivorsFit ==
    ASSUME FilesOK, NEW f \in Survivors
    PROVE  Fits(f)
<1>1. Fits(file) /\ Fits(disk)
  BY DEF FilesOK
<1>2. CASE f \in {disk, file}
  BY <1>1, <1>2
<1>3. CASE f \notin {disk, file}
  <2>1. PICK n \in Len(disk) .. Len(file) :
          f \in {SubSeq(file, 1, n)} \cup
                (IF n < Len(file) /\ file[n + 1] # Newline
                 THEN {Append(SubSeq(file, 1, n), Torn)} ELSE {})
    BY <1>3 DEF Survivors
  <2>2. n \in 0 .. Len(file)
    BY <1>1, LenProperties DEF Fits
  <2>. QED
    BY <1>1, <2>1, <2>2, FitsFront
<1>. QED
  BY <1>2, <1>3

\* A power failure keeps the shape.
LEMMA PowerFailureShape ==
    ASSUME Shape, PowerFailure
    PROVE  Shape'
<1>0. /\ FilesOK /\ CachesOK /\ ClientsOK /\ LocksOK /\ ToldOK /\ LivesOK
      /\ HandleOf \in [Clients -> Handles]
  BY JsonlAssumption DEF Shape
<1>1. /\ Forget(Handles) /\ cache' = [h \in Handles |-> EmptyCache] /\ sealed' = sealed
      /\ acked' = acked /\ stored' = stored /\ cursor' = cursor /\ seen' = seen
  BY DEF PowerFailure, told
<1>2. PICK f \in Survivors :
        /\ file' = f /\ disk' = f
        /\ present' \in IF f = << >> THEN {FALSE, present} ELSE {TRUE}
  BY Zenon DEF PowerFailure
<1>3. Fits(f)
  BY <1>0, SurvivorsFit
<1>4. FilesOK'
  BY <1>0, <1>2, <1>3 DEF FilesOK
<1>5. /\ ClientsOK' /\ LocksOK' /\ life' \in [Handles -> {"down", "open", "closing", "closed"}]
      /\ \A d \in Clients : pc'[d] = "idle"
  BY <1>0, <1>1, ForgetSpec
<1>6. CachesOK'
  BY <1>1, EmptyCacheGood DEF CachesOK, GoodCache
<1>7. ReadyOK'
  BY <1>5, NobodyReady
<1>8. ToldOK' /\ LivesOK'
  BY <1>0, <1>1, <1>5 DEF ToldOK, LivesOK
<1>. QED
  BY <1>4, <1>5, <1>6, <1>7, <1>8 DEF Shape

\* What a step of one caller leaves alone of the others.
LEMMA OthersReady ==
    ASSUME Shape, NEW c \in Clients, lock = c \/ lock = NoClient,
           pc'[c] \notin {"run", "write"},
           \A d \in Clients : d # c => pc'[d] = pc[d]
    PROVE  ReadyOK'
<1>1. \A d \in Clients : d # c => pc'[d] \notin {"run", "write"}
  BY Alone DEF Shape
<1>. QED
  BY <1>1 DEF ReadyOK

\* load_delta, under the lock, keeps the shape.
LEMMA LoadShape ==
    ASSUME Shape, NEW c \in Clients, Load(c)
    PROVE  Shape'
<1>. DEFINE h == HandleOf[c]
            k == cache[h]
<1>0. /\ FilesOK /\ CachesOK /\ ClientsOK /\ LocksOK /\ ToldOK /\ LivesOK
      /\ h \in Handles /\ GoodCache(k) /\ lock = c /\ pc[c] = "load"
  BY JsonlAssumption DEF Shape, CachesOK, LocksOK, Load
<1>1. /\ present' = present /\ life' = life /\ sealed' = sealed
      /\ acked' = acked /\ stored' = stored /\ cursor' = cursor /\ seen' = seen
  BY DEF Load, told
<1>2. PICK r \in Loads(k) :
        /\ TakeLoad(h, r)
        /\ IF r.ok
           THEN pc' = [pc EXCEPT ![c] = "run"] /\ UNCHANGED <<lock, op, reply>>
           ELSE Finish(c, [is |-> "refused"])
  BY Zenon DEF Load
<1>3. /\ GoodCache(r.cache) /\ r.ok \in BOOLEAN /\ Fits(r.file) /\ Fits(r.disk)
      /\ ~present => r.file = << >>
      /\ r.ok => Len(r.file) <= r.cache.offset
  BY <1>0, LoadsFit
<1>4. SetFile(h, r.cache, r.file) /\ disk' = r.disk
  BY <1>2 DEF TakeLoad
<1>. HIDE DEF h, k
<1>5. CachesOK' /\ cache'[h] = r.cache /\ file' = r.file
  BY <1>0, <1>3, <1>4, SetFileSpec
<1>6. FilesOK' /\ ToldOK' /\ LivesOK'
  BY <1>0, <1>1, <1>3, <1>4, <1>5 DEF FilesOK, ToldOK, LivesOK
<1>7. CASE r.ok
  <2>1. pc' = [pc EXCEPT ![c] = "run"] /\ lock' = lock /\ op' = op /\ reply' = reply
    BY <1>2, <1>7
  <2>2. ClientsOK'
    BY <1>0, <2>1 DEF ClientsOK, Places
  <2>3. LocksOK'
    BY <1>0, <2>1 DEF LocksOK, ClientsOK
  <2>4. pc'[c] = "run" /\ \A d \in Clients : d # c => pc'[d] = pc[d]
    BY <1>0, <2>1 DEF ClientsOK
  <2>5. Len(file') <= Mine(c)'.offset
    BY <1>3, <1>5, <1>7 DEF Mine, h
  <2>6. \A d \in Clients : d # c => pc'[d] \notin {"run", "write"}
    BY <1>0, <2>4, Alone
  <2>7. ReadyOK'
    BY <2>4, <2>5, <2>6 DEF ReadyOK
  <2>. QED
    BY <1>5, <1>6, <2>2, <2>3, <2>7 DEF Shape
<1>8. CASE ~r.ok
  <2>1. Finish(c, Refused)
    BY <1>2, <1>8 DEF Refused
  <2>2. ClientsOK' /\ LocksOK' /\ \A d \in Clients : pc'[d] \notin {"load", "run", "write"}
    BY <1>0, <2>1, FinishSpec, RepliesSpec
  <2>3. ReadyOK'
    BY <2>2, NobodyReady
  <2>. QED
    BY <1>5, <1>6, <2>2, <2>3 DEF Shape
<1>. QED
  BY <1>3, <1>7, <1>8

\* Taking the file lock keeps the shape.
LEMMA LockShape ==
    ASSUME Shape, NEW c \in Clients, Lock(c)
    PROVE  Shape'
<1>0. FilesOK /\ CachesOK /\ ClientsOK /\ LocksOK /\ ToldOK /\ LivesOK
  BY DEF Shape
<1>1. /\ pc[c] = "started" /\ lock = NoClient /\ lock' = c /\ pc' = [pc EXCEPT ![c] = "load"]
      /\ file' = file /\ present' = present /\ disk' = disk /\ cache' = cache /\ life' = life
      /\ op' = op /\ reply' = reply /\ sealed' = sealed
      /\ acked' = acked /\ stored' = stored /\ cursor' = cursor /\ seen' = seen
  BY DEF Lock, told
<1>2. pc'[c] = "load" /\ \A d \in Clients : d # c => pc'[d] = pc[d]
  BY <1>0, <1>1 DEF ClientsOK
<1>3. ReadyOK'
  BY <1>1, <1>2, OthersReady
<1>4. ClientsOK'
  BY <1>0, <1>1 DEF ClientsOK, Places
<1>5. LocksOK'
  <2>1. \A d \in Clients : d # c => pc'[d] \notin {"load", "run", "write"}
    BY <1>0, <1>1, <1>2, Alone
  <2>. QED
    BY <1>1, <2>1 DEF LocksOK
<1>6. FilesOK' /\ CachesOK' /\ ToldOK' /\ LivesOK'
  BY <1>0, <1>1 DEF FilesOK, CachesOK, ToldOK, LivesOK
<1>. QED
  BY <1>3, <1>4, <1>5, <1>6 DEF Shape

------------------------------------------------------------------------------
(* The operations keep the shape                                             *)

\* A barrier, made or failed, and the answer.
LEMMA ConfirmShape ==
    ASSUME Shape, NEW c \in Clients, pc[c] = "run", NEW a \in Replies, NEW b \in Replies,
           Confirm(c, a, b) \/ ((Finish(c, a) \/ Finish(c, b)) /\ disk' = disk),
           file' = file, present' = present, cache' = cache, life' = life, UNCHANGED told
    PROVE  Shape'
<1>0. /\ FilesOK /\ CachesOK /\ ClientsOK /\ LocksOK /\ ToldOK /\ LivesOK /\ lock = c
  BY DEF Shape, LocksOK
<1>1. Finish(c, a) \/ Finish(c, b)
  BY DEF Confirm
<1>2. disk' \in {disk, file}
  BY DEF Confirm
<1>3. ClientsOK' /\ LocksOK' /\ \A d \in Clients : pc'[d] \notin {"load", "run", "write"}
  BY <1>0, <1>1, FinishSpec
<1>4. ReadyOK'
  BY <1>3, NobodyReady
<1>5. FilesOK' /\ CachesOK' /\ ToldOK' /\ LivesOK'
  BY <1>0, <1>2 DEF FilesOK, CachesOK, ToldOK, LivesOK, told
<1>. QED
  BY <1>3, <1>4, <1>5 DEF Shape

\* A plan to write.
LEMMA PlansShape ==
    ASSUME Shape, NEW c \in Clients, pc[c] = "run", Planned(c),
           pc' = [pc EXCEPT ![c] = "write"],
           UNCHANGED <<disk, lock, op, reply, file, present, cache, life, told>>
    PROVE  Shape'
<1>0. /\ FilesOK /\ CachesOK /\ ClientsOK /\ LocksOK /\ ToldOK /\ LivesOK /\ ReadyOK /\ lock = c
  BY DEF Shape, LocksOK
<1>1. FilesOK' /\ CachesOK' /\ ToldOK' /\ LivesOK'
  BY <1>0 DEF FilesOK, CachesOK, ToldOK, LivesOK, told
<1>2. ClientsOK'
  BY <1>0 DEF ClientsOK, Places
<1>3. pc'[c] = "write" /\ \A d \in Clients : d # c => pc'[d] = pc[d]
  BY <1>0 DEF ClientsOK
<1>4. \A d \in Clients : d # c => pc'[d] \notin {"load", "run", "write"}
  BY <1>0, <1>3, Alone
<1>5. LocksOK'
  BY <1>0, <1>4 DEF LocksOK
<1>6. Planned(c)' /\ Len(file') <= Mine(c)'.offset
  BY <1>0 DEF Planned, Mine, Room, ReadyOK
<1>7. ReadyOK'
  BY <1>3, <1>4, <1>6 DEF ReadyOK
<1>. QED
  BY <1>1, <1>2, <1>5, <1>7 DEF Shape

\* The cache of a caller and what it asks.
LEMMA MineGood ==
    ASSUME Shape, NEW c \in Clients
    PROVE  /\ HandleOf[c] \in Handles /\ Mine(c) = cache[HandleOf[c]] /\ GoodCache(Mine(c))
           /\ Mine(c) \in CacheSet /\ JournalInv(Mine(c).journal) /\ Mine(c).journal \in JournalState
           /\ Mine(c).offset \in Nat
           /\ pc[c] # "idle" => op[c] \in Operations
  BY JsonlAssumption DEF Shape, CachesOK, ClientsOK, Mine, GoodCache, CacheSet

\* The plan of commit_transition keeps the shape.
LEMMA PlanCommitShape ==
    ASSUME Shape, NEW c \in Clients, PlanCommit(c)
    PROVE  Shape'
<1>. DEFINE j == Mine(c).journal
            b == op[c].batch
<1>1. /\ pc[c] = "run" /\ op[c].is = "commit" /\ op[c] \in Operations
      /\ j \in JournalState /\ b \in Batch
  BY MineGood, OperationSpec DEF PlanCommit, Running
<1>2. file' = file /\ present' = present /\ cache' = cache /\ life' = life /\ UNCHANGED told
  BY DEF PlanCommit
<1>3. CASE Replays(j, b) /\ Confirm(c, Found(j.commands[b.command]), Unknown)
  <2>1. j.commands[b.command] \in Receipt
    BY <1>1, <1>3 DEF Replays, Known, JournalState, Batch
  <2>2. Found(j.commands[b.command]) \in Replies /\ Unknown \in Replies
    BY <2>1, RepliesSpec
  <2>. QED
    BY <1>1, <1>2, <1>3, <2>2, ConfirmShape
<1>4. CASE /\ Appends(j, b) /\ Room(Mine(c))
           /\ pc' = [pc EXCEPT ![c] = "write"]
           /\ UNCHANGED <<disk, lock, op, reply, faults>>
  <2>1. Planned(c)
    BY <1>1, <1>4 DEF Planned
  <2>. QED
    BY <1>1, <1>2, <1>4, <2>1, PlansShape
<1>5. CASE Finish(c, Refused) /\ UNCHANGED <<disk, faults>>
  BY <1>1, <1>2, <1>5, RepliesSpec, ConfirmShape
<1>. QED
  BY <1>3, <1>4, <1>5 DEF PlanCommit

\* The plan of append_expected keeps the shape.
LEMMA PlanAppendShape ==
    ASSUME Shape, NEW c \in Clients, PlanAppend(c)
    PROVE  Shape'
<1>. DEFINE j == Mine(c).journal
            e == op[c].event
            replay == op[c].is = "idempotent" /\ ReplaysLegacy(j, e)
            append == AppendsLegacy(j, e, AnyVersion) /\ Room(Mine(c))
                      /\ (op[c].is = "idempotent" => e.key # NoKey)
<1>1. /\ pc[c] = "run" /\ op[c].is \in {"append", "idempotent"} /\ op[c] \in Operations
      /\ e \in Events
  BY MineGood, OperationSpec DEF PlanAppend, Running
<1>2. file' = file /\ present' = present /\ cache' = cache /\ life' = life /\ UNCHANGED told
  BY DEF PlanAppend
<1>3. CASE replay /\ Confirm(c, Stored(e), Refused)
  BY <1>1, <1>2, <1>3, RepliesSpec, ConfirmShape
<1>4. CASE /\ append
           /\ pc' = [pc EXCEPT ![c] = "write"]
           /\ UNCHANGED <<disk, lock, op, reply, faults>>
  <2>1. Planned(c)
    BY <1>1, <1>4 DEF Planned
  <2>. QED
    BY <1>1, <1>2, <1>4, <2>1, PlansShape
<1>5. CASE Finish(c, Refused) /\ UNCHANGED <<disk, faults>>
  BY <1>1, <1>2, <1>5, RepliesSpec, ConfirmShape
<1>. QED
  BY <1>3, <1>4, <1>5 DEF PlanAppend

\* read_command keeps the shape.
LEMMA ReadCommandShape ==
    ASSUME Shape, NEW c \in Clients, ReadCommand(c)
    PROVE  Shape'
<1>. DEFINE receipt == Mine(c).journal.commands[op[c].command]
<1>1. /\ pc[c] = "run" /\ op[c].is = "command" /\ op[c] \in Operations
      /\ Mine(c).journal \in JournalState /\ op[c].command \in Commands
  BY MineGood, OperationSpec DEF ReadCommand, Running
<1>2. file' = file /\ present' = present /\ cache' = cache /\ life' = life /\ UNCHANGED told
  BY DEF ReadCommand
<1>3. CASE receipt = NoReceipt
  <2>1. Finish(c, Refused) /\ UNCHANGED <<disk, faults>>
    BY <1>3 DEF ReadCommand
  <2>. QED
    BY <1>1, <1>2, <2>1, RepliesSpec, ConfirmShape
<1>4. CASE receipt # NoReceipt
  <2>1. Confirm(c, Found(receipt), Refused)
    BY <1>4 DEF ReadCommand
  <2>2. receipt \in Receipt
    BY <1>1, <1>4 DEF JournalState
  <2>3. Found(receipt) \in Replies /\ Refused \in Replies
    BY <2>2, RepliesSpec
  <2>. QED
    BY <1>1, <1>2, <2>1, <2>3, ConfirmShape
<1>. QED
  BY <1>3, <1>4

\* A page is a stretch of the cached log.
LEMMA PageReply ==
    ASSUME Shape, NEW c \in Clients, NEW j, j = Mine(c).journal, NEW limit,
           PageAllowed(j, cursor[c], limit)
    PROVE  /\ PageEnd(j, cursor[c], limit) \in Nat
           /\ PageEvents(j, cursor[c], limit) \in Seq(Event)
           /\ [is |-> "page", cursor |-> PageEnd(j, cursor[c], limit),
               events |-> PageEvents(j, cursor[c], limit)] \in Replies
           /\ cursor[c] \in 0 .. Len(j.events) /\ limit \in Nat
           /\ PageEnd(j, cursor[c], limit) \in cursor[c] .. Len(j.events)
<1>1. JournalInv(j) /\ j.events \in Seq(Event) /\ Len(j.events) \in Nat /\ cursor[c] \in Nat
  BY MineGood, LenProperties DEF JournalState, Shape, ToldOK
<1>2. cursor[c] \in 0 .. Len(j.events) /\ limit \in Nat
  BY <1>1, JournalAssumption DEF PageAllowed
<1>3. PageEnd(j, cursor[c], limit) \in cursor[c] .. Len(j.events)
  BY <1>1, <1>2, PageEndSpec
<1>. DEFINE p == PageEnd(j, cursor[c], limit)
<1>. HIDE DEF p
<1>4. p \in Nat /\ p <= Len(j.events) /\ cursor[c] <= p
  BY <1>1, <1>3 DEF p
<1>5. SubSeq(j.events, cursor[c] + 1, p) \in Seq(Event)
  <2>1. \A i \in cursor[c] + 1 .. p : i \in 1 .. Len(j.events)
    BY <1>1, <1>4
  <2>2. \A i \in cursor[c] + 1 .. p : j.events[i] \in Event
    BY <1>1, <2>1, ElementOfSeq
  <2>. QED
    BY <1>1, <1>4, <2>1, <2>2, SubSeqProperties
<1>6. PageEvents(j, cursor[c], limit) \in Seq(Event)
  BY <1>5 DEF PageEvents, p
<1>. QED
  BY <1>2, <1>3, <1>4, <1>6, RepliesSpec DEF p

\* read_from keeps the shape.
LEMMA ReadFromShape ==
    ASSUME Shape, NEW c \in Clients, ReadFrom(c)
    PROVE  Shape'
<1>. DEFINE j == Mine(c).journal
            a == [is |-> "page", cursor |-> PageEnd(j, cursor[c], op[c].limit),
                  events |-> PageEvents(j, cursor[c], op[c].limit)]
<1>1. /\ pc[c] = "run" /\ disk' = disk
      /\ file' = file /\ present' = present /\ cache' = cache /\ life' = life /\ UNCHANGED told
      /\ Finish(c, IF PageAllowed(j, cursor[c], op[c].limit) THEN a ELSE Refused)
  BY DEF ReadFrom, Running
<1>2. PageAllowed(j, cursor[c], op[c].limit) => a \in Replies
  BY PageReply
<1>. HIDE DEF a, j
<1>3. (IF PageAllowed(j, cursor[c], op[c].limit) THEN a ELSE Refused) \in Replies
  BY <1>2, RepliesSpec
<1>. QED
  BY <1>1, <1>3, ConfirmShape

\* flush keeps the shape.
LEMMA FlushShape ==
    ASSUME Shape, NEW c \in Clients, Flush(c)
    PROVE  Shape'
<1>1. /\ pc[c] = "run"
      /\ file' = file /\ present' = present /\ cache' = cache /\ life' = life /\ UNCHANGED told
      /\ Confirm(c, Health, Refused) \/ (Finish(c, Health) /\ disk' = disk)
  BY DEF Flush, Running
<1>. QED
  BY <1>1, RepliesSpec, ConfirmShape

\* The record a write appends, and the cache that holds it.
LEMMA RecordSpec ==
    ASSUME Shape, NEW c \in Clients, pc[c] = "write", ~Upgrades(c)
    PROVE  /\ RecordOf(c) \in Chunk /\ Accepts(Mine(c), RecordOf(c))
           /\ op[c].is = "commit" =>
                /\ RecordOf(c).receipt = NewReceipt(Mine(c).journal, op[c].batch)
                /\ RecordOf(c).receipt \in Receipt /\ RecordOf(c).is = "frame"
                /\ RecordOf(c).batch = op[c].batch
           /\ op[c].is # "commit" =>
                /\ RecordOf(c).is \in {"event", "legacy"} /\ RecordOf(c).event = op[c].event
                /\ op[c].event \in Events
<1>1. Planned(c) /\ op[c] \in Operations
  BY MineGood DEF Shape, ReadyOK
<1>2. CASE op[c].is = "commit"
  <2>. DEFINE receipt == NewReceipt(Mine(c).journal, op[c].batch)
  <2>1. Appends(Mine(c).journal, op[c].batch) /\ op[c].batch \in Batches /\ op[c].batch \in Batch
    BY <1>1, <1>2, OperationSpec DEF Planned
  <2>2. receipt \in Receipt
    BY <2>1, MineGood, NewReceiptType
  <2>. HIDE DEF receipt
  <2>3. RecordOf(c) = Frame(op[c].batch, receipt)
    BY <1>2 DEF RecordOf, receipt
  <2>4. RecordOf(c) \in Chunk
    BY <2>1, <2>2, <2>3, ChunksWritten
  <2>5. /\ RecordOf(c).is = "frame" /\ RecordOf(c).batch = op[c].batch
        /\ RecordOf(c).receipt = receipt
    BY <2>3 DEF Frame
  <2>6. Mine(c).upgraded
    BY <1>2 DEF Upgrades
  <2>7. Accepts(Mine(c), RecordOf(c))
    BY <2>1, <2>5, <2>6 DEF Accepts, receipt
  <2>. QED
    BY <1>2, <2>2, <2>4, <2>5, <2>7 DEF receipt
<1>3. CASE op[c].is # "commit"
  <2>1. /\ AppendsLegacy(Mine(c).journal, op[c].event, AnyVersion)
        /\ op[c].event \in Events
    BY <1>1, <1>3, OperationSpec DEF Planned
  <2>2. \/ Mine(c).upgraded /\ RecordOf(c) = EventFrame(op[c].event)
        \/ ~Mine(c).upgraded /\ RecordOf(c) = LegacyLine(op[c].event)
    BY <1>3 DEF RecordOf
  <2>3. RecordOf(c) \in Chunk
    BY <2>1, <2>2, ChunksWritten
  <2>4. \/ RecordOf(c).is = "event" /\ Mine(c).upgraded
        \/ RecordOf(c).is = "legacy" /\ ~Mine(c).upgraded
    BY <2>2 DEF EventFrame, LegacyLine
  <2>5. RecordOf(c).event = op[c].event
    BY <2>2 DEF EventFrame, LegacyLine
  <2>6. Accepts(Mine(c), RecordOf(c))
    BY <2>1, <2>4, <2>5 DEF Accepts
  <2>. QED
    BY <1>3, <2>1, <2>3, <2>4, <2>5, <2>6
<1>. QED
  BY <1>2, <1>3

\* The file has room for it.
LEMMA RoomSpec ==
    ASSUME Shape, NEW c \in Clients, pc[c] = "write"
    PROVE  /\ Len(file) \in Nat /\ Len(file) + 2 <= MaxLog /\ Fits(file)
           /\ ~Mine(c).upgraded => Mine(c).offset + 4 <= MaxLog
           /\ Mine(c).offset + 2 <= MaxLog
           /\ lock = c /\ MaxLog \in Nat
<1>1. Planned(c) /\ Len(file) <= Mine(c).offset /\ Fits(file) /\ Len(file) \in Nat /\ lock = c
  BY LenProperties DEF Shape, ReadyOK, FilesOK, Fits, LocksOK
<1>2. Mine(c).offset \in Nat /\ Mine(c) \in CacheSet /\ MaxLog \in Nat
  BY MineGood, JsonlAssumption
<1>3. Mine(c).offset + 2 + (IF Mine(c).upgraded THEN 0 ELSE 2) <= MaxLog
  BY <1>1 DEF Planned, Room
<1>4. ~Mine(c).upgraded => Mine(c).offset + 4 <= MaxLog
  BY <1>2, <1>3
<1>5. Mine(c).offset + 2 <= MaxLog
  <2>1. Mine(c).upgraded \in BOOLEAN
    BY <1>2 DEF CacheSet
  <2>. QED
    BY <1>2, <1>3, <2>1
<1>6. Len(file) + 2 <= MaxLog
  BY <1>1, <1>2, <1>5
<1>. QED
  BY <1>1, <1>2, <1>4, <1>5, <1>6

\* Writing the header of an old file keeps the shape.
LEMMA WriteHeaderShape ==
    ASSUME Shape, NEW c \in Clients, WriteHeader(c)
    PROVE  Shape'
<1>. DEFINE h == HandleOf[c]
            k == Mine(c)
            f == file \o <<Header, Newline>>
            l == [k EXCEPT !.offset = Len(f), !.upgraded = TRUE, !.current = FALSE]
<1>0. /\ FilesOK /\ CachesOK /\ ClientsOK /\ LocksOK /\ ToldOK /\ LivesOK /\ ReadyOK
      /\ pc[c] = "write" /\ lock = c /\ h \in Handles /\ GoodCache(k) /\ k \in CacheSet
      /\ k = cache[h] /\ k.offset \in Nat /\ Planned(c)
  BY MineGood DEF WriteHeader, Shape, LocksOK, ReadyOK
<1>1. /\ op[c].is = "commit" /\ ~k.upgraded /\ Len(file) = k.offset
      /\ SetFile(h, l, f) /\ disk' = f /\ present' = TRUE
      /\ life' = life /\ lock' = lock /\ pc' = pc /\ op' = op /\ reply' = reply /\ sealed' = sealed
      /\ acked' = acked /\ stored' = stored /\ cursor' = cursor /\ seen' = seen
  BY DEF WriteHeader, Upgrades, Unmoved, told
<1>2. /\ Len(file) \in Nat /\ Len(file) + 2 <= MaxLog /\ Fits(file) /\ k.offset + 4 <= MaxLog
      /\ MaxLog \in Nat /\ Header \in Chunk
  BY <1>0, <1>1, RoomSpec, ChunksWritten
<1>. HIDE DEF k, h
<1>3. Fits(f) /\ Len(f) = Len(file) + 2
  BY <1>2, FitsMore
<1>. HIDE DEF f
<1>3a. Len(f) \in Nat
  BY <1>2, <1>3
<1>4. /\ l \in CacheSet /\ l.journal = k.journal /\ l.upgraded = TRUE /\ l.offset = Len(f)
  BY <1>0, <1>3a DEF CacheSet
<1>5. GoodCache(l)
  BY <1>0, <1>4, FlagsSpec
<1>. HIDE DEF l
<1>6. CachesOK' /\ cache'[h] = l /\ file' = f
  BY <1>0, <1>1, <1>5, SetFileSpec
<1>7. FilesOK'
  BY <1>1, <1>3, <1>6 DEF FilesOK
<1>8. ClientsOK' /\ LocksOK' /\ ToldOK' /\ LivesOK'
  BY <1>0, <1>1 DEF ClientsOK, LocksOK, ToldOK, LivesOK
<1>9. Mine(c)' = l
  BY <1>6 DEF Mine, h
<1>10. Planned(c)'
  <2>1. Room(Mine(c)')
    BY <1>1, <1>2, <1>3, <1>4, <1>9 DEF Room
  <2>2. Appends(k.journal, op[c].batch)
    BY <1>0, <1>1 DEF Planned, k
  <2>3. op'[c].is = "commit" /\ Appends(Mine(c)'.journal, op'[c].batch)
    BY <1>1, <1>4, <1>9, <2>2
  <2>. QED
    BY <2>1, <2>3 DEF Planned
<1>11. Len(file') <= Mine(c)'.offset
  BY <1>2, <1>3, <1>4, <1>6, <1>9
<1>12. \A d \in Clients : d # c => pc'[d] \notin {"load", "run", "write"}
  BY <1>0, <1>1, Alone
<1>13. ReadyOK'
  BY <1>10, <1>11, <1>12 DEF ReadyOK
<1>. QED
  BY <1>6, <1>7, <1>8, <1>13 DEF Shape

\* Writing a record keeps the shape.
LEMMA WriteRecordShape ==
    ASSUME Shape, NEW c \in Clients, WriteRecord(c)
    PROVE  Shape'
<1>. DEFINE h == HandleOf[c]
            k == Mine(c)
            x == RecordOf(c)
            f == file \o <<x, Newline>>
            l == [k EXCEPT !.offset = Len(f), !.warm = TRUE, !.current = TRUE, !.uncertain = FALSE]
            a == IF op[c].is = "commit" THEN Found(x.receipt) ELSE Stored(op[c].event)
<1>0. /\ FilesOK /\ CachesOK /\ ClientsOK /\ LocksOK /\ ToldOK /\ LivesOK
      /\ pc[c] = "write" /\ lock = c /\ h \in Handles /\ GoodCache(k) /\ k \in CacheSet
  BY MineGood DEF WriteRecord, Shape, LocksOK
<1>1. /\ ~Upgrades(c) /\ SetFile(h, Accept(l, x), f) /\ disk' = f /\ present' = TRUE
      /\ Finish(c, a) /\ life' = life /\ sealed' = sealed
      /\ acked' = acked /\ stored' = stored /\ cursor' = cursor /\ seen' = seen
  BY DEF WriteRecord, told
<1>2. /\ x \in Chunk /\ Accepts(k, x) /\ a \in Replies
      /\ Len(file) \in Nat /\ Len(file) + 2 <= MaxLog /\ Fits(file)
  BY <1>0, <1>1, RecordSpec, RoomSpec, RepliesSpec
<1>. HIDE DEF k, h, x, a
<1>3b. Fits(f) /\ Len(f) = Len(file) + 2
  BY <1>2, FitsMore
<1>. HIDE DEF f
<1>3. Fits(f) /\ Len(f) = Len(file) + 2 /\ Len(f) \in Nat
  BY <1>2, <1>3b
<1>4. l \in CacheSet /\ l.journal = k.journal /\ l.upgraded = k.upgraded
  BY <1>0, <1>3 DEF CacheSet
<1>5. GoodCache(l) /\ Accepts(l, x)
  BY <1>0, <1>2, <1>4, FlagsSpec DEF Accepts
<1>6. GoodCache(Accept(l, x))
  BY <1>2, <1>5, AcceptSpec
<1>. HIDE DEF l
<1>7. CachesOK' /\ file' = f
  BY <1>0, <1>1, <1>6, SetFileSpec
<1>8. FilesOK' /\ ToldOK' /\ LivesOK'
  BY <1>0, <1>1, <1>3, <1>7 DEF FilesOK, ToldOK, LivesOK
<1>9. ClientsOK' /\ LocksOK' /\ \A d \in Clients : pc'[d] \notin {"load", "run", "write"}
  BY <1>0, <1>1, <1>2, FinishSpec
<1>10. ReadyOK'
  BY <1>9, NobodyReady
<1>. QED
  BY <1>7, <1>8, <1>9, <1>10 DEF Shape

\* A write that fails keeps the shape.
LEMMA WriteFailsShape ==
    ASSUME Shape, NEW c \in Clients, WriteFails(c)
    PROVE  Shape'
<1>. DEFINE h == HandleOf[c]
            k == Mine(c)
            x == IF Upgrades(c) THEN Header ELSE RecordOf(c)
<1>0. /\ FilesOK /\ CachesOK /\ ClientsOK /\ LocksOK /\ ToldOK /\ LivesOK
      /\ pc[c] = "write" /\ lock = c /\ h \in Handles /\ GoodCache(k) /\ k \in CacheSet
  BY MineGood DEF WriteFails, Shape, LocksOK
<1>1. /\ present' = TRUE /\ Finish(c, Unknown) /\ life' = life /\ sealed' = sealed
      /\ acked' = acked /\ stored' = stored /\ cursor' = cursor /\ seen' = seen
  BY DEF WriteFails, told
<1>2. PICK w \in { << >>, <<Torn>>, <<x>>, <<x, Newline>> } :
        /\ SetFile(h, [k EXCEPT !.uncertain = TRUE, !.current = @ /\ w = << >>], file \o w)
        /\ disk' \in {disk} \cup (IF Len(w) = 2 THEN {file \o w} ELSE {})
  BY Zenon DEF WriteFails
<1>3. /\ x \in Chunk /\ Torn \in Chunk
      /\ Len(file) \in Nat /\ Len(file) + 2 <= MaxLog /\ Fits(file)
  BY <1>0, RecordSpec, RoomSpec, ChunksWritten
<1>. HIDE DEF k, h, x
<1>4. Fits(file \o w)
  BY <1>2, <1>3, FitsMore
<1>. DEFINE l == [k EXCEPT !.uncertain = TRUE, !.current = (k.current /\ w = << >>)]
            f == file \o w
<1>5. SetFile(h, l, f)
  BY <1>2, Zenon
<1>. HIDE DEF f
<1>6. (k.current /\ w = << >>) \in BOOLEAN
  OBVIOUS
<1>7. l \in CacheSet /\ l.journal = k.journal
  BY <1>0, <1>6 DEF CacheSet
<1>8. GoodCache(l)
  BY <1>0, <1>7, FlagsSpec
<1>. HIDE DEF l
<1>9. CachesOK' /\ file' = f
  BY <1>0, <1>5, <1>8, SetFileSpec
<1>10. disk' \in {disk, f}
  BY <1>2 DEF f
<1>11. FilesOK' /\ ToldOK' /\ LivesOK'
  BY <1>0, <1>1, <1>4, <1>9, <1>10 DEF FilesOK, ToldOK, LivesOK, f
<1>12. ClientsOK' /\ LocksOK' /\ \A d \in Clients : pc'[d] \notin {"load", "run", "write"}
  BY <1>0, <1>1, FinishSpec, RepliesSpec
<1>13. ReadyOK'
  BY <1>12, NobodyReady
<1>. QED
  BY <1>9, <1>11, <1>12, <1>13 DEF Shape

\* A client that goes idle disturbs no other.
LEMMA IdleSpec ==
    ASSUME ClientsOK, LocksOK, NEW c \in Clients, Idle(c), lock' = lock
    PROVE  /\ ClientsOK' /\ LocksOK' /\ pc'[c] = "idle" /\ reply'[c] = [is |-> "none"]
           /\ \A d \in Clients : d # c => pc'[d] = pc[d] /\ op'[d] = op[d] /\ reply'[d] = reply[d]
<1>1. /\ pc \in [Clients -> Places] /\ op \in [Clients -> Asks] /\ reply \in [Clients -> Replies]
      /\ \A d \in Clients : pc[d] # "idle" => op[d] \in Operations
      /\ [is |-> "none"] \in Replies /\ [is |-> "none"] \in Asks
  BY RepliesSpec DEF ClientsOK
<1>2. /\ pc' = [pc EXCEPT ![c] = "idle"] /\ op' = [op EXCEPT ![c] = [is |-> "none"]]
      /\ reply' = [reply EXCEPT ![c] = [is |-> "none"]]
  BY DEF Idle
<1>3. /\ pc' \in [Clients -> Places] /\ op' \in [Clients -> Asks] /\ reply' \in [Clients -> Replies]
      /\ pc'[c] = "idle" /\ reply'[c] = [is |-> "none"]
      /\ \A d \in Clients : d # c => pc'[d] = pc[d] /\ op'[d] = op[d] /\ reply'[d] = reply[d]
  BY <1>1, <1>2 DEF Places
<1>4. \A d \in Clients : pc'[d] # "idle" => op'[d] \in Operations
  BY <1>1, <1>3
<1>5. LocksOK'
  BY <1>3 DEF LocksOK
<1>. QED
  BY <1>3, <1>4, <1>5 DEF ClientsOK

\* A step of a caller outside the lock.
LEMMA OutsideShape ==
    ASSUME Shape, NEW c \in Clients, pc[c] \notin {"load", "run", "write"},
           pc'[c] \notin {"load", "run", "write"},
           \A d \in Clients : d # c => pc'[d] = pc[d] /\ op'[d] = op[d],
           file' = file, cache' = cache, lock' = lock
    PROVE  ReadyOK' /\ LocksOK'
<1>1. ASSUME NEW d \in Clients, pc'[d] \in {"load", "run", "write"}
      PROVE  /\ lock' = d
             /\ pc'[d] \in {"run", "write"} => Len(file') <= Mine(d)'.offset
             /\ pc'[d] = "write" => Planned(d)'
  <2>1. d # c /\ pc'[d] = pc[d] /\ op'[d] = op[d]
    BY <1>1
  <2>2. /\ lock = d
        /\ pc[d] \in {"run", "write"} => Len(file) <= Mine(d).offset
        /\ pc[d] = "write" => Planned(d)
    BY <1>1, <2>1 DEF Shape, LocksOK, ReadyOK
  <2>3. Mine(d)' = Mine(d)
    BY DEF Mine
  <2>4. Planned(d) => Planned(d)'
    BY <2>1, <2>3 DEF Planned, Room
  <2>. QED
    BY <2>1, <2>2, <2>3, <2>4
<1>2. ReadyOK'
  BY <1>1 DEF ReadyOK
<1>3. LocksOK'
  BY <1>1 DEF LocksOK, Shape
<1>. QED
  BY <1>2, <1>3

\* Calling an operation keeps the shape.
LEMMA SubmitShape ==
    ASSUME Shape, NEW c \in Clients, NEW o \in Operations, Submit(c, o)
    PROVE  Shape'
<1>. DEFINE h == HandleOf[c]
            p == IF Cardinality(Busy(h)) < MaxWorkers THEN "queued" ELSE "answer"
            v == IF o.is = "close" THEN "closing" ELSE life[h]
<1>0. /\ FilesOK /\ CachesOK /\ ClientsOK /\ LocksOK /\ ToldOK /\ LivesOK
      /\ o \in Asks /\ Refused \in Replies /\ h \in Handles
  BY OperationSpec, RepliesSpec, JsonlAssumption DEF Shape
<1>1. /\ pc[c] = "idle" /\ life' = [life EXCEPT ![h] = v] /\ op' = [op EXCEPT ![c] = o]
      /\ pc' = [pc EXCEPT ![c] = p] /\ reply' = [reply EXCEPT ![c] = Refused]
      /\ file' = file /\ present' = present /\ disk' = disk /\ cache' = cache /\ lock' = lock
      /\ sealed' = sealed
      /\ acked' = acked /\ stored' = stored /\ cursor' = cursor /\ seen' = seen
  BY Zenon DEF Submit, told, Refused
<1>2. p \in {"queued", "answer"} /\ v \in {"down", "open", "closing", "closed"}
  BY <1>0 DEF LivesOK
<1>. HIDE DEF p, v
<1>3. /\ pc'[c] = p /\ op'[c] = o
      /\ \A d \in Clients : d # c => pc'[d] = pc[d] /\ op'[d] = op[d]
  BY <1>0, <1>1 DEF ClientsOK
<1>4. ClientsOK'
  BY <1>0, <1>1, <1>2, <1>3 DEF ClientsOK, Places
<1>5. ReadyOK' /\ LocksOK'
  BY <1>1, <1>2, <1>3, OutsideShape
<1>6. FilesOK' /\ CachesOK' /\ ToldOK' /\ LivesOK'
  BY <1>0, <1>1, <1>2 DEF FilesOK, CachesOK, ToldOK, LivesOK
<1>. QED
  BY <1>4, <1>5, <1>6 DEF Shape

\* The second lifecycle check keeps the shape.
LEMMA StartShape ==
    ASSUME Shape, NEW c \in Clients, Start(c)
    PROVE  Shape'
<1>0. FilesOK /\ CachesOK /\ ClientsOK /\ LocksOK /\ ToldOK /\ LivesOK
  BY DEF Shape
<1>1. /\ pc[c] = "queued" /\ lock' = lock
      /\ (pc' = [pc EXCEPT ![c] = "started"] /\ op' = op /\ reply' = reply) \/ Idle(c)
      /\ file' = file /\ present' = present /\ disk' = disk /\ cache' = cache /\ life' = life
      /\ sealed' = sealed
      /\ acked' = acked /\ stored' = stored /\ cursor' = cursor /\ seen' = seen
  BY DEF Start, told
<1>2. /\ ClientsOK' /\ pc'[c] \in {"started", "idle"}
      /\ \A d \in Clients : d # c => pc'[d] = pc[d] /\ op'[d] = op[d]
  <2>1. CASE pc' = [pc EXCEPT ![c] = "started"] /\ op' = op /\ reply' = reply
    BY <1>0, <1>1, <2>1 DEF ClientsOK, Places
  <2>2. CASE Idle(c)
    BY <1>0, <1>1, <2>2, IdleSpec
  <2>. QED
    BY <1>1, <2>1, <2>2
<1>3. ReadyOK' /\ LocksOK'
  BY <1>1, <1>2, OutsideShape
<1>4. FilesOK' /\ CachesOK' /\ ToldOK' /\ LivesOK'
  BY <1>0, <1>1 DEF FilesOK, CachesOK, ToldOK, LivesOK
<1>. QED
  BY <1>2, <1>3, <1>4 DEF Shape

\* What an answer carries.
LEMMA ReplySpec ==
    ASSUME NEW a \in Replies
    PROVE  /\ a.is = "receipt" => a.receipt \in Receipt
           /\ a.is = "stored" => a.event \in Events
           /\ a.is = "page" => a.cursor \in Nat /\ a.events \in Seq(Event)
  BY DEF Replies

\* Handing out an answer keeps the shape.
LEMMA AnswerShape ==
    ASSUME Shape, NEW c \in Clients, Answer(c)
    PROVE  Shape'
<1>. DEFINE h == HandleOf[c]
            a == reply[c]
<1>0. /\ FilesOK /\ CachesOK /\ ClientsOK /\ LocksOK /\ ToldOK /\ LivesOK
      /\ a \in Replies /\ h \in Handles
  BY JsonlAssumption DEF Shape, ClientsOK
<1>1. /\ pc[c] = "answer" /\ Idle(c) /\ lock' = lock
      /\ file' = file /\ present' = present /\ disk' = disk /\ cache' = cache
      /\ acked' = IF a.is = "receipt" THEN acked \cup {a.receipt} ELSE acked
      /\ stored' = IF a.is = "stored" THEN stored \cup {a.event} ELSE stored
      /\ cursor' = IF a.is = "page" THEN [cursor EXCEPT ![c] = a.cursor] ELSE cursor
      /\ seen' = IF a.is = "page" THEN [seen EXCEPT ![c] = @ \o a.events] ELSE seen
      /\ life' = IF op[c].is = "close" THEN [life EXCEPT ![h] = "closed"] ELSE life
      /\ sealed' = [sealed EXCEPT ![h] = @ \/ (op[c].is = "close" /\ a.is = "health")]
  BY DEF Answer
<1>2. /\ a.is = "receipt" => a.receipt \in Receipt
      /\ a.is = "stored" => a.event \in Events
      /\ a.is = "page" => a.cursor \in Nat /\ a.events \in Seq(Event)
  BY <1>0, ReplySpec
<1>. HIDE DEF a, h
<1>3. /\ ClientsOK' /\ pc'[c] = "idle"
      /\ \A d \in Clients : d # c => pc'[d] = pc[d] /\ op'[d] = op[d]
  BY <1>0, <1>1, IdleSpec
<1>4. ReadyOK' /\ LocksOK'
  BY <1>1, <1>3, OutsideShape
<1>5. FilesOK' /\ CachesOK'
  BY <1>0, <1>1 DEF FilesOK, CachesOK
<1>6. ToldOK'
  <2>1. acked' \subseteq Receipt /\ stored' \subseteq Events
    BY <1>0, <1>1, <1>2 DEF ToldOK
  <2>2. cursor' \in [Clients -> Nat]
    BY <1>0, <1>1, <1>2 DEF ToldOK
  <2>3. seen' \in [Clients -> Seq(Event)]
    <3>1. CASE a.is = "page"
      <4>1. seen' = [seen EXCEPT ![c] = seen[c] \o a.events]
        BY <1>1, <3>1
      <4>2. seen[c] \o a.events \in Seq(Event)
        BY <1>0, <1>2, <3>1, ConcatProperties DEF ToldOK
      <4>. QED
        BY <1>0, <4>1, <4>2 DEF ToldOK
    <3>2. CASE a.is # "page"
      BY <1>0, <1>1, <3>2 DEF ToldOK
    <3>. QED
      BY <3>1, <3>2
  <2>. QED
    BY <2>1, <2>2, <2>3 DEF ToldOK
<1>7. LivesOK'
  <2>1. life' \in [Handles -> {"down", "open", "closing", "closed"}]
    BY <1>0, <1>1 DEF LivesOK
  <2>2. sealed' \in [Handles -> BOOLEAN]
    <3>. DEFINE v == sealed[h] \/ (op[c].is = "close" /\ a.is = "health")
    <3>1. sealed' = [sealed EXCEPT ![h] = v]
      BY <1>1, Zenon
    <3>2. v \in BOOLEAN
      OBVIOUS
    <3>. HIDE DEF v
    <3>. QED
      BY <1>0, <3>1, <3>2 DEF LivesOK
  <2>. QED
    BY <2>1, <2>2 DEF LivesOK
<1>. QED
  BY <1>3, <1>4, <1>5, <1>6, <1>7 DEF Shape

\* Every step keeps the shape.
LEMMA ShapeNext == Shape /\ [Next]_vars => Shape'
<1>. SUFFICES ASSUME Shape, [Next]_vars PROVE Shape'
  OBVIOUS
<1>1. CASE UNCHANGED vars
  BY <1>1 DEF vars, Shape, FilesOK, CachesOK, ClientsOK, LocksOK, ToldOK, LivesOK, ReadyOK,
              Planned, Mine, Fits, Room
<1>2. CASE Next
  <2>1. ASSUME NEW h \in Handles, Open(h) \/ Crash(h) PROVE Shape'
    BY <2>1, OpenShape, CrashShape
  <2>2. ASSUME NEW c \in Clients, Lock(c) \/ Work(c) PROVE Shape'
    BY <2>2, LockShape, StartShape, LoadShape, PlanCommitShape, PlanAppendShape, ReadCommandShape,
       ReadFromShape, FlushShape, WriteHeaderShape, WriteRecordShape, WriteFailsShape, AnswerShape
       DEF Work
  <2>3. ASSUME NEW c \in Clients, NEW o \in Operations, Submit(c, o) PROVE Shape'
    BY <2>3, SubmitShape
  <2>. QED
    BY <1>2, <2>1, <2>2, <2>3, PowerFailureShape DEF Next
<1>. QED
  BY <1>1, <1>2

\* Whatever dies, tears or fails, every variable of the adapter and its file holds a
\* value of its kind.
THEOREM TypeCorrect == Spec => []TypeOK
<1>1. Shape => TypeOK
  <2>. SUFFICES ASSUME Shape PROVE TypeOK
    OBVIOUS
  <2>1. file \in Seq(Chunk) /\ disk \in Seq(Chunk) /\ present \in BOOLEAN
    BY DEF Shape, FilesOK, Fits
  <2>2. ASSUME NEW h \in Handles
        PROVE  /\ cache[h].journal \in JournalState
               /\ cache[h].offset \in Nat
               /\ <<cache[h].upgraded, cache[h].warm, cache[h].current, cache[h].uncertain>>
                      \in BOOLEAN \X BOOLEAN \X BOOLEAN \X BOOLEAN
    BY DEF Shape, CachesOK, CacheSet
  <2>. QED
    BY <2>1, <2>2 DEF TypeOK, Shape, ClientsOK, LocksOK, ToldOK, LivesOK, Places
<1>. QED
  BY <1>1, ShapeInit, ShapeNext, PTL DEF Spec

\* Mended or torn, the file never outgrows what load_delta accepts: a write is only
\* planned with room for its line, and a tail without a newline leaves room for one.
THEOREM LogWithinCapacity == Spec => []WithinCapacity
<1>1. Shape => WithinCapacity
  BY DEF Shape, FilesOK, Fits, WithinCapacity
<1>. QED
  BY <1>1, ShapeInit, ShapeNext, PTL DEF Spec

------------------------------------------------------------------------------
(* The file and what of it is durable                                        *)

\* A store that has begun: a line cut short at its end is forgiven.
Begun(k) == k.upgraded \/ k.journal.events # << >>

\* The disk holds a front of the file, and perhaps a line cut short since taken back.
OnDisk(d, f) ==
    \E n \in 0 .. Len(f) : d = SubSeq(f, 1, n) \/ d = Append(SubSeq(f, 1, n), Torn)

\* Both open, and what lies before a line cut short is durable.
Backed(f, d) ==
    /\ f \in Seq(Chunk) /\ d \in Seq(Chunk) /\ Opens(f) /\ Opens(d) /\ Begun(View(d))
    /\ OnDisk(d, f)
    /\ Ending(Recovered(f)) = "torn" => Holds(View(f), View(d))

\* A cache that is in its place, and durable once there is nothing left to catch up with.
Sane(k, f, d) ==
    /\ InPlace(k, f)
    /\ ~k.uncertain /\ k.offset = Len(f) => Holds(k, View(d))

\* From f and d to e and c nothing durable is lost and no handle is led astray.
Becomes(f, d, e, c) ==
    /\ Backed(e, c) /\ Holds(View(d), View(c))
    /\ \A k : GoodCache(k) /\ Sane(k, f, d) => Sane(k, e, c)

\* The view of a file is a good cache.
LEMMA ViewGood ==
    ASSUME NEW f \in Seq(Chunk)
    PROVE  GoodCache(View(f)) /\ Recovered(f) \in ScanSet /\ GoodCache(Recovered(f).k)
  BY RecoverSound, MovedSpec DEF View

\* What holds something that has begun has begun.
LEMMA BegunHolds ==
    ASSUME NEW k, GoodCache(k), NEW l, GoodCache(l), Begun(k), Holds(k, l)
    PROVE  Begun(l)
<1>1. k.journal.events \in Seq(Event) /\ l.journal.events \in Seq(Event)
  BY DEF GoodCache, CacheSet, JournalState
<1>2. CASE k.upgraded
  BY <1>2 DEF Begun, Holds
<1>3. CASE k.journal.events # << >>
  <2>1. Len(k.journal.events) # 0 /\ Len(k.journal.events) \in Nat /\ Len(l.journal.events) \in Nat
    BY <1>1, <1>3, EmptySeq, LenProperties
  <2>2. Len(k.journal.events) <= Len(l.journal.events)
    BY DEF Holds, Within
  <2>3. Len(l.journal.events) # 0
    BY <2>1, <2>2
  <2>4. l.journal.events # << >>
    BY <2>3
  <2>. QED
    BY <2>4 DEF Begun
<1>. QED
  BY <1>2, <1>3 DEF Begun

\* A line cut short: it follows a clean end, and hides nothing.
LEMMA TornTail ==
    ASSUME NEW g \in Seq(Chunk), Opens(Append(g, Torn))
    PROVE  /\ Opens(g) /\ Ending(Recovered(g)) = "clean" /\ View(g) = Recovered(g).k
           /\ Ending(Recovered(Append(g, Torn))) = "torn"
           /\ Recovered(Append(g, Torn)).k = Recovered(g).k
           /\ View(Append(g, Torn)) = View(g)
           /\ Recovered(g).k.offset = Len(g) /\ Len(g) \in Nat
<1>. DEFINE h == Append(g, Torn)
            s == Recovered(g)
            t == Recovered(h)
<1>1. /\ h \in Seq(Chunk) /\ Len(g) \in Nat /\ Len(h) = Len(g) + 1 /\ h[Len(g) + 1] = Torn
      /\ Torn \in Chunk /\ Torn # Newline
  BY ChunksWritten, LenProperties, AppendProperties
<1>2. SubSeq(h, 1, Len(g)) = g
  BY <1>1, Fronts
<1>3. Ending(s) = "clean" /\ t = Step(s, Torn) /\ s \in ScanSet /\ GoodCache(s.k)
  <2>. HIDE DEF h
  <2>1. Opens(h) /\ Len(g) < Len(h)
    BY <1>1 DEF h
  <2>2. /\ Ending(s) = "clean" \/ (Ending(s) = "unterminated" /\ h[Len(g) + 1] = Newline)
        /\ s \in ScanSet /\ GoodCache(s.k)
    BY <1>1, <1>2, <2>1, OpensFront
  <2>. QED
    BY <1>1, <2>2, RecoverAppend DEF h
<1>. HIDE DEF s, t
<1>4. s.line = << >> /\ ~s.bad /\ s.line \in Seq(Chunk) /\ t \in ScanSet /\ s.k \in CacheSet
  BY <1>1, <1>3, EndingSpec, RecoverSound DEF t, ScanSet
<1>5. t = [s EXCEPT !.line = Append(s.line, Torn)]
  BY <1>1, <1>3, <1>4, Zenon DEF Step
<1>6. t.line = <<Torn>> /\ t.k = s.k
  BY <1>4, <1>5 DEF ScanSet
<1>7. Ending(t) = "torn"
  <2>1. Len(t.line) = 1 /\ t.line[1] = Torn /\ t.line # << >> /\ ~Accepts(t.k, Torn)
    BY <1>6 DEF Accepts, Torn
  <2>2. Ending(t) # "corrupt"
    BY DEF Opens, t
  <2>. QED
    BY <1>4, <2>1, <2>2, EndingSpec
<1>8. Moved(s) = s.k /\ Moved(t) = t.k
  BY <1>1, <1>3, <1>4, <1>7, MovedSpec, RecoverSound DEF t
<1>9. s.k.offset = Len(g)
  BY <1>4, RecoverSound DEF Sound, s
<1>. QED
  BY <1>1, <1>3, <1>6, <1>7, <1>8, <1>9 DEF s, t, h, Opens, View

\* A line cut short where it may be opens again.
LEMMA TearOpens ==
    ASSUME NEW g \in Seq(Chunk), Ending(Recovered(g)) = "clean", Begun(View(g))
    PROVE  Append(g, Torn) \in Seq(Chunk) /\ Opens(Append(g, Torn))
<1>. DEFINE h == Append(g, Torn)
            s == Recovered(g)
            t == Recovered(h)
<1>1. Torn \in Chunk /\ Torn # Newline /\ h \in Seq(Chunk)
  BY ChunksWritten, AppendProperties
<1>2. t = Step(s, Torn) /\ s \in ScanSet /\ GoodCache(s.k) /\ t \in ScanSet
  BY <1>1, RecoverAppend, RecoverSound
<1>3. View(g) = s.k
  BY <1>2, MovedSpec DEF View
<1>. HIDE DEF s, t
<1>4. s.line = << >> /\ ~s.bad
  BY <1>2, EndingSpec DEF s
<1>5. t = [s EXCEPT !.line = Append(s.line, Torn)]
  BY <1>1, <1>2, <1>4, Zenon DEF Step
<1>6. t.line = <<Torn>> /\ t.k = s.k /\ ~t.bad
  BY <1>2, <1>4, <1>5 DEF ScanSet
<1>7. Ending(t) = "torn"
  BY <1>2, <1>3, <1>6, EndingSpec DEF Begun
<1>. QED
  BY <1>1, <1>7 DEF Opens, t

\* A file that ends in a line cut short ends in that line.
LEMMA TornEnds ==
    ASSUME NEW f \in Seq(Chunk), Ending(Recovered(f)) = "torn",
           NEW n, n = Len(f) - 1, NEW g, g = SubSeq(f, 1, n)
    PROVE  /\ n \in 0 .. Len(f) /\ n < Len(f) /\ g \in Seq(Chunk) /\ f = Append(g, Torn) /\ Len(g) = n
           /\ Recovered(f).k.offset = n
<1>. DEFINE t == Recovered(f)
            s == Recovered(g)
            x == f[Len(f)]
<1>0. Opens(f) /\ Len(f) \in Nat
  BY LenProperties DEF Opens
<1>1. t \in ScanSet /\ GoodCache(t.k) /\ t.line = <<Torn>> /\ ~t.bad
      /\ t.k.offset + Len(t.line) = Len(f) /\ t.k.offset \in 0 .. Len(f)
  BY RecoverSound, EndingSpec DEF Sound
<1>2. n = t.k.offset /\ n \in 0 .. Len(f) /\ n < Len(f) /\ n + 1 = Len(f) /\ n \in Nat
  <2>1. Len(t.line) = 1
    BY <1>1
  <2>. HIDE DEF t
  <2>. QED
    BY <1>0, <1>1, <2>1
<1>3. g \in Seq(Chunk) /\ Len(g) = n /\ f = Append(g, x)
  <2>1. SubSeq(f, 1, Len(f)) = f /\ SubSeq(f, 1, n + 1) = Append(SubSeq(f, 1, n), f[n + 1])
    BY <1>2, Fronts
  <2>. QED
    BY <1>2, <2>1, FrontSpec
<1>4. /\ Ending(s) = "clean" \/ (Ending(s) = "unterminated" /\ x = Newline)
      /\ s \in ScanSet /\ GoodCache(s.k) /\ t = Step(s, x)
  <2>1. SubSeq(f, 1, n + 1) = f /\ f[n + 1] = x
    BY <1>2, Fronts
  <2>2. /\ Ending(s) = "clean" \/ (Ending(s) = "unterminated" /\ f[n + 1] = Newline)
        /\ s \in ScanSet /\ GoodCache(s.k) /\ Recovered(SubSeq(f, 1, n + 1)) = Step(s, f[n + 1])
    BY <1>0, <1>2, OpensFront
  <2>. HIDE DEF s, x
  <2>. QED
    BY <2>1, <2>2
<1>. HIDE DEF s, t, x
<1>4a. t.line # << >>
  <2>1. Len(<<Torn>>) = 1 /\ Len(<< >>) = 0
    OBVIOUS
  <2>. QED
    BY <1>1, <2>1
<1>5. x = Torn
  <2>1. x # Newline
    <3>. SUFFICES ASSUME x = Newline PROVE FALSE
      OBVIOUS
    <3>1. CASE Ending(s) = "unterminated"
      <4>1. t.line = << >>
        BY <1>4, <3>1, EndsLine
      <4>. QED
        BY <1>4a, <4>1
    <3>2. CASE Ending(s) = "clean"
      <4>1. s.line = << >> /\ ~s.bad
        BY <1>4, <3>2, EndingSpec
      <4>2. t.line = << >>
        <5>1. Corrupt(s, t) \/ Reads(s, x, t) \/ Blank(s, x, t) \/ Ends(s, x, t) \/ Spoils(s, x, t)
          BY <1>4, StepCases
        <5>2. Blank(s, x, t) \/ Ends(s, x, t)
          BY <4>1, <5>1 DEF Corrupt, Reads, Spoils
        <5>. QED
          BY <5>2 DEF Blank, Ends
      <4>. QED
        BY <1>4a, <4>2
    <3>. QED
      BY <1>4, <3>1, <3>2
  <2>2. s.line = << >> /\ ~s.bad
    BY <1>4, <2>1, EndingSpec
  <2>3. t = [s EXCEPT !.line = Append(s.line, x)]
    BY <1>4, <2>1, <2>2, Zenon DEF Step
  <2>4. t.line = <<x>>
    BY <1>4, <2>2, <2>3 DEF ScanSet
  <2>. QED
    BY <1>1, <2>4
<1>. QED
  BY <1>2, <1>3, <1>5 DEF t

\* What the disk holds is held by the file.
LEMMA DiskWithin ==
    ASSUME NEW f, NEW d, Backed(f, d)
    PROVE  /\ Holds(View(d), View(f)) /\ Begun(View(f)) /\ f # << >>
           /\ GoodCache(View(d)) /\ GoodCache(View(f))
<1>1. /\ f \in Seq(Chunk) /\ d \in Seq(Chunk) /\ Opens(f) /\ Opens(d) /\ Begun(View(d))
  BY DEF Backed
<1>2. PICK n \in 0 .. Len(f) : d = SubSeq(f, 1, n) \/ d = Append(SubSeq(f, 1, n), Torn)
  BY DEF Backed, OnDisk
<1>. DEFINE g == SubSeq(f, 1, n)
<1>3. Opens(g) /\ Holds(View(g), View(f)) /\ g \in Seq(Chunk)
  BY <1>1, ViewGrows, FrontSpec
<1>4. View(d) = View(g)
  BY <1>1, <1>2, <1>3, TornTail
<1>5. GoodCache(View(d)) /\ GoodCache(View(f)) /\ Begun(View(f))
  BY <1>1, <1>3, <1>4, ViewGood, BegunHolds
<1>6. f # << >>
  <2>. SUFFICES ASSUME f = << >> PROVE FALSE
    OBVIOUS
  <2>1. Recovered(f).k = EmptyCache /\ Ending(Recovered(f)) = "clean"
    <3>1. Recovered(f) \in ScanSet /\ Recovered(f) = Begins(EmptyCache)
      BY <1>1, RecoverSound, RecoverNothing
    <3>2. Recovered(f).line = << >> /\ Recovered(f).bad = FALSE /\ Recovered(f).k = EmptyCache
      BY <3>1 DEF Begins
    <3>. QED
      BY <3>1, <3>2, EndingSpec
  <2>2. View(f) = EmptyCache
    <3>1. Recovered(f) \in ScanSet /\ GoodCache(Recovered(f).k)
      BY <1>1, ViewGood
    <3>2. Moved(Recovered(f)) = Recovered(f).k
      BY <2>1, <3>1, MovedSpec
    <3>. QED
      BY <2>1, <3>2 DEF View
  <2>. QED
    BY <1>5, <2>2 DEF Begun, EmptyCache, EmptyJournal
<1>. QED
  BY <1>3, <1>4, <1>5, <1>6

\* Where nothing happens nothing is lost; and one such step after another.
LEMMA BecomesSelf ==
    ASSUME NEW f, NEW d, Backed(f, d)
    PROVE  Becomes(f, d, f, d)
  BY HoldsSelf DEF Becomes

\* One such step after another is such a step.
LEMMA BecomesTransitive ==
    ASSUME NEW f, NEW d, NEW e, NEW c, NEW g, NEW b,
           Backed(f, d), Becomes(f, d, e, c), Becomes(e, c, g, b)
    PROVE  Becomes(f, d, g, b)
<1>1. GoodCache(View(d)) /\ GoodCache(View(c)) /\ GoodCache(View(b))
  BY ViewGood DEF Becomes, Backed
<1>2. Holds(View(d), View(b))
  BY <1>1, HoldsTransitive DEF Becomes
<1>. QED
  BY <1>2 DEF Becomes

\* A cache at the end of the file holds what the file does.
LEMMA AtEnd ==
    ASSUME NEW k, GoodCache(k), NEW f \in Seq(Chunk), InPlace(k, f), k.offset = Len(f)
    PROVE  /\ k.journal = View(f).journal /\ k.upgraded = View(f).upgraded
           /\ Ending(Recovered(f)) = "clean"
<1>1. SubSeq(f, 1, k.offset) = f /\ Len(f) \in Nat
  BY Fronts, LenProperties
<1>. DEFINE s == Recovered(SubSeq(f, 1, k.offset))
<1>2. /\ Ending(s) \in {"clean", "unterminated"} /\ Moved(s).journal = k.journal
      /\ Moved(s).upgraded = k.upgraded /\ Ending(s) # "unterminated"
  BY <1>1 DEF InPlace
<1>3. s = Recovered(f)
  BY <1>1
<1>. HIDE DEF s
<1>. QED
  BY <1>2, <1>3 DEF View

\* The barrier: what the processes see becomes durable.
LEMMA Synced ==
    ASSUME NEW f, NEW d, Backed(f, d)
    PROVE  Becomes(f, d, f, f)
<1>1. f \in Seq(Chunk) /\ d \in Seq(Chunk) /\ Opens(f) /\ Len(f) \in Nat
  BY LenProperties DEF Backed
<1>2. Holds(View(d), View(f)) /\ Begun(View(f))
  BY DiskWithin
<1>3. OnDisk(f, f)
  <2>1. f = SubSeq(f, 1, Len(f)) /\ Len(f) \in 0 .. Len(f)
    BY <1>1, Fronts
  <2>. QED
    BY <2>1 DEF OnDisk
<1>4. Backed(f, f)
  BY <1>1, <1>2, <1>3, HoldsSelf DEF Backed
<1>5. ASSUME NEW k, GoodCache(k), Sane(k, f, d)
      PROVE  Sane(k, f, f)
  BY <1>1, <1>5, AtEnd, HoldsSelf DEF Sane
<1>. QED
  BY <1>2, <1>4, <1>5 DEF Becomes

\* The front of a file is the front of a longer one.
LEMMA LongerFronts ==
    ASSUME NEW f \in Seq(Chunk), NEW x \in Chunk
    PROVE  /\ Append(f, x) \in Seq(Chunk) /\ Len(Append(f, x)) = Len(f) + 1 /\ Len(f) \in Nat
           /\ \A n \in 0 .. Len(f) : /\ SubSeq(Append(f, x), 1, n) = SubSeq(f, 1, n)
                                     /\ n \in 0 .. Len(Append(f, x))
           /\ SubSeq(f, 1, Len(f)) = f
<1>1. Append(f, x) \in Seq(Chunk) /\ Len(Append(f, x)) = Len(f) + 1 /\ Len(f) \in Nat
  BY LenProperties, AppendProperties
<1>. QED
  BY <1>1, Fronts

\* A chunk at the end of the file, as long as the file opens with it.
LEMMA Grown ==
    ASSUME NEW f, NEW d, Backed(f, d), NEW x \in Chunk, NEW e, e = Append(f, x), Opens(e),
           Ending(Recovered(e)) = "torn" => Holds(View(e), View(d))
    PROVE  Becomes(f, d, e, d)
<1>1. /\ f \in Seq(Chunk) /\ d \in Seq(Chunk) /\ Opens(d) /\ Begun(View(d))
      /\ e \in Seq(Chunk) /\ Len(e) = Len(f) + 1 /\ Len(f) \in Nat
      /\ \A n \in 0 .. Len(f) : SubSeq(e, 1, n) = SubSeq(f, 1, n) /\ n \in 0 .. Len(e)
  BY LongerFronts DEF Backed
<1>2. OnDisk(d, e)
  <2>1. PICK n \in 0 .. Len(f) : d = SubSeq(f, 1, n) \/ d = Append(SubSeq(f, 1, n), Torn)
    BY DEF Backed, OnDisk
  <2>2. n \in 0 .. Len(e) /\ SubSeq(e, 1, n) = SubSeq(f, 1, n)
    BY <1>1
  <2>. QED
    BY <2>1, <2>2 DEF OnDisk
<1>3. Backed(e, d)
  BY <1>1, <1>2 DEF Backed
<1>4. ASSUME NEW k, GoodCache(k), Sane(k, f, d)
      PROVE  Sane(k, e, d)
  <2>1. k.offset \in Nat /\ k.offset <= Len(f) /\ InPlace(k, f)
    BY <1>4 DEF GoodCache, CacheSet, Sane, InPlace
  <2>2. k.offset \in 0 .. Len(f) /\ k.offset < Len(e)
    BY <1>1, <2>1
  <2>3. SubSeq(e, 1, k.offset) = SubSeq(f, 1, k.offset) /\ k.offset <= Len(e)
    BY <1>1, <2>2
  <2>4. InPlace(k, e)
    BY <2>1, <2>2, <2>3 DEF InPlace
  <2>5. k.offset # Len(e)
    BY <1>1, <2>1, <2>2
  <2>. QED
    BY <2>4, <2>5 DEF Sane
<1>. QED
  BY <1>3, <1>4, HoldsSelf DEF Becomes

\* A line cut short is cut off.
LEMMA CutOff ==
    ASSUME NEW f, NEW d, Backed(f, d), Ending(Recovered(f)) = "torn",
           NEW g, g = SubSeq(f, 1, Len(f) - 1)
    PROVE  /\ Becomes(f, d, g, d) /\ Ending(Recovered(g)) = "clean" /\ View(g) = View(f)
           /\ g = SubSeq(f, 1, Recovered(f).k.offset) /\ Len(g) = Recovered(f).k.offset
           /\ Moved(Recovered(f)).offset = Len(g) /\ Len(f) = Len(g) + 1 /\ Len(g) \in Nat
<1>1. /\ f \in Seq(Chunk) /\ d \in Seq(Chunk) /\ Opens(f) /\ Opens(d) /\ Begun(View(d))
      /\ Holds(View(f), View(d))
  BY DEF Backed
<1>2. /\ g \in Seq(Chunk) /\ f = Append(g, Torn) /\ Len(g) = Len(f) - 1
      /\ Recovered(f).k.offset = Len(f) - 1 /\ Torn \in Chunk
  <2>. DEFINE m == Len(f) - 1
  <2>1. m = Len(f) - 1 /\ g = SubSeq(f, 1, m)
    OBVIOUS
  <2>. HIDE DEF m
  <2>2. g \in Seq(Chunk) /\ f = Append(g, Torn) /\ Len(g) = m /\ Recovered(f).k.offset = m
    BY <1>1, <2>1, TornEnds
  <2>. QED
    BY <2>1, <2>2, ChunksWritten
<1>3. /\ Opens(g) /\ Ending(Recovered(g)) = "clean" /\ View(f) = View(g)
  BY <1>1, <1>2, TornTail
<1>4. /\ Len(f) = Len(g) + 1 /\ Len(g) \in Nat /\ SubSeq(g, 1, Len(g)) = g
      /\ \A n \in 0 .. Len(g) : SubSeq(f, 1, n) = SubSeq(g, 1, n)
  BY <1>2, LongerFronts
<1>5. OnDisk(d, g)
  <2>1. PICK n \in 0 .. Len(f) : d = SubSeq(f, 1, n) \/ d = Append(SubSeq(f, 1, n), Torn)
    BY DEF Backed, OnDisk
  <2>2. CASE n \in 0 .. Len(g)
    <3>1. SubSeq(f, 1, n) = SubSeq(g, 1, n)
      BY <1>4, <2>2
    <3>. QED
      BY <2>1, <2>2, <3>1 DEF OnDisk
  <2>3. CASE n = Len(f)
    <3>1. SubSeq(f, 1, n) = f
      BY <1>1, <2>3, Fronts
    <3>2. d # Append(f, Torn)
      <4>1. Ending(Recovered(f)) # "clean"
        OBVIOUS
      <4>. QED
        BY <1>1, <4>1, TornTail
    <3>3. d = Append(SubSeq(g, 1, Len(g)), Torn)
      BY <1>2, <1>4, <2>1, <3>1, <3>2
    <3>4. Len(g) \in 0 .. Len(g)
      BY <1>4
    <3>. QED
      BY <3>3, <3>4 DEF OnDisk
  <2>4. n \in 0 .. Len(g) \/ n = Len(f)
    BY <1>4
  <2>. QED
    BY <2>2, <2>3, <2>4
<1>6. Backed(g, d)
  BY <1>1, <1>2, <1>3, <1>5 DEF Backed
<1>7. ASSUME NEW k, GoodCache(k), Sane(k, f, d)
      PROVE  Sane(k, g, d)
  <2>1. k.offset \in Nat /\ k.offset <= Len(f) /\ InPlace(k, f)
    BY <1>7 DEF GoodCache, CacheSet, Sane, InPlace
  <2>2. k.offset # Len(f)
    BY <1>1, <1>7, <2>1, AtEnd
  <2>3. k.offset \in 0 .. Len(g) /\ k.offset <= Len(g)
    BY <1>4, <2>1, <2>2
  <2>. DEFINE s == Recovered(SubSeq(f, 1, k.offset))
              t == Recovered(SubSeq(g, 1, k.offset))
  <2>4. s = t
    BY <1>4, <2>3
  <2>5. /\ Ending(s) \in {"clean", "unterminated"} /\ Moved(s).journal = k.journal
        /\ Moved(s).upgraded = k.upgraded
    BY <2>1 DEF InPlace
  <2>6. k.offset = Len(g) => t = Recovered(g)
    BY <1>4
  <2>. HIDE DEF s, t
  <2>7. Ending(t) = "unterminated" => k.offset < Len(g)
    BY <1>3, <1>4, <2>3, <2>6
  <2>8. InPlace(k, g)
    BY <2>3, <2>4, <2>5, <2>7 DEF InPlace, t
  <2>9. k.offset = Len(g) => Holds(k, View(d))
    <3>. SUFFICES ASSUME k.offset = Len(g) PROVE Holds(k, View(d))
      OBVIOUS
    <3>1. k.journal = View(f).journal /\ k.upgraded = View(f).upgraded
      BY <1>2, <1>3, <1>7, <2>8, AtEnd
    <3>. QED
      BY <1>1, <3>1 DEF Holds
  <2>. QED
    BY <2>8, <2>9 DEF Sane
<1>8. Becomes(f, d, g, d)
  BY <1>6, <1>7, HoldsSelf DEF Becomes
<1>9. Moved(Recovered(f)) = Recovered(f).k
  BY <1>1, MovedSpec, ViewGood
<1>. QED
  BY <1>2, <1>3, <1>4, <1>8, <1>9

\* A last line that lacks its newline gets it.
LEMMA LineEnded ==
    ASSUME NEW f, NEW d, Backed(f, d), Ending(Recovered(f)) = "unterminated",
           NEW e, e = Append(f, Newline)
    PROVE  /\ Becomes(f, d, e, d) /\ Ending(Recovered(e)) = "clean" /\ Len(e) = Len(f) + 1
           /\ View(e).journal = View(f).journal /\ View(e).upgraded = View(f).upgraded
           /\ View(f).offset = Len(f)
<1>. DEFINE s == Recovered(f)
            t == Recovered(e)
<1>1. f \in Seq(Chunk) /\ Newline \in Chunk /\ e \in Seq(Chunk) /\ Len(e) = Len(f) + 1 /\ Len(f) \in Nat
  BY LongerFronts, ChunksWritten DEF Backed
<1>2. /\ t = Step(s, Newline) /\ s \in ScanSet /\ GoodCache(s.k) /\ t \in ScanSet /\ GoodCache(t.k)
      /\ Sound(EmptyCache, f, s)
  BY <1>1, RecoverAppend, RecoverSound
<1>. HIDE DEF s, t
<1>3. Ending(s) = "unterminated"
  BY DEF s
<1>4. /\ ~t.bad /\ t.line = << >> /\ t.k.journal = Moved(s).journal /\ t.k.upgraded = Moved(s).upgraded
      /\ t.k.offset = Moved(s).offset + 1
  BY <1>2, <1>3, EndsLine
<1>5. Ending(t) = "clean" /\ Moved(t) = t.k
  BY <1>2, <1>4, EndingSpec, MovedSpec
<1>6. Opens(e) /\ Ending(Recovered(e)) # "torn"
  BY <1>5 DEF Opens, t
<1>7. Becomes(f, d, e, d)
  BY <1>1, <1>6, Grown
<1>8. Moved(s).offset = Len(f)
  <2>1. ~s.bad /\ Len(s.line) = 1 /\ Moved(s).offset = s.k.offset + 1
    BY <1>2, <1>3, EndingSpec, MovedSpec
  <2>2. s.k.offset + Len(s.line) = Len(f)
    BY <1>2, <2>1 DEF Sound
  <2>. QED
    BY <2>1, <2>2
<1>. QED
  BY <1>1, <1>4, <1>5, <1>7, <1>8 DEF s, t, View

\* A record after the end of the last line, whole but for its newline, or with it.
LEMMA RecordWritten ==
    ASSUME NEW f, NEW d, Backed(f, d), Ending(Recovered(f)) = "clean", NEW x \in Chunk,
           Accepts(Recovered(f).k, x), NEW e, e = Append(f, x)
    PROVE  /\ Becomes(f, d, e, d) /\ Ending(Recovered(e)) = "unterminated"
           /\ View(e).journal = Accept(Recovered(f).k, x).journal
           /\ View(e).upgraded = Accept(Recovered(f).k, x).upgraded
<1>. DEFINE s == Recovered(f)
            t == Recovered(e)
<1>1. f \in Seq(Chunk) /\ e \in Seq(Chunk) /\ x # Newline
  BY LongerFronts, ChunkType DEF Backed, Accepts, Newline
<1>2. /\ t = Step(s, x) /\ s \in ScanSet /\ GoodCache(s.k) /\ t \in ScanSet
  BY <1>1, RecoverAppend, RecoverSound
<1>. HIDE DEF s, t
<1>3. s.line = << >> /\ ~s.bad
  BY <1>2, EndingSpec DEF s
<1>4. t = [s EXCEPT !.line = Append(s.line, x)]
  BY <1>1, <1>2, <1>3, Zenon DEF Step
<1>5. t.line = <<x>> /\ t.k = s.k /\ ~t.bad
  BY <1>2, <1>3, <1>4 DEF ScanSet
<1>6. t.line # << >> /\ Len(t.line) = 1 /\ t.line[1] = x
  BY <1>5
<1>7. Accepts(t.k, t.line[1])
  BY <1>5, <1>6 DEF s
<1>8. Ending(t) = "unterminated"
  BY <1>2, <1>5, <1>6, <1>7, EndingSpec
<1>9. /\ Moved(t).journal = Accept(s.k, x).journal
      /\ Moved(t).upgraded = Accept(s.k, x).upgraded
  BY <1>2, <1>5, <1>6, <1>8, MovedSpec
<1>10. Opens(e) /\ Ending(Recovered(e)) # "torn"
  BY <1>8 DEF Opens, t
<1>11. Becomes(f, d, e, d)
  BY <1>1, <1>10, Grown
<1>. QED
  BY <1>8, <1>9, <1>11 DEF s, t, View

\* A record cut short there.
LEMMA RecordTorn ==
    ASSUME NEW f, NEW d, Backed(f, d), Ending(Recovered(f)) = "clean", Holds(View(f), View(d))
    PROVE  Becomes(f, d, Append(f, Torn), d)
<1>. DEFINE e == Append(f, Torn)
<1>1. f \in Seq(Chunk) /\ Torn \in Chunk /\ Begun(View(f))
  BY ChunksWritten, DiskWithin DEF Backed
<1>2. Opens(e)
  BY <1>1, TearOpens
<1>3. View(e) = View(f)
  BY <1>1, <1>2, TornTail
<1>. QED
  BY <1>1, <1>2, <1>3, Grown

\* A power failure takes nothing that was durable, and the store opens again.
LEMMA SurvivorBacked ==
    ASSUME Backed(file, disk), NEW f \in Survivors
    PROVE  Backed(f, f) /\ Holds(View(disk), View(f))
<1>1. /\ file \in Seq(Chunk) /\ disk \in Seq(Chunk) /\ Opens(file) /\ Opens(disk) /\ Begun(View(disk))
      /\ Len(file) \in Nat /\ Len(disk) \in Nat
  BY LenProperties DEF Backed
<1>2. ASSUME NEW g \in Seq(Chunk), Opens(g), Begun(View(g))
      PROVE  Backed(g, g)
  <2>1. g = SubSeq(g, 1, Len(g)) /\ Len(g) \in 0 .. Len(g)
    BY Fronts, LenProperties
  <2>2. OnDisk(g, g)
    BY <2>1 DEF OnDisk
  <2>. QED
    BY <1>2, <2>2, HoldsSelf DEF Backed
<1>3. CASE f \in {disk, file}
  BY <1>1, <1>2, <1>3, DiskWithin, HoldsSelf
<1>4. CASE f \notin {disk, file}
  <2>1. IsPrefix(disk, file)
    BY <1>4 DEF Survivors
  <2>2. PICK n \in Len(disk) .. Len(file) :
          f \in {SubSeq(file, 1, n)} \cup
                (IF n < Len(file) /\ file[n + 1] # Newline
                 THEN {Append(SubSeq(file, 1, n), Torn)} ELSE {})
    BY <1>4, <2>1 DEF Survivors
  <2>. DEFINE g == SubSeq(file, 1, n)
  <2>3. n \in 0 .. Len(file) /\ n \in Nat /\ Len(disk) \in 0 .. Len(file) /\ Len(disk) <= n
    BY <1>1
  <2>4. g \in Seq(Chunk) /\ Len(g) = n /\ Opens(g)
    BY <1>1, <2>3, FrontSpec, ViewGrows
  <2>5. disk = SubSeq(g, 1, Len(disk)) /\ Len(disk) \in 0 .. Len(g)
    <3>1. disk = SubSeq(file, 1, Len(disk))
      BY <1>1, <2>1, Fronts DEF IsPrefix
    <3>. QED
      BY <1>1, <2>3, <2>4, <3>1, Fronts
  <2>6. Holds(View(disk), View(g)) /\ GoodCache(View(disk)) /\ GoodCache(View(g)) /\ Begun(View(g))
    BY <1>1, <2>4, <2>5, ViewGrows, BegunHolds
  <2>7. CASE f = g
    BY <1>2, <2>4, <2>6, <2>7
  <2>8. CASE n < Len(file) /\ file[n + 1] # Newline /\ f = Append(g, Torn)
    <3>1. Ending(Recovered(g)) = "clean"
      BY <1>1, <2>3, <2>8, OpensFront
    <3>2. f \in Seq(Chunk) /\ Opens(f)
      BY <2>4, <2>6, <2>8, <3>1, TearOpens
    <3>3. View(f) = View(g)
      BY <2>4, <2>8, <3>2, TornTail
    <3>. QED
      BY <1>2, <2>6, <3>2, <3>3
  <2>9. f = g \/ (n < Len(file) /\ file[n + 1] # Newline /\ f = Append(g, Torn))
    BY <2>2
  <2>. QED
    BY <2>7, <2>8, <2>9
<1>. QED
  BY <1>3, <1>4

------------------------------------------------------------------------------
(* A load loses nothing                                                      *)

\* An operation may run on the cache: it is at the end of the file, and durable.
AtHand(k, f, d) ==
    /\ k.offset = Len(f) /\ InPlace(k, f) /\ Holds(k, View(d))

\* A cache at the clean end of a file, with what the file holds, is in its place.
LEMMA PlacedAtEnd ==
    ASSUME NEW f \in Seq(Chunk), Ending(Recovered(f)) = "clean", NEW k, k.offset = Len(f),
           k.journal = View(f).journal, k.upgraded = View(f).upgraded
    PROVE  InPlace(k, f)
<1>1. SubSeq(f, 1, k.offset) = f /\ Len(f) \in Nat
  BY Fronts, LenProperties
<1>. DEFINE s == Recovered(SubSeq(f, 1, k.offset))
<1>2. s = Recovered(f)
  BY <1>1
<1>. HIDE DEF s
<1>3. /\ Ending(s) = "clean" /\ Moved(s).journal = k.journal /\ Moved(s).upgraded = k.upgraded
  BY <1>2 DEF View
<1>. QED
  BY <1>1, <1>3 DEF InPlace, s

\* It stays there when the file grows.
LEMMA PlacedBefore ==
    ASSUME NEW f \in Seq(Chunk), NEW k, GoodCache(k), InPlace(k, f), NEW x \in Chunk
    PROVE  InPlace(k, Append(f, x)) /\ k.offset < Len(Append(f, x))
<1>. DEFINE e == Append(f, x)
<1>1. k.offset \in Nat /\ k.offset <= Len(f)
  BY DEF GoodCache, CacheSet, InPlace
<1>2. Len(e) = Len(f) + 1 /\ Len(f) \in Nat /\ \A n \in 0 .. Len(f) : SubSeq(e, 1, n) = SubSeq(f, 1, n)
  BY LongerFronts
<1>. HIDE DEF e
<1>3. SubSeq(e, 1, k.offset) = SubSeq(f, 1, k.offset) /\ k.offset < Len(e) /\ k.offset <= Len(e)
  BY <1>1, <1>2
<1>4. InPlace(k, e)
  BY <1>3 DEF InPlace
<1>. QED
  BY <1>3, <1>4 DEF e

\* The repair of a tail, on its way to the disk or there.
LEMMA MendMoves ==
    ASSUME Backed(file, disk), NEW s \in ScanSet, GoodCache(s.k), Same(s, Recovered(file)),
           NEW m, m = Mended(s), NEW d, d \in {disk, m}
    PROVE  /\ Becomes(file, disk, m, d) /\ Ending(Recovered(m)) = "clean"
           /\ View(m).journal = Moved(s).journal /\ View(m).upgraded = Moved(s).upgraded
           /\ Ending(s) = "clean" => m = file /\ s.k.offset = Len(file)
           /\ Ending(s) # "clean" => m # file
           /\ Ending(s) = "torn" =>
                /\ file = Append(m, Torn) /\ Moved(s).offset = Len(m) /\ Holds(View(m), View(disk))
           /\ Ending(s) = "unterminated" => m = Append(file, Newline) /\ Moved(s).offset = Len(file)
<1>. DEFINE t == Recovered(file)
<1>1. file \in Seq(Chunk) /\ Len(file) \in Nat /\ Opens(file)
  BY LenProperties DEF Backed
<1>2. /\ t \in ScanSet /\ GoodCache(t.k) /\ Sound(EmptyCache, file, t)
  BY <1>1, RecoverSound
<1>3. Ending(s) = Ending(t) /\ Alike(Moved(s), Moved(t)) /\ s.k.offset = t.k.offset
  BY <1>2, SameEnding DEF Same, Alike
<1>4. Ending(t) \in {"clean", "torn", "unterminated"}
  BY <1>1, <1>2, EndingSpec DEF Opens
<1>5. /\ Moved(s).journal = View(file).journal /\ Moved(s).upgraded = View(file).upgraded
      /\ Moved(s).offset = View(file).offset
  BY <1>3 DEF Alike, View
<1>. HIDE DEF t
<1>6. s.k.offset <= Len(file)
  BY <1>2, <1>3 DEF Sound
<1>7. /\ m \in Seq(Chunk)
      /\ Ending(s) = "torn" => m = SubSeq(file, 1, s.k.offset)
      /\ Ending(s) = "unterminated" => m = Append(file, Newline)
      /\ Ending(s) = "clean" => m = file
  BY <1>1, <1>6, MendedSpec
<1>. DEFINE P == /\ Becomes(file, disk, m, disk) /\ Ending(Recovered(m)) = "clean"
                 /\ View(m).journal = View(file).journal /\ View(m).upgraded = View(file).upgraded
                 /\ Ending(s) = "clean" => m = file /\ s.k.offset = Len(file)
                 /\ Ending(s) # "clean" => m # file
                 /\ Ending(s) = "torn" => /\ file = Append(m, Torn) /\ Moved(s).offset = Len(m)
                                          /\ Holds(View(m), View(disk))
                 /\ Ending(s) = "unterminated" =>
                      m = Append(file, Newline) /\ Moved(s).offset = Len(file)
<1>8. ASSUME Ending(s) = "clean" PROVE P
  <2>1. m = file
    BY <1>7, <1>8
  <2>2. t.line = << >> /\ ~t.bad /\ Len(t.line) = 0
    <3>1. t.line = << >> /\ ~t.bad
      BY <1>2, <1>3, <1>8, EndingSpec
    <3>. QED
      BY <3>1
  <2>3. t.k.offset = Len(file)
    <3>1. t.k.offset \in Nat
      BY <1>2 DEF GoodCache, CacheSet
    <3>. QED
      BY <1>2, <2>2, <3>1 DEF Sound
  <2>. QED
    BY <1>3, <1>8, <2>1, <2>3, BecomesSelf DEF t
<1>9. ASSUME Ending(s) = "torn" PROVE P
  <2>. DEFINE g == SubSeq(file, 1, Len(file) - 1)
  <2>1. Ending(Recovered(file)) = "torn"
    BY <1>3, <1>9 DEF t
  <2>2. /\ Becomes(file, disk, g, disk) /\ Ending(Recovered(g)) = "clean" /\ View(g) = View(file)
        /\ g = SubSeq(file, 1, t.k.offset) /\ Len(g) = t.k.offset
        /\ Moved(t).offset = Len(g) /\ Len(file) = Len(g) + 1 /\ Len(g) \in Nat
    BY <2>1, CutOff DEF t
  <2>3. m = g
    BY <1>3, <1>7, <1>9, <2>2
  <2>4. file = Append(g, Torn)
    <3>. DEFINE n == Len(file) - 1
    <3>1. n = Len(file) - 1 /\ g = SubSeq(file, 1, n)
      OBVIOUS
    <3>. HIDE DEF n, g
    <3>. QED
      BY <1>1, <2>1, <3>1, TornEnds
  <2>5. Moved(s).offset = Len(g)
    BY <1>3, <2>2 DEF Alike
  <2>7. Holds(View(file), View(disk))
    BY <2>1 DEF Backed
  <2>. HIDE DEF g
  <2>6. Len(m) # Len(file)
    <3>1. \A n \in Nat : n # n + 1
      OBVIOUS
    <3>. QED
      BY <2>2, <2>3, <3>1, Zenon
  <2>. QED
    BY <1>9, <2>2, <2>3, <2>4, <2>5, <2>6, <2>7
<1>10. ASSUME Ending(s) = "unterminated" PROVE P
  <2>1. Ending(Recovered(file)) = "unterminated"
    BY <1>3, <1>10 DEF t
  <2>2. m = Append(file, Newline)
    BY <1>7, <1>10
  <2>3. /\ Becomes(file, disk, m, disk) /\ Ending(Recovered(m)) = "clean" /\ Len(m) = Len(file) + 1
        /\ View(m).journal = View(file).journal /\ View(m).upgraded = View(file).upgraded
        /\ View(file).offset = Len(file)
    BY <2>1, <2>2, LineEnded
  <2>4. Len(m) # Len(file)
    BY <1>1, <2>3
  <2>. QED
    BY <1>5, <1>10, <2>2, <2>3, <2>4
<1>11. P
  BY <1>3, <1>4, <1>8, <1>9, <1>10
<1>12. Becomes(file, disk, m, d)
  <2>1. Becomes(file, disk, m, disk)
    BY <1>11
  <2>2. Becomes(m, disk, m, m)
    BY <2>1, Synced DEF Becomes
  <2>3. Becomes(file, disk, m, m)
    BY <2>1, <2>2, BecomesTransitive
  <2>. QED
    BY <2>1, <2>3
<1>. QED
  BY <1>5, <1>11, <1>12

\* load_delta from where the cache is: nothing durable is lost, no handle is led astray,
\* and an operation that may run has durable facts at hand.
LEMMA ReplayMoves ==
    ASSUME Backed(file, disk), NEW k, GoodCache(k), Sane(k, file, disk),
           NEW r \in Replay(k), r.fault # "newline"
    PROVE  /\ Becomes(file, disk, r.file, r.disk)
           /\ Sane(r.cache, r.file, r.disk)
           /\ r.ok => AtHand(r.cache, r.file, r.disk)
           /\ Ending(Recovered(file)) = "clean" => r.file = file
<1>. DEFINE s == Scan(k, file)
            m == Mended(s)
<1>1. /\ file \in Seq(Chunk) /\ Len(file) \in Nat /\ Opens(file) /\ InPlace(k, file)
      /\ k.offset <= Len(file) /\ k.offset \in Nat
  BY LenProperties DEF Backed, Sane, InPlace, GoodCache, CacheSet
<1>2. /\ Replayed(k, s, r) /\ s \in ScanSet /\ GoodCache(s.k) /\ s.k.offset <= Len(file)
  BY <1>1, ReplaySpec
<1>3. Same(s, Recovered(file)) /\ Ending(s) = Ending(Recovered(file))
  BY <1>1, Resumes
<1>4. Ending(s) \in {"clean", "torn", "unterminated"}
  BY <1>1, <1>2, <1>3, EndingSpec DEF Opens
<1>. HIDE DEF s
<1>5. /\ \A d \in {disk, m} : Becomes(file, disk, m, d)
      /\ Ending(Recovered(m)) = "clean"
      /\ View(m).journal = Moved(s).journal /\ View(m).upgraded = Moved(s).upgraded
      /\ Ending(s) = "clean" => m = file /\ s.k.offset = Len(file)
      /\ Ending(s) # "clean" => m # file
      /\ Ending(s) = "torn" =>
           /\ file = Append(m, Torn) /\ Moved(s).offset = Len(m) /\ Holds(View(m), View(disk))
      /\ Ending(s) = "unterminated" => m = Append(file, Newline) /\ Moved(s).offset = Len(file)
  BY <1>2, <1>3, MendMoves
<1>. HIDE DEF m
<1>6. m \in Seq(Chunk) /\ Len(m) \in Nat
  BY <1>5, LenProperties DEF Becomes, Backed
<1>7. /\ GoodCache(r.cache) /\ r.cache.journal = View(m).journal /\ r.cache.upgraded = View(m).upgraded
      /\ IsDone(k, s, r) \/ IsCorrupt(s, r) \/ IsUnmended(s, r) \/ IsUnsynced(s, r)
  BY <1>2, <1>5 DEF Replayed
<1>8. r.cache.offset = Len(m) => InPlace(r.cache, m)
  BY <1>5, <1>6, <1>7, PlacedAtEnd
<1>. DEFINE P == /\ Becomes(file, disk, r.file, r.disk)
                 /\ Sane(r.cache, r.file, r.disk)
                 /\ r.ok => AtHand(r.cache, r.file, r.disk)
                 /\ Ending(s) = "clean" => r.file = file
<1>9. ASSUME IsDone(k, s, r) PROVE P
  <2>1. r.file = m /\ r.cache.offset = Len(m) /\ r.disk \in {disk, m}
    BY <1>9 DEF IsDone, m
  <2>2. InPlace(r.cache, m) /\ Becomes(file, disk, m, r.disk)
    BY <1>5, <1>8, <2>1
  <2>3. CASE r.disk = r.file
    <3>1. Holds(r.cache, View(r.disk))
      BY <1>7, <2>1, <2>3, HoldsSelf
    <3>. QED
      BY <1>5, <2>1, <2>2, <3>1 DEF Sane, AtHand
  <2>4. CASE r.disk = disk /\ s.k.offset = k.offset /\ r.file = file /\ ~k.uncertain
    <3>1. m = file /\ k.offset = Len(file)
      BY <1>5, <2>1, <2>4
    <3>2. k.journal = View(file).journal /\ k.upgraded = View(file).upgraded
      BY <1>1, <3>1, AtEnd
    <3>3. Holds(k, View(disk))
      BY <2>4, <3>1 DEF Sane
    <3>4. Holds(r.cache, View(disk))
      BY <1>7, <3>1, <3>2, <3>3 DEF Holds
    <3>. QED
      BY <1>5, <2>1, <2>2, <2>4, <3>4 DEF Sane, AtHand
  <2>. QED
    BY <1>9, <2>3, <2>4 DEF IsDone
<1>10. ASSUME IsUnsynced(s, r) PROVE P
  <2>1. r.file = m /\ r.cache.offset = Len(m) /\ r.cache.uncertain /\ ~r.ok /\ r.disk \in {disk, m}
    BY <1>10 DEF IsUnsynced, m
  <2>. QED
    BY <1>5, <1>8, <2>1 DEF Sane
<1>11. ASSUME IsUnmended(s, r), Ending(s) = "torn" PROVE P
  <2>1. /\ ~r.ok /\ r.cache.offset = Len(m) /\ r.disk \in {disk, r.file}
        /\ (r.file = file /\ r.disk = disk) \/ r.file = m
    BY <1>5, <1>11 DEF IsUnmended, m
  <2>2. InPlace(r.cache, m)
    BY <1>8, <2>1
  <2>3. CASE r.file = file /\ r.disk = disk
    <3>1. InPlace(r.cache, file) /\ r.cache.offset < Len(file)
      BY <1>5, <1>6, <1>7, <1>11, <2>2, PlacedBefore, ChunksWritten
    <3>2. r.cache.offset # Len(file)
      BY <1>1, <1>6, <2>1, <3>1
    <3>. QED
      BY <1>11, <2>1, <2>3, <3>1, <3>2, BecomesSelf DEF Sane
  <2>4. CASE r.file = m
    <3>1. Holds(r.cache, View(m)) /\ Holds(r.cache, View(disk))
      BY <1>5, <1>7, <1>11, HoldsSelf DEF Holds
    <3>2. Holds(r.cache, View(r.disk))
      BY <2>1, <2>4, <3>1
    <3>. QED
      BY <1>5, <1>11, <2>1, <2>2, <2>4, <3>2 DEF Sane
  <2>. QED
    BY <2>1, <2>3, <2>4
<1>12. ASSUME IsUnmended(s, r), Ending(s) = "unterminated" PROVE P
  <2>1. /\ ~r.ok /\ r.cache.offset = Len(file) /\ r.disk \in {disk, m} /\ r.file = m
    BY <1>5, <1>12 DEF IsUnmended, m
  <2>2. m = Append(file, Newline) /\ Len(m) = Len(file) + 1 /\ SubSeq(m, 1, Len(file)) = file
    BY <1>1, <1>5, <1>12, LongerFronts, ChunksWritten
  <2>3. r.cache.offset < Len(m) /\ r.cache.offset # Len(m) /\ r.cache.offset <= Len(m)
    <3>1. \A n \in Nat : n < n + 1 /\ n # n + 1 /\ n <= n + 1
      OBVIOUS
    <3>. QED
      BY <1>1, <2>1, <2>2, <3>1, Zenon
  <2>4. /\ r.cache.journal = View(file).journal /\ r.cache.upgraded = View(file).upgraded
    <3>1. Alike(Moved(s), View(file))
      BY <1>1, Resumes DEF s
    <3>. QED
      BY <1>5, <1>7, <3>1 DEF Alike
  <2>5. InPlace(r.cache, m)
    <3>. DEFINE t == Recovered(SubSeq(m, 1, r.cache.offset))
    <3>1. t = Recovered(file)
      BY <2>1, <2>2
    <3>. HIDE DEF t
    <3>2. /\ Ending(t) = "unterminated" /\ Moved(t).journal = r.cache.journal
          /\ Moved(t).upgraded = r.cache.upgraded
      BY <1>3, <1>12, <2>4, <3>1 DEF View
    <3>. QED
      BY <2>3, <3>2 DEF InPlace, t
  <2>. QED
    BY <1>5, <1>12, <2>1, <2>3, <2>5 DEF Sane
<1>13. P
  <2>1. ~IsCorrupt(s, r)
    BY <1>4 DEF IsCorrupt
  <2>2. IsUnmended(s, r) => Ending(s) = "torn" \/ Ending(s) = "unterminated"
    BY DEF IsUnmended
  <2>. QED
    BY <1>7, <1>9, <1>10, <1>11, <1>12, <2>1, <2>2
<1>. QED
  BY <1>3, <1>13

\* A handle that has read nothing is in its place in any file.
LEMMA EmptyCacheSane ==
    ASSUME NEW f \in Seq(Chunk), NEW d \in Seq(Chunk)
    PROVE  Sane(EmptyCache, f, d)
<1>1. EmptyCache.offset = 0 /\ Len(f) \in Nat /\ SubSeq(f, 1, 0) = << >>
  BY EmptyCacheGood, LenProperties, Fronts
<1>. DEFINE s == Recovered(SubSeq(f, 1, EmptyCache.offset))
<1>2. s = Begins(EmptyCache)
  BY <1>1, RecoverNothing
<1>3. s \in ScanSet /\ GoodCache(s.k)
  <2>1. << >> \in Seq(Chunk)
    OBVIOUS
  <2>2. SubSeq(f, 1, EmptyCache.offset) \in Seq(Chunk)
    BY <1>1, <2>1
  <2>. QED
    BY <2>2, RecoverSound
<1>. HIDE DEF s
<1>4. s.line = << >> /\ s.bad = FALSE /\ s.k = EmptyCache
  BY <1>2 DEF Begins
<1>5. Ending(s) = "clean" /\ Moved(s) = EmptyCache
  BY <1>3, <1>4, EndingSpec, MovedSpec
<1>6. InPlace(EmptyCache, f)
  BY <1>1, <1>5 DEF InPlace, s
<1>7. Holds(EmptyCache, View(d))
  <2>1. View(d).journal \in JournalState
    BY ViewGood DEF GoodCache, CacheSet
  <2>2. Len(View(d).journal.events) \in Nat /\ Len(View(d).journal.boundaries) \in Nat
    BY <2>1, LenProperties DEF JournalState
  <2>3. /\ EmptyCache.journal.events = << >> /\ EmptyCache.journal.boundaries = << >>
        /\ \A c \in Commands : EmptyCache.journal.commands[c] = NoReceipt
        /\ ~EmptyCache.upgraded
    BY DEF EmptyCache, EmptyJournal
  <2>4. Len(EmptyCache.journal.events) = 0 /\ Len(EmptyCache.journal.boundaries) = 0
    BY <2>3
  <2>. QED
    BY <2>2, <2>3, <2>4 DEF Holds, Within
<1>. QED
  BY <1>6, <1>7 DEF Sane

\* The flags that a write by another handle changes do not matter.
LEMMA SaneAlike ==
    ASSUME NEW k, NEW l, Alike(k, l), k.uncertain = l.uncertain, NEW f, NEW d
    PROVE  Sane(k, f, d) => Sane(l, f, d)
<1>1. k.journal = l.journal /\ k.upgraded = l.upgraded /\ k.offset = l.offset
  BY DEF Alike
<1>2. InPlace(k, f) => InPlace(l, f)
  BY <1>1, Zenon DEF InPlace
<1>3. Holds(k, View(d)) => Holds(l, View(d))
  BY <1>1, Zenon DEF Holds
<1>. QED
  BY <1>1, <1>2, <1>3, Zenon DEF Sane

\* Whatever opening the file and load_delta do, nothing durable is lost, no handle is led
\* astray, and an operation that may run has durable facts at hand.
LEMMA LoadMoves ==
    ASSUME Backed(file, disk), present \/ file = << >>,
           NEW k, GoodCache(k), Sane(k, file, disk), NEW r \in Loads(k), r.fault # "newline"
    PROVE  /\ Becomes(file, disk, r.file, r.disk)
           /\ Sane(r.cache, r.file, r.disk)
           /\ r.ok => AtHand(r.cache, r.file, r.disk)
<1>1. file \in Seq(Chunk) /\ disk \in Seq(Chunk) /\ file # << >>
  BY DiskWithin DEF Backed
<1>. DEFINE P == /\ Becomes(file, disk, r.file, r.disk)
                 /\ Sane(r.cache, r.file, r.disk)
                 /\ r.ok => AtHand(r.cache, r.file, r.disk)
<1>2. ASSUME Refuses(k, r) PROVE P
  BY <1>2, BecomesSelf DEF Refuses
<1>3. ASSUME Absent(k, r) PROVE P
  BY <1>1, <1>3 DEF Absent
<1>4. ASSUME Catches(k, r) PROVE P
  BY <1>4, ReplayMoves DEF Catches
<1>5. ASSUME Verifies(k, r) PROVE P
  <2>1. PICK q \in Replay(EmptyCache) :
          /\ present /\ r.file = q.file /\ r.disk = q.disk /\ r.fault = q.fault
          /\ Len(file) = k.offset
          /\ \/ r.cache = q.cache /\ r.ok = TRUE /\ q.ok /\ q.cache.offset = k.offset
             \/ r.cache = k /\ r.ok = FALSE
    BY <1>5 DEF Verifies
  <2>2. Ending(Recovered(file)) = "clean"
    BY <1>1, <2>1, AtEnd DEF Sane
  <2>3. GoodCache(EmptyCache) /\ Sane(EmptyCache, file, disk)
    BY <1>1, EmptyCacheGood, EmptyCacheSane
  <2>4. /\ Becomes(file, disk, q.file, q.disk) /\ Sane(q.cache, q.file, q.disk)
        /\ q.ok => AtHand(q.cache, q.file, q.disk)
        /\ q.file = file
    BY <2>1, <2>2, <2>3, ReplayMoves
  <2>5. Sane(k, q.file, q.disk)
    BY <2>4 DEF Becomes
  <2>. QED
    BY <2>1, <2>4, <2>5
<1>. QED
  BY <1>1, <1>2, <1>3, <1>4, <1>5, LoadsSpec

------------------------------------------------------------------------------
(* What callers were told                                                    *)

\* What an answer says, and the journal j bears out.
Recorded(r, j) == j.commands[r.command] = r
Kept(e, j) == \E f \in EventSet(j.events) : SameFact(e, f)
Shown(es, n, j) == n <= Len(j.events) /\ es = SubSeq(j.events, 1, n) /\ IsBoundary(j, n)

Answered(a, es, j) ==
    /\ a.is = "receipt" => Recorded(a.receipt, j)
    /\ a.is = "stored" => Kept(a.event, j)
    /\ a.is = "page" => Shown(es \o a.events, a.cursor, j)

\* A journal that holds more bears it out too.
LEMMA RecordedStays ==
    ASSUME NEW i, NEW j, Within(i, j), NEW r \in Receipt, Recorded(r, i)
    PROVE  Recorded(r, j)
<1>1. r.command \in Commands /\ r # NoReceipt
  BY JournalAssumption DEF Receipt
<1>. QED
  BY <1>1 DEF Recorded, Within

\* An event that is kept stays kept.
LEMMA KeptStays ==
    ASSUME NEW i \in JournalState, NEW j \in JournalState, Within(i, j), NEW e, Kept(e, i)
    PROVE  Kept(e, j)
<1>1. PICK n \in DOMAIN i.events : SameFact(e, i.events[n])
  BY DEF Kept, EventSet
<1>2. i.events \in Seq(Event) /\ j.events \in Seq(Event)
  BY DEF JournalState
<1>3. /\ DOMAIN i.events = 1 .. Len(i.events) /\ DOMAIN j.events = 1 .. Len(j.events)
      /\ Len(i.events) \in Nat /\ Len(j.events) \in Nat
  BY <1>2, LenProperties
<1>4. n \in DOMAIN j.events /\ j.events[n] = i.events[n]
  BY <1>1, <1>3 DEF Within
<1>. QED
  BY <1>1, <1>4 DEF Kept, EventSet

\* What a reader was shown stays a beginning of the log, cut at a commit.
LEMMA ShownStays ==
    ASSUME NEW i \in JournalState, NEW j \in JournalState, Within(i, j), NEW es, NEW n \in Nat,
           Shown(es, n, i)
    PROVE  Shown(es, n, j)
<1>1. /\ i.events \in Seq(Event) /\ j.events \in Seq(Event)
      /\ i.boundaries \in Seq(Nat) /\ j.boundaries \in Seq(Nat)
  BY DEF JournalState
<1>2. /\ DOMAIN i.boundaries = 1 .. Len(i.boundaries) /\ DOMAIN j.boundaries = 1 .. Len(j.boundaries)
      /\ Len(i.events) \in Nat /\ Len(j.events) \in Nat
      /\ Len(i.boundaries) \in Nat /\ Len(j.boundaries) \in Nat
  BY <1>1, LenProperties
<1>3. n <= Len(i.events) /\ n <= Len(j.events)
  BY <1>2 DEF Shown, Within
<1>4. SubSeq(i.events, 1, n) = SubSeq(j.events, 1, n)
  <2>1. \A m \in 1 .. n : i.events[m] = j.events[m]
    BY <1>2, <1>3 DEF Within
  <2>2. \A m \in 1 .. n : i.events[m] \in Event /\ j.events[m] \in Event
    BY <1>1, <1>2, <1>3, ElementOfSeq
  <2>. DEFINE a == SubSeq(i.events, 1, n)
              b == SubSeq(j.events, 1, n)
  <2>3. /\ a \in Seq(Event) /\ b \in Seq(Event) /\ Len(a) = n /\ Len(b) = n
        /\ \A m \in 1 .. n : a[m] = i.events[m] /\ b[m] = j.events[m]
    BY <2>2, SubSeqProperties
  <2>. HIDE DEF a, b
  <2>4. a = b
    BY <2>1, <2>3, SeqEqual
  <2>. QED
    BY <2>4 DEF a, b
<1>5. IsBoundary(j, n)
  <2>1. CASE n = 0
    BY <2>1 DEF IsBoundary
  <2>2. CASE n # 0
    <3>1. PICK m \in DOMAIN i.boundaries : i.boundaries[m] = n
      BY <2>2 DEF Shown, IsBoundary
    <3>2. m \in DOMAIN j.boundaries /\ j.boundaries[m] = n
      BY <1>2, <3>1 DEF Within
    <3>. QED
      BY <3>2 DEF IsBoundary
  <2>. QED
    BY <2>1, <2>2
<1>. QED
  BY <1>3, <1>4, <1>5 DEF Shown

\* An answer that is true stays true.
LEMMA AnsweredStays ==
    ASSUME NEW i \in JournalState, NEW j \in JournalState, Within(i, j), NEW es,
           NEW a \in Replies, Answered(a, es, i)
    PROVE  Answered(a, es, j)
<1>1. /\ a.is = "receipt" => a.receipt \in Receipt
      /\ a.is = "page" => a.cursor \in Nat
  BY DEF Replies
<1>. QED
  BY <1>1, RecordedStays, KeptStays, ShownStays DEF Answered

------------------------------------------------------------------------------
(* What holds of the store, of running operations, and of callers            *)

\* The file and the disk, and what each handle has cached of them.
StoreSafe == Backed(file, disk) /\ \A h \in Handles : Sane(cache[h], file, disk)

\* An operation runs on durable facts, at the end of the file.
HandSafe == \A c \in Clients : pc[c] \in {"run", "write"} => AtHand(Mine(c), file, disk)

\* What callers were told, and what they are about to be told, is durable.
ToldSafe ==
    /\ \A r \in acked : Recorded(r, View(disk).journal)
    /\ \A e \in stored : Kept(e, View(disk).journal)
    /\ \A c \in Clients :
        /\ Shown(seen[c], cursor[c], View(disk).journal)
        /\ pc[c] = "answer" => Answered(reply[c], seen[c], View(disk).journal)

Safe == StoreSafe /\ HandSafe /\ ToldSafe

\* The view of the disk.
LEMMA DiskView ==
    ASSUME StoreSafe
    PROVE  /\ GoodCache(View(disk)) /\ View(disk).journal \in JournalState
           /\ Backed(file, disk) /\ file \in Seq(Chunk) /\ disk \in Seq(Chunk)
  BY ViewGood DEF StoreSafe, Backed, GoodCache, CacheSet

\* A handle that sets the file to what it may become.
LEMMA StoreKeeps ==
    ASSUME CachesOK, StoreSafe, NEW h \in Handles, NEW k, GoodCache(k), NEW f, SetFile(h, k, f),
           Becomes(file, disk, f, disk'), Sane(k, f, disk')
    PROVE  StoreSafe' /\ Holds(View(disk), View(disk')) /\ cache'[h] = k /\ file' = f
<1>1. /\ cache'[h] = k /\ file' = f
      /\ \A g \in Handles : g # h =>
            Alike(cache'[g], cache[g]) /\ cache'[g].uncertain = cache[g].uncertain
  BY SetFileSpec
<1>2. ASSUME NEW g \in Handles
      PROVE  Sane(cache'[g], f, disk')
  <2>1. CASE g = h
    BY <1>1, <2>1
  <2>2. CASE g # h
    <3>1. GoodCache(cache[g]) /\ Sane(cache[g], file, disk)
      BY DEF CachesOK, StoreSafe
    <3>2. Sane(cache[g], f, disk')
      BY <3>1 DEF Becomes
    <3>3. Alike(cache[g], cache'[g]) /\ cache[g].uncertain = cache'[g].uncertain
      BY <1>1, <2>2 DEF Alike
    <3>. QED
      BY <3>2, <3>3, SaneAlike
  <2>. QED
    BY <2>1, <2>2
<1>3. Backed(f, disk') /\ Holds(View(disk), View(disk'))
  BY DEF Becomes
<1>. QED
  BY <1>1, <1>2, <1>3 DEF StoreSafe

\* The file stays as it is, and so do the caches, or they are forgotten.
LEMMA StoreRests ==
    ASSUME CachesOK, StoreSafe, file' = file, disk' \in {disk, file},
           \A h \in Handles : cache'[h] = cache[h] \/ cache'[h] = EmptyCache
    PROVE  StoreSafe' /\ Holds(View(disk), View(disk'))
<1>1. Backed(file, disk) /\ file \in Seq(Chunk)
  BY DiskView
<1>2. Becomes(file, disk, file, disk')
  BY <1>1, BecomesSelf, Synced
<1>3. Backed(file, disk') /\ Holds(View(disk), View(disk')) /\ disk' \in Seq(Chunk)
  BY <1>2 DEF Becomes, Backed
<1>4. ASSUME NEW h \in Handles
      PROVE  Sane(cache'[h], file, disk')
  <2>1. GoodCache(cache[h]) /\ Sane(cache[h], file, disk)
    BY DEF CachesOK, StoreSafe
  <2>2. Sane(cache[h], file, disk')
    BY <1>2, <2>1 DEF Becomes
  <2>3. Sane(EmptyCache, file, disk')
    BY <1>1, <1>3, EmptyCacheSane
  <2>. QED
    BY <2>2, <2>3
<1>. QED
  BY <1>3, <1>4 DEF StoreSafe

\* What was told stays durable; a new answer needs a reason.
LEMMA ToldKeeps ==
    ASSUME ToldOK, ClientsOK, StoreSafe, StoreSafe', ToldSafe,
           Holds(View(disk), View(disk')),
           acked' = acked, stored' = stored, cursor' = cursor, seen' = seen,
           \A c \in Clients : pc'[c] = "answer" =>
                \/ pc[c] = "answer" /\ reply'[c] = reply[c]
                \/ Answered(reply'[c], seen[c], View(disk').journal)
    PROVE  ToldSafe'
<1>. DEFINE i == View(disk).journal
            j == View(disk').journal
<1>1. i \in JournalState
  BY DiskView
<1>2. j \in JournalState
  <2>1. disk' \in Seq(Chunk)
    BY DEF StoreSafe, Backed
  <2>. QED
    BY <2>1, ViewGood DEF GoodCache, CacheSet
<1>3. Within(i, j)
  BY DEF Holds
<1>4. /\ acked \subseteq Receipt /\ stored \subseteq Events
      /\ cursor \in [Clients -> Nat] /\ reply \in [Clients -> Replies]
  BY DEF ToldOK, ClientsOK
<1>5. /\ \A r \in acked : Recorded(r, i)
      /\ \A e \in stored : Kept(e, i)
      /\ \A c \in Clients : Shown(seen[c], cursor[c], i)
      /\ \A c \in Clients : pc[c] = "answer" => Answered(reply[c], seen[c], i)
  BY DEF ToldSafe
<1>. HIDE DEF i, j
<1>6. /\ \A r \in acked : Recorded(r, j)
      /\ \A e \in stored : Kept(e, j)
      /\ \A c \in Clients : Shown(seen[c], cursor[c], j)
      /\ \A c \in Clients : pc[c] = "answer" => Answered(reply[c], seen[c], j)
  BY <1>1, <1>2, <1>3, <1>4, <1>5, RecordedStays, KeptStays, ShownStays, AnsweredStays
<1>7. \A c \in Clients : pc'[c] = "answer" => Answered(reply'[c], seen[c], j)
  BY <1>6 DEF j
<1>. QED
  BY <1>6, <1>7 DEF ToldSafe, j

\* Nobody is past the load: nothing is at hand.
LEMMA NobodyHolds ==
    ASSUME \A d \in Clients : pc'[d] \notin {"run", "write"}
    PROVE  HandSafe'
  BY DEF HandSafe

\* An answer that says nothing.
LEMMA SaysNothing ==
    /\ \A es, j : Answered(Refused, es, j) /\ Answered(Unknown, es, j) /\ Answered(Health, es, j)
    /\ \A es, j : Answered([is |-> "none"], es, j)
    /\ \A es, j, r : Answered(Found(r), es, j) <=> Recorded(r, j)
    /\ \A es, j, e : Answered(Stored(e), es, j) <=> Kept(e, j)
  BY DEF Answered, Refused, Unknown, Health, Found, Stored

\* The end of an operation that leaves the file alone, behind a barrier or not.
LEMMA ConfirmSafe ==
    ASSUME Shape, Safe, NEW c \in Clients, pc[c] = "run", NEW a \in Replies, NEW b \in Replies,
           Confirm(c, a, b) \/ ((Finish(c, a) \/ Finish(c, b)) /\ disk' = disk),
           file' = file, cache' = cache, UNCHANGED told,
           Answered(a, seen[c], View(disk).journal), Answered(b, seen[c], View(disk).journal)
    PROVE  Safe'
<1>0. CachesOK /\ ClientsOK /\ LocksOK /\ ToldOK /\ lock = c /\ StoreSafe /\ ToldSafe
  BY DEF Shape, LocksOK, Safe
<1>1. (Finish(c, a) \/ Finish(c, b)) /\ disk' \in {disk, file}
  BY DEF Confirm
<1>2. StoreSafe' /\ Holds(View(disk), View(disk'))
  BY <1>0, <1>1, StoreRests
<1>3. /\ reply'[c] \in {a, b, [is |-> "none"]}
      /\ \A d \in Clients : d # c => pc'[d] = pc[d] /\ reply'[d] = reply[d]
      /\ \A d \in Clients : pc'[d] \notin {"load", "run", "write"}
  BY <1>0, <1>1, FinishSpec
<1>4. HandSafe'
  BY <1>3, NobodyHolds
<1>5. Answered(reply'[c], seen[c], View(disk').journal)
  <2>1. reply'[c] \in Replies /\ Answered(reply'[c], seen[c], View(disk).journal)
    BY <1>3, SaysNothing, RepliesSpec
  <2>2. View(disk).journal \in JournalState
    BY <1>0, DiskView
  <2>3. View(disk').journal \in JournalState
    <3>1. disk' \in Seq(Chunk)
      BY <1>2 DEF StoreSafe, Backed
    <3>. QED
      BY <3>1, ViewGood DEF GoodCache, CacheSet
  <2>4. Within(View(disk).journal, View(disk').journal)
    BY <1>2 DEF Holds
  <2>. QED
    BY <2>1, <2>2, <2>3, <2>4, AnsweredStays
<1>6. \A d \in Clients : pc'[d] = "answer" =>
            \/ pc[d] = "answer" /\ reply'[d] = reply[d]
            \/ Answered(reply'[d], seen[d], View(disk').journal)
  BY <1>3, <1>5
<1>7. ToldSafe'
  BY <1>0, <1>2, <1>6, ToldKeeps DEF told
<1>. QED
  BY <1>2, <1>4, <1>7 DEF Safe

\* A step that touches neither the file, the caches nor what was told.
LEMMA QuietSafe ==
    ASSUME Shape, Safe, file' = file, disk' = disk, cache' = cache, UNCHANGED told,
           \A d \in Clients : pc'[d] \in {"run", "write"} => pc[d] \in {"run", "write"},
           \A d \in Clients : pc'[d] = "answer" =>
                \/ pc[d] = "answer" /\ reply'[d] = reply[d]
                \/ reply'[d] = Refused
    PROVE  Safe'
<1>0. CachesOK /\ ClientsOK /\ ToldOK /\ StoreSafe /\ ToldSafe /\ HandSafe
  BY DEF Shape, Safe
<1>1. StoreSafe' /\ Holds(View(disk), View(disk'))
  BY <1>0, StoreRests
<1>2. HandSafe'
  <2>1. \A d \in Clients : Mine(d)' = Mine(d)
    BY DEF Mine
  <2>. QED
    BY <1>0, <2>1 DEF HandSafe
<1>3. \A d \in Clients : pc'[d] = "answer" =>
            \/ pc[d] = "answer" /\ reply'[d] = reply[d]
            \/ Answered(reply'[d], seen[d], View(disk').journal)
  BY SaysNothing
<1>4. ToldSafe'
  BY <1>0, <1>1, <1>3, ToldKeeps DEF told
<1>. QED
  BY <1>1, <1>2, <1>4 DEF Safe

------------------------------------------------------------------------------
(* Every step keeps the store safe                                           *)

\* Faults are where the model lets them be, and a file to start from has begun.
Calm ==
    /\ "newline" \notin FaultKinds
    /\ \A f \in InitialFiles : Opens(f) /\ Begun(View(f))

\* A store that starts from a file that has begun is safe.
LEMMA SafeInit == Calm /\ Init => Safe
<1>. SUFFICES ASSUME Calm, Init PROVE Safe
  OBVIOUS
<1>1. /\ file \in InitialFiles /\ disk = file /\ cache = [h \in Handles |-> EmptyCache]
      /\ pc = [c \in Clients |-> "idle"] /\ acked = {} /\ stored = {}
      /\ cursor = [c \in Clients |-> 0] /\ seen = [c \in Clients |-> << >>]
  BY DEF Init
<1>2. file \in Seq(Chunk) /\ Opens(file) /\ Begun(View(file)) /\ Len(file) \in Nat
  BY <1>1, JsonlInputs, LenProperties DEF Calm
<1>. HIDE DEF Init
<1>3. Backed(file, disk)
  <2>1. file = SubSeq(file, 1, Len(file)) /\ Len(file) \in 0 .. Len(file)
    BY <1>2, Fronts
  <2>2. OnDisk(file, file)
    BY <2>1 DEF OnDisk
  <2>. QED
    BY <1>1, <1>2, <2>2, HoldsSelf DEF Backed
<1>4. StoreSafe
  <2>1. ASSUME NEW h \in Handles
        PROVE  Sane(cache[h], file, disk)
    BY <1>1, <1>2, EmptyCacheSane
  <2>. QED
    BY <1>3, <2>1 DEF StoreSafe
<1>5. HandSafe
  BY <1>1 DEF HandSafe
<1>6. ToldSafe
  <2>1. View(disk).journal.events \in Seq(Event)
    BY <1>4, DiskView DEF JournalState
  <2>. DEFINE j == View(disk).journal
  <2>2. Len(j.events) \in Nat /\ SubSeq(j.events, 1, 0) = << >>
    BY <2>1, LenProperties, SubSeqEmpty
  <2>. HIDE DEF j
  <2>3. Shown(<< >>, 0, j)
    BY <2>2 DEF Shown, IsBoundary
  <2>4. \A c \in Clients : seen[c] = << >> /\ cursor[c] = 0 /\ pc[c] # "answer"
    BY <1>1
  <2>. QED
    BY <1>1, <2>3, <2>4 DEF ToldSafe, j
<1>. QED
  BY <1>4, <1>5, <1>6 DEF Safe

\* What an operation may do to the file, and the handle's cache with it.
LEMMA TakeLoadSafe ==
    ASSUME Calm, Shape, Safe, NEW h \in Handles, NEW k, GoodCache(k), Sane(k, file, disk),
           NEW r \in Loads(k), r.fault \in FaultKinds \cup {"none"}
    PROVE  /\ Becomes(file, disk, r.file, r.disk) /\ Sane(r.cache, r.file, r.disk)
           /\ Sane(EmptyCache, r.file, r.disk)
           /\ r.ok => AtHand(r.cache, r.file, r.disk)
           /\ GoodCache(r.cache) /\ r.ok \in BOOLEAN /\ Formed(r)
<1>1. r.fault # "newline"
  BY DEF Calm
<1>2. Backed(file, disk) /\ FilesOK
  BY DEF Safe, StoreSafe, Shape
<1>3. present \/ file = << >>
  BY <1>2 DEF FilesOK
<1>4. /\ Becomes(file, disk, r.file, r.disk)
      /\ Sane(r.cache, r.file, r.disk)
      /\ r.ok => AtHand(r.cache, r.file, r.disk)
  BY <1>1, <1>2, <1>3, LoadMoves
<1>5. Sane(EmptyCache, r.file, r.disk)
  BY <1>4, EmptyCacheSane DEF Becomes, Backed
<1>. QED
  BY <1>2, <1>4, <1>5, LoadsFit

\* open_with_recovery keeps the store safe.
LEMMA OpenSafe ==
    ASSUME Calm, Shape, Safe, NEW h \in Handles, Open(h)
    PROVE  Safe'
<1>0. CachesOK /\ ClientsOK /\ LocksOK /\ ToldOK /\ StoreSafe /\ ToldSafe
  BY DEF Shape, Safe
<1>1. /\ lock = NoClient /\ pc' = pc /\ reply' = reply
      /\ acked' = acked /\ stored' = stored /\ cursor' = cursor /\ seen' = seen
  BY DEF Open
<1>2. PICK r \in Loads(EmptyCache) :
        TakeLoad(h, IF r.ok THEN r ELSE [r EXCEPT !.cache = EmptyCache])
  BY Zenon DEF Open
<1>. DEFINE q == IF r.ok THEN r ELSE [r EXCEPT !.cache = EmptyCache]
<1>3. GoodCache(EmptyCache) /\ Sane(EmptyCache, file, disk) /\ Formed(r) /\ r.ok \in BOOLEAN
  BY <1>0, EmptyCacheGood, EmptyCacheSane, DiskView, LoadsFit DEF Shape
<1>4. /\ q.file = r.file /\ q.disk = r.disk /\ q.fault = r.fault
      /\ q.cache = r.cache \/ q.cache = EmptyCache
  BY <1>3 DEF Formed
<1>. HIDE DEF q
<1>5. TakeLoad(h, q)
  BY <1>2 DEF q
<1>6. SetFile(h, q.cache, r.file) /\ disk' = r.disk /\ r.fault \in FaultKinds \cup {"none"}
  BY <1>4, <1>5 DEF TakeLoad
<1>7. /\ Becomes(file, disk, r.file, disk') /\ Sane(q.cache, r.file, disk') /\ GoodCache(q.cache)
  BY <1>3, <1>4, <1>6, TakeLoadSafe
<1>8. StoreSafe' /\ Holds(View(disk), View(disk'))
  BY <1>0, <1>6, <1>7, StoreKeeps
<1>9. HandSafe'
  <2>1. \A d \in Clients : pc'[d] \notin {"run", "write"}
    BY <1>0, <1>1, JsonlAssumption DEF LocksOK
  <2>. QED
    BY <2>1, NobodyHolds
<1>10. ToldSafe'
  BY <1>0, <1>1, <1>8, ToldKeeps
<1>. QED
  BY <1>8, <1>9, <1>10 DEF Safe

\* load_delta keeps the store safe, and hands the operation durable facts.
LEMMA LoadSafe ==
    ASSUME Calm, Shape, Safe, NEW c \in Clients, Load(c)
    PROVE  Safe'
<1>. DEFINE h == HandleOf[c]
            k == cache[h]
<1>0. /\ CachesOK /\ ClientsOK /\ LocksOK /\ ToldOK /\ StoreSafe /\ ToldSafe
      /\ h \in Handles /\ GoodCache(k) /\ lock = c /\ pc[c] = "load" /\ Sane(k, file, disk)
  BY JsonlAssumption DEF Shape, CachesOK, LocksOK, Load, Safe, StoreSafe
<1>1. acked' = acked /\ stored' = stored /\ cursor' = cursor /\ seen' = seen
  BY DEF Load, told
<1>2. PICK r \in Loads(k) :
        /\ TakeLoad(h, r)
        /\ IF r.ok
           THEN pc' = [pc EXCEPT ![c] = "run"] /\ UNCHANGED <<lock, op, reply>>
           ELSE Finish(c, Refused)
  BY Zenon DEF Load, Refused
<1>3. SetFile(h, r.cache, r.file) /\ disk' = r.disk /\ r.fault \in FaultKinds \cup {"none"}
  BY <1>2 DEF TakeLoad
<1>. HIDE DEF h, k
<1>4. /\ Becomes(file, disk, r.file, disk') /\ Sane(r.cache, r.file, disk') /\ GoodCache(r.cache)
      /\ r.ok \in BOOLEAN /\ (r.ok => AtHand(r.cache, r.file, disk'))
  BY <1>0, <1>3, TakeLoadSafe
<1>5. StoreSafe' /\ Holds(View(disk), View(disk')) /\ cache'[h] = r.cache /\ file' = r.file
  BY <1>0, <1>3, <1>4, StoreKeeps
<1>6. CASE r.ok
  <2>1. pc' = [pc EXCEPT ![c] = "run"] /\ reply' = reply
    BY <1>2, <1>6
  <2>2. \A d \in Clients : d # c => pc'[d] = pc[d] /\ pc[d] \notin {"load", "run", "write"}
    BY <1>0, <2>1, Alone DEF ClientsOK
  <2>3. AtHand(Mine(c)', file', disk')
    BY <1>4, <1>5, <1>6 DEF Mine, h
  <2>4. HandSafe'
    BY <2>2, <2>3 DEF HandSafe
  <2>5. \A d \in Clients : pc'[d] = "answer" => pc[d] = "answer" /\ reply'[d] = reply[d]
    BY <1>0, <2>1 DEF ClientsOK
  <2>6. ToldSafe'
    BY <1>0, <1>1, <1>5, <2>5, ToldKeeps
  <2>. QED
    BY <1>5, <2>4, <2>6 DEF Safe
<1>7. CASE ~r.ok
  <2>1. Finish(c, Refused)
    BY <1>2, <1>7
  <2>2. /\ reply'[c] \in {Refused, [is |-> "none"]}
        /\ \A d \in Clients : d # c => pc'[d] = pc[d] /\ reply'[d] = reply[d]
        /\ \A d \in Clients : pc'[d] \notin {"load", "run", "write"}
    BY <1>0, <2>1, FinishSpec, RepliesSpec
  <2>3. HandSafe'
    BY <2>2, NobodyHolds
  <2>4. \A d \in Clients : pc'[d] = "answer" =>
            \/ pc[d] = "answer" /\ reply'[d] = reply[d]
            \/ Answered(reply'[d], seen[d], View(disk').journal)
    BY <2>2, SaysNothing
  <2>5. ToldSafe'
    BY <1>0, <1>1, <1>5, <2>4, ToldKeeps
  <2>. QED
    BY <1>5, <2>3, <2>5 DEF Safe
<1>. QED
  BY <1>4, <1>6, <1>7

\* The death of a process keeps the store safe.
LEMMA CrashSafe ==
    ASSUME Shape, Safe, NEW h \in Handles, Crash(h)
    PROVE  Safe'
<1>0. /\ CachesOK /\ ClientsOK /\ LocksOK /\ LivesOK /\ ToldOK /\ StoreSafe /\ ToldSafe /\ HandSafe
      /\ HandleOf \in [Clients -> Handles]
  BY JsonlAssumption DEF Shape, Safe
<1>1. /\ Forget({h}) /\ cache' = [cache EXCEPT ![h] = EmptyCache]
      /\ file' = file /\ disk' = disk
      /\ acked' = acked /\ stored' = stored /\ cursor' = cursor /\ seen' = seen
  BY DEF Crash, told
<1>2. \A d \in Clients :
            \/ HandleOf[d] = h /\ pc'[d] = "idle"
            \/ HandleOf[d] # h /\ pc'[d] = pc[d] /\ reply'[d] = reply[d]
  BY <1>0, <1>1, ForgetSpec
<1>3. \A g \in Handles : cache'[g] = cache[g] \/ cache'[g] = EmptyCache
  BY <1>0, <1>1 DEF CachesOK
<1>4. StoreSafe' /\ Holds(View(disk), View(disk'))
  BY <1>0, <1>1, <1>3, StoreRests
<1>5. HandSafe'
  <2>. SUFFICES ASSUME NEW d \in Clients, pc'[d] \in {"run", "write"}
                PROVE  AtHand(Mine(d)', file', disk')
    BY DEF HandSafe
  <2>1. HandleOf[d] # h /\ pc'[d] = pc[d]
    BY <1>2
  <2>2. Mine(d)' = Mine(d)
    BY <1>0, <1>1, <2>1 DEF Mine, CachesOK
  <2>. QED
    BY <1>0, <1>1, <2>1, <2>2 DEF HandSafe
<1>6. ToldSafe'
  <2>1. \A d \in Clients : pc'[d] = "answer" => pc[d] = "answer" /\ reply'[d] = reply[d]
    BY <1>2
  <2>. QED
    BY <1>0, <1>1, <1>4, <2>1, ToldKeeps
<1>. QED
  BY <1>4, <1>5, <1>6 DEF Safe

\* A power failure keeps the store safe.
LEMMA PowerFailureSafe ==
    ASSUME Shape, Safe, PowerFailure
    PROVE  Safe'
<1>0. /\ CachesOK /\ ClientsOK /\ LocksOK /\ LivesOK /\ ToldOK /\ StoreSafe /\ ToldSafe
      /\ HandleOf \in [Clients -> Handles]
  BY JsonlAssumption DEF Shape, Safe
<1>1. /\ Forget(Handles) /\ cache' = [h \in Handles |-> EmptyCache]
      /\ acked' = acked /\ stored' = stored /\ cursor' = cursor /\ seen' = seen
  BY DEF PowerFailure, told
<1>2. PICK f \in Survivors : file' = f /\ disk' = f
  BY Zenon DEF PowerFailure
<1>3. Backed(f, f) /\ Holds(View(disk), View(f)) /\ f \in Seq(Chunk)
  BY <1>0, SurvivorBacked DEF StoreSafe, Backed
<1>4. \A d \in Clients : pc'[d] = "idle"
  BY <1>0, <1>1, ForgetSpec
<1>5. StoreSafe'
  <2>1. ASSUME NEW h \in Handles PROVE Sane(cache'[h], f, f)
    BY <1>1, <1>3, EmptyCacheSane
  <2>. QED
    BY <1>2, <1>3, <2>1 DEF StoreSafe
<1>6. HandSafe'
  BY <1>4, NobodyHolds
<1>7. ToldSafe'
  BY <1>0, <1>1, <1>2, <1>3, <1>4, <1>5, ToldKeeps
<1>. QED
  BY <1>5, <1>6, <1>7 DEF Safe

\* Taking the file lock keeps the store safe.
LEMMA LockSafe ==
    ASSUME Shape, Safe, NEW c \in Clients, Lock(c)
    PROVE  Safe'
<1>1. /\ pc' = [pc EXCEPT ![c] = "load"] /\ reply' = reply
      /\ file' = file /\ disk' = disk /\ cache' = cache /\ UNCHANGED told
  BY DEF Lock
<1>2. \A d \in Clients : pc'[d] = pc[d] \/ pc'[d] = "load"
  BY <1>1 DEF Shape, ClientsOK
<1>. QED
  BY <1>1, <1>2, QuietSafe

\* Calling an operation keeps the store safe.
LEMMA SubmitSafe ==
    ASSUME Shape, Safe, NEW c \in Clients, NEW o \in Operations, Submit(c, o)
    PROVE  Safe'
<1>1. /\ pc' = [pc EXCEPT ![c] = IF Cardinality(Busy(HandleOf[c])) < MaxWorkers
                                 THEN "queued" ELSE "answer"]
      /\ reply' = [reply EXCEPT ![c] = Refused]
      /\ file' = file /\ disk' = disk /\ cache' = cache /\ UNCHANGED told
  BY Zenon DEF Submit, Refused
<1>2. pc \in [Clients -> Places] /\ reply \in [Clients -> Replies]
  BY DEF Shape, ClientsOK
<1>3. \A d \in Clients :
        \/ d # c /\ pc'[d] = pc[d] /\ reply'[d] = reply[d]
        \/ pc'[d] \in {"queued", "answer"} /\ reply'[d] = Refused
  BY <1>1, <1>2
<1>4. /\ \A d \in Clients : pc'[d] \in {"run", "write"} => pc[d] \in {"run", "write"}
      /\ \A d \in Clients : pc'[d] = "answer" =>
                \/ pc[d] = "answer" /\ reply'[d] = reply[d]
                \/ reply'[d] = Refused
  BY <1>3
<1>. QED
  BY <1>1, <1>4, QuietSafe

\* The second lifecycle check keeps the store safe.
LEMMA StartSafe ==
    ASSUME Shape, Safe, NEW c \in Clients, Start(c)
    PROVE  Safe'
<1>0. ClientsOK /\ LocksOK
  BY DEF Shape
<1>1. /\ (pc' = [pc EXCEPT ![c] = "started"] /\ reply' = reply) \/ Idle(c)
      /\ file' = file /\ disk' = disk /\ cache' = cache /\ UNCHANGED told /\ lock' = lock
  BY DEF Start
<1>2. \A d \in Clients :
        \/ d # c /\ pc'[d] = pc[d] /\ reply'[d] = reply[d]
        \/ pc'[d] \in {"started", "idle"}
  <2>1. CASE pc' = [pc EXCEPT ![c] = "started"] /\ reply' = reply
    BY <1>0, <2>1 DEF ClientsOK
  <2>2. CASE Idle(c)
    BY <1>0, <1>1, <2>2, IdleSpec
  <2>. QED
    BY <1>1, <2>1, <2>2
<1>3. /\ \A d \in Clients : pc'[d] \in {"run", "write"} => pc[d] \in {"run", "write"}
      /\ \A d \in Clients : pc'[d] = "answer" => pc[d] = "answer" /\ reply'[d] = reply[d]
  BY <1>2
<1>. QED
  BY <1>1, <1>3, QuietSafe

\* The caller gets its answer.
LEMMA AnswerSafe ==
    ASSUME Shape, Safe, NEW c \in Clients, Answer(c)
    PROVE  Safe'
<1>. DEFINE a == reply[c]
            j == View(disk).journal
<1>0. /\ CachesOK /\ ClientsOK /\ LocksOK /\ ToldOK /\ StoreSafe /\ ToldSafe /\ HandSafe
  BY DEF Shape, Safe
<1>1. /\ pc[c] = "answer" /\ Idle(c) /\ lock' = lock
      /\ file' = file /\ disk' = disk /\ cache' = cache
      /\ acked' = IF a.is = "receipt" THEN acked \cup {a.receipt} ELSE acked
      /\ stored' = IF a.is = "stored" THEN stored \cup {a.event} ELSE stored
      /\ cursor' = IF a.is = "page" THEN [cursor EXCEPT ![c] = a.cursor] ELSE cursor
      /\ seen' = IF a.is = "page" THEN [seen EXCEPT ![c] = @ \o a.events] ELSE seen
  BY DEF Answer
<1>2. /\ \A r \in acked : Recorded(r, j)
      /\ \A e \in stored : Kept(e, j)
      /\ \A d \in Clients : Shown(seen[d], cursor[d], j)
      /\ \A d \in Clients : pc[d] = "answer" => Answered(reply[d], seen[d], j)
      /\ Answered(a, seen[c], j)
  BY <1>0, <1>1 DEF ToldSafe
<1>. HIDE DEF a, j
<1>3. /\ pc'[c] = "idle"
      /\ \A d \in Clients : d # c => pc'[d] = pc[d] /\ reply'[d] = reply[d]
  BY <1>0, <1>1, IdleSpec
<1>4. StoreSafe'
  BY <1>0, <1>1, StoreRests
<1>5. HandSafe'
  <2>1. \A d \in Clients : Mine(d)' = Mine(d)
    BY <1>1 DEF Mine
  <2>. QED
    BY <1>0, <1>1, <1>3, <2>1 DEF HandSafe
<1>6. \A r \in acked' : Recorded(r, j)
  BY <1>1, <1>2 DEF Answered
<1>7. \A e \in stored' : Kept(e, j)
  BY <1>1, <1>2 DEF Answered
<1>8. \A d \in Clients : d # c => seen'[d] = seen[d] /\ cursor'[d] = cursor[d]
  BY <1>0, <1>1 DEF ToldOK
<1>9. Shown(seen'[c], cursor'[c], j)
  <2>1. CASE a.is = "page"
    <3>1. seen'[c] = seen[c] \o a.events /\ cursor'[c] = a.cursor
      BY <1>0, <1>1, <2>1 DEF ToldOK
    <3>. QED
      BY <1>2, <2>1, <3>1 DEF Answered
  <2>2. CASE a.is # "page"
    BY <1>1, <1>2, <2>2
  <2>. QED
    BY <2>1, <2>2
<1>10. View(disk').journal = j
  BY <1>1 DEF j
<1>11. \A d \in Clients :
        /\ Shown(seen'[d], cursor'[d], j)
        /\ pc'[d] = "answer" => Answered(reply'[d], seen'[d], j)
  <2>. SUFFICES ASSUME NEW d \in Clients
                PROVE  /\ Shown(seen'[d], cursor'[d], j)
                       /\ pc'[d] = "answer" => Answered(reply'[d], seen'[d], j)
    OBVIOUS
  <2>1. CASE d = c
    BY <1>3, <1>9, <2>1
  <2>2. CASE d # c
    BY <1>2, <1>3, <1>8, <2>2
  <2>. QED
    BY <2>1, <2>2
<1>12. ToldSafe'
  BY <1>6, <1>7, <1>10, <1>11 DEF ToldSafe
<1>. QED
  BY <1>4, <1>5, <1>12 DEF Safe

------------------------------------------------------------------------------
(* Operations answer with what is durable                                    *)

\* What an operation has at hand.
LEMMA HandSpec ==
    ASSUME Shape, Safe, NEW c \in Clients, pc[c] \in {"run", "write"}
    PROVE  /\ AtHand(Mine(c), file, disk)
           /\ Mine(c).journal \in JournalState /\ View(disk).journal \in JournalState
           /\ JournalInv(Mine(c).journal)
           /\ Within(Mine(c).journal, View(disk).journal)
           /\ op[c] \in Operations
<1>1. AtHand(Mine(c), file, disk) /\ StoreSafe
  BY DEF Safe, HandSafe
<1>. QED
  BY <1>1, MineGood, DiskView DEF AtHand, Holds

\* A receipt found in the cache is on the disk.
LEMMA FoundSafe ==
    ASSUME Shape, Safe, NEW c \in Clients, pc[c] = "run", NEW m \in Commands,
           NEW r, r = Mine(c).journal.commands[m], r # NoReceipt
    PROVE  Found(r) \in Replies /\ Answered(Found(r), seen[c], View(disk).journal)
<1>. DEFINE i == Mine(c).journal
<1>1. i \in JournalState /\ JournalInv(i) /\ Within(i, View(disk).journal)
  BY HandSpec
<1>2. r \in Receipt /\ r.command = m
  BY <1>1 DEF JournalState, JournalInv, ReceiptsInLog
<1>3. Recorded(r, i)
  BY <1>2 DEF Recorded
<1>4. Recorded(r, View(disk).journal)
  BY <1>1, <1>2, <1>3, RecordedStays
<1>. QED
  BY <1>2, <1>4, SaysNothing, RepliesSpec

\* Deciding to write keeps the store safe.
LEMMA PlansSafe ==
    ASSUME Shape, Safe, NEW c \in Clients, pc[c] = "run", pc' = [pc EXCEPT ![c] = "write"],
           UNCHANGED <<disk, reply, file, cache, told>>
    PROVE  Safe'
<1>1. \A d \in Clients :
        \/ d # c /\ pc'[d] = pc[d] /\ reply'[d] = reply[d]
        \/ d = c /\ pc'[d] = "write" /\ pc[d] = "run"
  BY DEF Shape, ClientsOK
<1>2. /\ \A d \in Clients : pc'[d] \in {"run", "write"} => pc[d] \in {"run", "write"}
      /\ \A d \in Clients : pc'[d] = "answer" => pc[d] = "answer" /\ reply'[d] = reply[d]
  BY <1>1
<1>. QED
  BY <1>2, QuietSafe

\* The plan of commit_transition keeps the store safe.
LEMMA PlanCommitSafe ==
    ASSUME Shape, Safe, NEW c \in Clients, PlanCommit(c)
    PROVE  Safe'
<1>. DEFINE j == Mine(c).journal
            b == op[c].batch
<1>1. /\ pc[c] = "run" /\ op[c].is = "commit" /\ op[c] \in Operations /\ b \in Batch
      /\ b.command \in Commands
  BY HandSpec, OperationSpec DEF PlanCommit, Running, Batch
<1>2. file' = file /\ cache' = cache /\ UNCHANGED told
  BY DEF PlanCommit
<1>3. CASE Replays(j, b) /\ Confirm(c, Found(j.commands[b.command]), Unknown)
  <2>1. j.commands[b.command] # NoReceipt
    BY <1>3 DEF Replays, Known
  <2>2. /\ Found(j.commands[b.command]) \in Replies
        /\ Answered(Found(j.commands[b.command]), seen[c], View(disk).journal)
    BY <1>1, <2>1, FoundSafe
  <2>. QED
    BY <1>1, <1>2, <1>3, <2>2, RepliesSpec, SaysNothing, ConfirmSafe
<1>4. CASE /\ Appends(j, b) /\ Room(Mine(c))
           /\ pc' = [pc EXCEPT ![c] = "write"]
           /\ UNCHANGED <<disk, lock, op, reply, faults>>
  BY <1>1, <1>2, <1>4, PlansSafe
<1>5. CASE Finish(c, Refused) /\ UNCHANGED <<disk, faults>>
  BY <1>1, <1>2, <1>5, RepliesSpec, SaysNothing, ConfirmSafe
<1>. QED
  BY <1>3, <1>4, <1>5 DEF PlanCommit

\* The plan of append_expected keeps the store safe.
LEMMA PlanAppendSafe ==
    ASSUME Shape, Safe, NEW c \in Clients, PlanAppend(c)
    PROVE  Safe'
<1>. DEFINE j == Mine(c).journal
            e == op[c].event
            replay == op[c].is = "idempotent" /\ ReplaysLegacy(j, e)
            append == AppendsLegacy(j, e, AnyVersion) /\ Room(Mine(c))
                      /\ (op[c].is = "idempotent" => e.key # NoKey)
<1>1. /\ pc[c] = "run" /\ op[c].is \in {"append", "idempotent"} /\ op[c] \in Operations
      /\ e \in Events
  BY MineGood, OperationSpec DEF PlanAppend, Running
<1>2. file' = file /\ cache' = cache /\ UNCHANGED told
  BY DEF PlanAppend
<1>3. CASE replay /\ Confirm(c, Stored(e), Refused)
  <2>1. Kept(e, j)
    BY <1>3 DEF ReplaysLegacy, KeyHolders, Kept
  <2>2. Kept(e, View(disk).journal)
    BY <1>1, <2>1, HandSpec, KeptStays
  <2>3. Answered(Stored(e), seen[c], View(disk).journal)
    BY <2>2, SaysNothing
  <2>. QED
    BY <1>1, <1>2, <1>3, <2>3, RepliesSpec, SaysNothing, ConfirmSafe
<1>4. CASE /\ append
           /\ pc' = [pc EXCEPT ![c] = "write"]
           /\ UNCHANGED <<disk, lock, op, reply, faults>>
  BY <1>1, <1>2, <1>4, PlansSafe
<1>5. CASE Finish(c, Refused) /\ UNCHANGED <<disk, faults>>
  BY <1>1, <1>2, <1>5, RepliesSpec, SaysNothing, ConfirmSafe
<1>. QED
  BY <1>3, <1>4, <1>5 DEF PlanAppend

\* read_command keeps the store safe.
LEMMA ReadCommandSafe ==
    ASSUME Shape, Safe, NEW c \in Clients, ReadCommand(c)
    PROVE  Safe'
<1>. DEFINE receipt == Mine(c).journal.commands[op[c].command]
<1>1. /\ pc[c] = "run" /\ op[c].is = "command" /\ op[c] \in Operations
      /\ op[c].command \in Commands
  BY MineGood, OperationSpec DEF ReadCommand, Running
<1>2. file' = file /\ cache' = cache /\ UNCHANGED told
  BY DEF ReadCommand
<1>3. CASE receipt = NoReceipt
  <2>1. Finish(c, Refused) /\ disk' = disk
    BY <1>3 DEF ReadCommand
  <2>. QED
    BY <1>1, <1>2, <2>1, RepliesSpec, SaysNothing, ConfirmSafe
<1>4. CASE receipt # NoReceipt
  <2>1. Confirm(c, Found(receipt), Refused)
    BY <1>4 DEF ReadCommand
  <2>2. Found(receipt) \in Replies /\ Answered(Found(receipt), seen[c], View(disk).journal)
    BY <1>1, <1>4, FoundSafe
  <2>. QED
    BY <1>1, <1>2, <2>1, <2>2, RepliesSpec, SaysNothing, ConfirmSafe
<1>. QED
  BY <1>3, <1>4

\* A page goes on from where the reader is, and ends at a commit.
LEMMA PageSafe ==
    ASSUME Shape, Safe, NEW c \in Clients, pc[c] = "run", NEW j, j = Mine(c).journal, NEW limit,
           PageAllowed(j, cursor[c], limit), NEW a,
           a = [is |-> "page", cursor |-> PageEnd(j, cursor[c], limit),
                events |-> PageEvents(j, cursor[c], limit)]
    PROVE  a \in Replies /\ Answered(a, seen[c], View(disk).journal)
<1>. DEFINE n == cursor[c]
            p == PageEnd(j, cursor[c], limit)
            i == View(disk).journal
<1>1. /\ a \in Replies /\ n \in 0 .. Len(j.events) /\ limit \in Nat
      /\ p \in Nat /\ p \in n .. Len(j.events)
  BY PageReply
<1>2. JournalInv(j) /\ j \in JournalState /\ i \in JournalState /\ Within(j, i)
  BY HandSpec
<1>3. /\ j.events \in Seq(Event) /\ i.events \in Seq(Event)
      /\ Len(j.events) \in Nat /\ Len(i.events) \in Nat
      /\ j.boundaries \in Seq(Nat)
  BY <1>2, LenProperties DEF JournalState
<1>4. n = 0 \/ n # 0
  OBVIOUS
<1>5. IsBoundary(j, p)
  BY <1>1, <1>2, PageEndSpec DEF PageAllowed, IsBoundary
<1>6. Shown(SubSeq(j.events, 1, p), p, j)
  BY <1>1, <1>3, <1>5 DEF Shown
<1>7. Shown(SubSeq(j.events, 1, p), p, i) /\ Shown(SubSeq(j.events, 1, n), n, j)
  <2>1. IsBoundary(j, n) /\ n \in Nat /\ n <= Len(j.events)
    BY <1>1, <1>3 DEF PageAllowed
  <2>2. Shown(SubSeq(j.events, 1, n), n, j)
    BY <2>1 DEF Shown
  <2>. HIDE DEF n, p, i
  <2>3. Shown(SubSeq(j.events, 1, p), p, i)
    BY <1>1, <1>2, <1>6, ShownStays
  <2>. QED
    BY <2>2, <2>3 DEF n
<1>8. Shown(SubSeq(j.events, 1, n), n, i) /\ Shown(seen[c], n, i)
  <2>1. n \in Nat
    BY <1>1, <1>3
  <2>. QED
    BY <1>2, <1>7, <2>1, ShownStays DEF Safe, ToldSafe
<1>9. seen[c] = SubSeq(j.events, 1, n)
  BY <1>8 DEF Shown
<1>10. seen[c] \o SubSeq(j.events, n + 1, p) = SubSeq(j.events, 1, p)
  <2>1. 1 \in 1 .. Len(j.events) + 1 /\ n \in 1 - 1 .. Len(j.events) /\ p \in n .. Len(j.events)
    BY <1>1, <1>3
  <2>. HIDE DEF n, p
  <2>2. SubSeq(j.events, 1, n) \o SubSeq(j.events, n + 1, p) = SubSeq(j.events, 1, p)
    BY <1>3, <2>1, ConcatAdjacentSubSeq
  <2>. QED
    BY <1>9, <2>2
<1>11. a.is = "page" /\ a.cursor = p /\ a.events = SubSeq(j.events, n + 1, p)
  BY DEF PageEvents
<1>. HIDE DEF n, p, i
<1>12. Shown(seen[c] \o a.events, a.cursor, i)
  BY <1>7, <1>10, <1>11
<1>. QED
  BY <1>1, <1>11, <1>12 DEF Answered, i

\* read_from keeps the store safe.
LEMMA ReadFromSafe ==
    ASSUME Shape, Safe, NEW c \in Clients, ReadFrom(c)
    PROVE  Safe'
<1>. DEFINE j == Mine(c).journal
            a == [is |-> "page", cursor |-> PageEnd(j, cursor[c], op[c].limit),
                  events |-> PageEvents(j, cursor[c], op[c].limit)]
<1>1. /\ pc[c] = "run" /\ disk' = disk /\ file' = file /\ cache' = cache /\ UNCHANGED told
      /\ Finish(c, IF PageAllowed(j, cursor[c], op[c].limit) THEN a ELSE Refused)
  BY DEF ReadFrom, Running
<1>2. PageAllowed(j, cursor[c], op[c].limit) =>
        a \in Replies /\ Answered(a, seen[c], View(disk).journal)
  BY <1>1, PageSafe
<1>. HIDE DEF a, j
<1>. DEFINE b == IF PageAllowed(j, cursor[c], op[c].limit) THEN a ELSE Refused
<1>3. b \in Replies /\ Answered(b, seen[c], View(disk).journal)
  BY <1>2, RepliesSpec, SaysNothing
<1>. HIDE DEF b
<1>4. Finish(c, b)
  BY <1>1 DEF b
<1>. QED
  BY <1>1, <1>3, <1>4, ConfirmSafe

\* flush keeps the store safe.
LEMMA FlushSafe ==
    ASSUME Shape, Safe, NEW c \in Clients, Flush(c)
    PROVE  Safe'
<1>1. /\ pc[c] = "run" /\ file' = file /\ cache' = cache /\ UNCHANGED told
      /\ Confirm(c, Health, Refused) \/ (Finish(c, Health) /\ disk' = disk)
  BY DEF Flush, Running
<1>. QED
  BY <1>1, RepliesSpec, SaysNothing, ConfirmSafe

------------------------------------------------------------------------------
(* Writes                                                                    *)

\* A record, then the newline that ends its line, then the barrier.
LEMMA LineWritten ==
    ASSUME NEW f, NEW d, Backed(f, d), NEW k, GoodCache(k), InPlace(k, f), k.offset = Len(f),
           NEW x \in Chunk, Accepts(k, x), NEW e, e = f \o <<x>>, NEW g, g = f \o <<x, Newline>>
    PROVE  /\ Becomes(f, d, e, d) /\ Becomes(f, d, g, d) /\ Becomes(f, d, g, g)
           /\ g \in Seq(Chunk) /\ Ending(Recovered(g)) = "clean"
           /\ View(g).journal = Accept(k, x).journal /\ View(g).upgraded = Accept(k, x).upgraded
<1>. DEFINE s == Recovered(f)
<1>1. f \in Seq(Chunk)
  BY DEF Backed
<1>2. e = Append(f, x) /\ g = Append(e, Newline)
  BY <1>1, ChunksWritten
<1>3. /\ k.journal = View(f).journal /\ k.upgraded = View(f).upgraded /\ Ending(s) = "clean"
  BY <1>1, AtEnd
<1>4. /\ s \in ScanSet /\ GoodCache(s.k) /\ Sound(EmptyCache, f, s) /\ Len(f) \in Nat
  BY <1>1, RecoverSound, LenProperties
<1>. HIDE DEF s
<1>5. View(f) = s.k
  BY <1>3, <1>4, MovedSpec DEF View, s
<1>6. s.k.offset = Len(f)
  <2>1. s.line = << >> /\ ~s.bad
    BY <1>3, <1>4, EndingSpec
  <2>2. s.k.offset + Len(s.line) = Len(f) /\ Len(s.line) = 0 /\ s.k.offset \in Nat
    BY <1>4, <2>1 DEF Sound, GoodCache, CacheSet
  <2>. QED
    BY <1>4, <2>2
<1>7. Alike(k, s.k) /\ k \in CacheSet /\ s.k \in CacheSet
  BY <1>3, <1>4, <1>5, <1>6 DEF Alike, GoodCache
<1>8. Accepts(s.k, x) /\ Alike(Accept(k, x), Accept(s.k, x))
  BY <1>7, AlikeAccepts
<1>9. /\ Becomes(f, d, e, d) /\ Ending(Recovered(e)) = "unterminated"
      /\ View(e).journal = Accept(s.k, x).journal
      /\ View(e).upgraded = Accept(s.k, x).upgraded
  BY <1>2, <1>3, <1>8, RecordWritten DEF s
<1>10. Backed(e, d)
  BY <1>9 DEF Becomes
<1>11. /\ Becomes(e, d, g, d) /\ Ending(Recovered(g)) = "clean"
       /\ View(g).journal = View(e).journal /\ View(g).upgraded = View(e).upgraded
  BY <1>2, <1>9, <1>10, LineEnded
<1>12. Backed(g, d) /\ g \in Seq(Chunk)
  BY <1>11 DEF Becomes, Backed
<1>13. Becomes(f, d, g, d)
  BY <1>9, <1>11, BecomesTransitive
<1>14. Becomes(f, d, g, g)
  <2>1. Becomes(g, d, g, g)
    BY <1>12, Synced
  <2>. QED
    BY <1>13, <2>1, BecomesTransitive
<1>. QED
  BY <1>8, <1>9, <1>11, <1>12, <1>13, <1>14 DEF Alike

\* A cache that holds what the synced file does is in its place, and durable.
LEMMA WrittenSane ==
    ASSUME NEW g \in Seq(Chunk), Ending(Recovered(g)) = "clean", NEW l,
           l.offset = Len(g), l.journal = View(g).journal, l.upgraded = View(g).upgraded
    PROVE  Sane(l, g, g) /\ AtHand(l, g, g)
<1>1. InPlace(l, g)
  BY PlacedAtEnd
<1>2. Holds(l, View(g))
  BY HoldsSelf DEF Holds
<1>. QED
  BY <1>1, <1>2 DEF Sane, AtHand

\* Writing the header of an old file keeps the store safe.
LEMMA WriteHeaderSafe ==
    ASSUME Shape, Safe, NEW c \in Clients, WriteHeader(c)
    PROVE  Safe'
<1>. DEFINE h == HandleOf[c]
            k == Mine(c)
            f == file \o <<Header, Newline>>
            l == [k EXCEPT !.offset = Len(f), !.upgraded = TRUE, !.current = FALSE]
<1>0. /\ CachesOK /\ ClientsOK /\ LocksOK /\ ToldOK /\ StoreSafe /\ ToldSafe
      /\ pc[c] = "write" /\ lock = c /\ h \in Handles /\ GoodCache(k) /\ k \in CacheSet
  BY MineGood DEF WriteHeader, Shape, LocksOK, Safe
<1>1. /\ ~k.upgraded /\ SetFile(h, l, f) /\ disk' = f /\ pc' = pc /\ reply' = reply
      /\ acked' = acked /\ stored' = stored /\ cursor' = cursor /\ seen' = seen
  BY DEF WriteHeader, Upgrades, Unmoved, told
<1>2. AtHand(k, file, disk) /\ Backed(file, disk)
  BY <1>0, HandSpec DEF StoreSafe
<1>3. Header \in Chunk /\ Accepts(k, Header) /\ Accept(k, Header) = [k EXCEPT !.upgraded = TRUE]
  BY <1>1, ChunksWritten DEF Accepts, Accept, Header
<1>4. Accept(k, Header).journal = k.journal /\ Accept(k, Header).upgraded = TRUE
  BY <1>0, <1>3 DEF CacheSet
<1>. HIDE DEF k, h
<1>5. /\ Becomes(file, disk, f, f) /\ f \in Seq(Chunk) /\ Ending(Recovered(f)) = "clean"
      /\ View(f).journal = k.journal /\ View(f).upgraded = TRUE
  <2>. DEFINE x == Header
              e == file \o <<x>>
  <2>1. /\ e = file \o <<x>> /\ f = file \o <<x, Newline>> /\ x \in Chunk /\ Accepts(k, x)
        /\ Accept(k, x).journal = k.journal /\ Accept(k, x).upgraded = TRUE
    BY <1>3, <1>4
  <2>. HIDE DEF x, e, f
  <2>2. InPlace(k, file) /\ k.offset = Len(file)
    BY <1>2 DEF AtHand
  <2>. QED
    BY <1>0, <1>2, <2>1, <2>2, LineWritten
<1>. HIDE DEF f
<1>6. Len(f) \in Nat
  BY <1>5, LenProperties
<1>7. /\ l \in CacheSet /\ l.journal = k.journal /\ l.upgraded = TRUE /\ l.offset = Len(f)
  BY <1>0, <1>6 DEF CacheSet
<1>8. GoodCache(l)
  BY <1>0, <1>7, FlagsSpec
<1>. HIDE DEF l
<1>9. Sane(l, f, f) /\ AtHand(l, f, f)
  BY <1>5, <1>7, WrittenSane
<1>10. StoreSafe' /\ Holds(View(disk), View(disk')) /\ cache'[h] = l /\ file' = f
  BY <1>0, <1>1, <1>5, <1>8, <1>9, StoreKeeps
<1>11. HandSafe'
  <2>1. AtHand(Mine(c)', file', disk')
    BY <1>1, <1>9, <1>10 DEF Mine, h
  <2>2. \A d \in Clients : d # c => pc'[d] \notin {"run", "write"}
    BY <1>0, <1>1, Alone
  <2>. QED
    BY <2>1, <2>2 DEF HandSafe
<1>12. ToldSafe'
  BY <1>0, <1>1, <1>10, ToldKeeps
<1>. QED
  BY <1>10, <1>11, <1>12 DEF Safe

\* What the answer to a write says is in the cache with the record.
LEMMA WriteAnswers ==
    ASSUME Shape, NEW c \in Clients, pc[c] = "write", ~Upgrades(c), NEW l, GoodCache(l),
           l.journal = Mine(c).journal, NEW x, x = RecordOf(c), NEW es
    PROVE  Answered(IF op[c].is = "commit" THEN Found(x.receipt) ELSE Stored(op[c].event),
                    es, Accept(l, x).journal)
<1>. DEFINE j == Mine(c).journal
            i == Accept(l, x).journal
<1>1. /\ j \in JournalState /\ JournalInv(j) /\ op[c] \in Operations /\ Planned(c)
  BY MineGood DEF Shape, ReadyOK
<1>2. CASE op[c].is = "commit"
  <2>. DEFINE b == op[c].batch
              r == NewReceipt(j, b)
  <2>1. /\ x.is = "frame" /\ x.receipt = r /\ x.batch = b
        /\ Appends(j, b) /\ b \in Batch /\ b.command \in Commands
    BY <1>1, <1>2, RecordSpec, OperationSpec DEF Planned, Batch
  <2>2. /\ ApplyTransition(j, b, r).commands = [j.commands EXCEPT ![b.command] = r]
        /\ r.command = b.command
    <3>. HIDE DEF b, j
    <3>1. ApplyTransition(j, b, r).commands = [j.commands EXCEPT ![b.command] = r]
      BY <1>1, <2>1, ApplyTransitionKeeps
    <3>2. r.command = b.command
      BY <1>1, <2>1, NewReceiptType
    <3>. QED
      BY <3>1, <3>2
  <2>. HIDE DEF b, r, j
  <2>3. i = ApplyTransition(j, b, r)
    <3>1. Accept(l, x) = [l EXCEPT !.journal = ApplyTransition(l.journal, x.batch, x.receipt)]
      BY <2>1, Zenon DEF Accept
    <3>2. l \in CacheSet
      BY DEF GoodCache
    <3>3. i = ApplyTransition(l.journal, x.batch, x.receipt)
      BY <3>1, <3>2 DEF CacheSet
    <3>. QED
      BY <2>1, <3>3 DEF j
  <2>4. Recorded(r, i)
    <3>1. b.command \in DOMAIN j.commands
      BY <1>1, <2>1 DEF JournalState
    <3>. QED
      BY <2>2, <2>3, <3>1 DEF Recorded
  <2>. QED
    BY <1>2, <2>1, <2>4, SaysNothing
<1>3. CASE op[c].is # "commit"
  <2>. DEFINE e == op[c].event
  <2>1. /\ x.is \in {"event", "legacy"} /\ x.event = e
        /\ AppendsLegacy(j, e, AnyVersion) /\ e \in Event
    BY <1>1, <1>3, RecordSpec, OperationSpec, JsonlInputs DEF Planned
  <2>2. ApplyLegacy(j, e).events = j.events \o <<e>>
    BY <1>1, <2>1, ApplyLegacyKeeps
  <2>. HIDE DEF e, j
  <2>3. i = ApplyLegacy(j, e)
    <3>1. Accept(l, x) = [l EXCEPT !.journal = ApplyLegacy(l.journal, x.event)]
      BY <2>1, Zenon DEF Accept
    <3>2. l \in CacheSet
      BY DEF GoodCache
    <3>3. i = ApplyLegacy(l.journal, x.event)
      BY <3>1, <3>2 DEF CacheSet
    <3>. QED
      BY <2>1, <3>3 DEF j
  <2>4. Kept(e, i)
    <3>1. j.events \in Seq(Event) /\ <<e>> \in Seq(Event) /\ Len(<<e>>) = 1 /\ <<e>>[1] = e
      BY <1>1, <2>1 DEF JournalState
    <3>. DEFINE n == Len(j.events)
                es2 == j.events \o <<e>>
    <3>2. es2 \in Seq(Event) /\ Len(es2) = n + 1 /\ n \in Nat /\ es2[n + 1] = e
      BY <3>1
    <3>3. n + 1 \in DOMAIN es2
      BY <3>2
    <3>4. SameFact(e, e)
      BY <2>1 DEF SameFact, Event
    <3>. QED
      BY <2>2, <2>3, <3>2, <3>3, <3>4 DEF Kept, EventSet
  <2>. QED
    BY <1>3, <2>4, SaysNothing DEF e
<1>. QED
  BY <1>2, <1>3

\* Writing a record, behind its barrier, keeps the store safe.
LEMMA WriteRecordSafe ==
    ASSUME Shape, Safe, NEW c \in Clients, WriteRecord(c)
    PROVE  Safe'
<1>. DEFINE h == HandleOf[c]
            k == Mine(c)
            x == RecordOf(c)
            f == file \o <<x, Newline>>
            l == [k EXCEPT !.offset = Len(f), !.warm = TRUE, !.current = TRUE, !.uncertain = FALSE]
            a == IF op[c].is = "commit" THEN Found(x.receipt) ELSE Stored(op[c].event)
<1>0. /\ CachesOK /\ ClientsOK /\ LocksOK /\ ToldOK /\ StoreSafe /\ ToldSafe
      /\ pc[c] = "write" /\ lock = c /\ h \in Handles /\ GoodCache(k) /\ k \in CacheSet
  BY MineGood DEF WriteRecord, Shape, LocksOK, Safe
<1>1. /\ ~Upgrades(c) /\ SetFile(h, Accept(l, x), f) /\ disk' = f /\ Finish(c, a)
      /\ acked' = acked /\ stored' = stored /\ cursor' = cursor /\ seen' = seen
  BY DEF WriteRecord, told
<1>2. AtHand(k, file, disk) /\ Backed(file, disk)
  BY <1>0, HandSpec DEF StoreSafe
<1>3. x \in Chunk /\ Accepts(k, x) /\ a \in Replies
  BY <1>0, <1>1, RecordSpec, RepliesSpec
<1>4. \A m : GoodCache(m) /\ m.journal = k.journal => Answered(a, seen[c], Accept(m, x).journal)
  BY <1>0, <1>1, WriteAnswers
<1>. HIDE DEF k, h, x, a
<1>5. /\ Becomes(file, disk, f, f) /\ f \in Seq(Chunk) /\ Ending(Recovered(f)) = "clean"
      /\ View(f).journal = Accept(k, x).journal /\ View(f).upgraded = Accept(k, x).upgraded
  <2>. DEFINE e == file \o <<x>>
  <2>1. /\ Backed(file, disk) /\ GoodCache(k) /\ x \in Chunk /\ Accepts(k, x)
        /\ e = file \o <<x>> /\ f = file \o <<x, Newline>> /\ InPlace(k, file) /\ k.offset = Len(file)
    BY <1>0, <1>2, <1>3 DEF AtHand
  <2>. HIDE DEF e, f
  <2>. QED
    BY <2>1, LineWritten, ZenonT(30)
<1>. HIDE DEF f
<1>6. Len(f) \in Nat
  BY <1>5, LenProperties
<1>7. l \in CacheSet /\ l.journal = k.journal /\ l.upgraded = k.upgraded /\ l.offset = Len(f)
  BY <1>0, <1>6 DEF CacheSet
<1>8. GoodCache(l) /\ Accepts(l, x)
  BY <1>0, <1>3, <1>7, FlagsSpec DEF Accepts
<1>. HIDE DEF l
<1>9. GoodCache(Accept(l, x)) /\ Accept(l, x).offset = Len(f)
  BY <1>3, <1>7, <1>8, AcceptSpec
<1>10. /\ Accept(l, x).journal = View(f).journal /\ Accept(l, x).upgraded = View(f).upgraded
  <2>. DEFINE m == [l EXCEPT !.offset = k.offset]
  <2>1. m \in CacheSet /\ Alike(k, m) /\ m.journal = l.journal /\ m.upgraded = l.upgraded
    BY <1>0, <1>7 DEF CacheSet, Alike
  <2>. HIDE DEF m
  <2>2. Alike(Accept(k, x), Accept(m, x))
    BY <1>0, <1>3, <2>1, AlikeAccepts
  <2>3. /\ Accept(m, x).journal = Accept(l, x).journal
        /\ Accept(m, x).upgraded = Accept(l, x).upgraded
    <3>1. x.is \in {"header", "frame", "event", "legacy"}
      BY <1>3 DEF Accepts
    <3>2. CASE x.is = "header"
      <4>1. Accept(m, x) = [m EXCEPT !.upgraded = TRUE] /\ Accept(l, x) = [l EXCEPT !.upgraded = TRUE]
        BY <3>2, Zenon DEF Accept
      <4>. QED
        BY <1>7, <2>1, <4>1 DEF CacheSet
    <3>3. CASE x.is = "frame"
      <4>1. /\ Accept(m, x) = [m EXCEPT !.journal = ApplyTransition(m.journal, x.batch, x.receipt)]
            /\ Accept(l, x) = [l EXCEPT !.journal = ApplyTransition(l.journal, x.batch, x.receipt)]
        BY <3>3, Zenon DEF Accept
      <4>. QED
        BY <1>7, <2>1, <4>1 DEF CacheSet
    <3>4. CASE x.is \in {"event", "legacy"}
      <4>1. /\ Accept(m, x) = [m EXCEPT !.journal = ApplyLegacy(m.journal, x.event)]
            /\ Accept(l, x) = [l EXCEPT !.journal = ApplyLegacy(l.journal, x.event)]
        BY <3>4, Zenon DEF Accept
      <4>. QED
        BY <1>7, <2>1, <4>1 DEF CacheSet
    <3>. QED
      BY <3>1, <3>2, <3>3, <3>4
  <2>. QED
    BY <1>5, <2>2, <2>3 DEF Alike
<1>11. Sane(Accept(l, x), f, f)
  BY <1>5, <1>9, <1>10, WrittenSane
<1>12. StoreSafe' /\ Holds(View(disk), View(disk')) /\ file' = f
  BY <1>0, <1>1, <1>5, <1>9, <1>11, StoreKeeps
<1>13. /\ reply'[c] \in {a, [is |-> "none"]}
       /\ \A d \in Clients : d # c => pc'[d] = pc[d] /\ reply'[d] = reply[d]
       /\ \A d \in Clients : pc'[d] \notin {"load", "run", "write"}
  BY <1>0, <1>1, <1>3, FinishSpec
<1>14. HandSafe'
  BY <1>13, NobodyHolds
<1>15. Answered(a, seen[c], View(disk').journal)
  BY <1>1, <1>4, <1>7, <1>8, <1>10
<1>16. \A d \in Clients : pc'[d] = "answer" =>
            \/ pc[d] = "answer" /\ reply'[d] = reply[d]
            \/ Answered(reply'[d], seen[d], View(disk').journal)
  BY <1>13, <1>15, SaysNothing
<1>17. ToldSafe'
  BY <1>0, <1>1, <1>12, <1>16, ToldKeeps
<1>. QED
  BY <1>12, <1>14, <1>17 DEF Safe

\* A write that fails leaves nothing, part or all of its line, and a cache that will not
\* believe the file before the next barrier.
LEMMA WriteFailsSafe ==
    ASSUME Shape, Safe, NEW c \in Clients, WriteFails(c)
    PROVE  Safe'
<1>. DEFINE h == HandleOf[c]
            k == Mine(c)
            x == IF Upgrades(c) THEN Header ELSE RecordOf(c)
<1>0. /\ CachesOK /\ ClientsOK /\ LocksOK /\ ToldOK /\ StoreSafe /\ ToldSafe
      /\ pc[c] = "write" /\ lock = c /\ h \in Handles /\ GoodCache(k) /\ k \in CacheSet
  BY MineGood DEF WriteFails, Shape, LocksOK, Safe
<1>1. /\ Finish(c, Unknown)
      /\ acked' = acked /\ stored' = stored /\ cursor' = cursor /\ seen' = seen
  BY DEF WriteFails, told
<1>2. PICK w \in { << >>, <<Torn>>, <<x>>, <<x, Newline>> } :
        /\ SetFile(h, [k EXCEPT !.uncertain = TRUE, !.current = @ /\ w = << >>], file \o w)
        /\ disk' \in {disk} \cup (IF Len(w) = 2 THEN {file \o w} ELSE {})
  BY Zenon DEF WriteFails
<1>3. AtHand(k, file, disk) /\ Backed(file, disk) /\ file \in Seq(Chunk)
  BY <1>0, HandSpec DEF StoreSafe, Backed
<1>4. x \in Chunk /\ Accepts(k, x)
  <2>1. CASE Upgrades(c)
    BY <2>1, ChunksWritten DEF Upgrades, Accepts, Header
  <2>2. CASE ~Upgrades(c)
    BY <1>0, <2>2, RecordSpec
  <2>. QED
    BY <2>1, <2>2
<1>. HIDE DEF k, h, x
<1>. DEFINE f == file \o w
            l == [k EXCEPT !.uncertain = TRUE, !.current = (k.current /\ w = << >>)]
            e == file \o <<x>>
            g == file \o <<x, Newline>>
<1>5. /\ Becomes(file, disk, e, disk) /\ Becomes(file, disk, g, disk) /\ Becomes(file, disk, g, g)
  <2>1. InPlace(k, file) /\ k.offset = Len(file) /\ e = file \o <<x>> /\ g = file \o <<x, Newline>>
    BY <1>3 DEF AtHand
  <2>. HIDE DEF e, g
  <2>. QED
    BY <1>0, <1>3, <1>4, <2>1, LineWritten
<1>6. Becomes(file, disk, f, disk')
  <2>1. CASE w = << >>
    <3>1. f = file /\ Len(w) = 0
      BY <1>3, <2>1
    <3>2. disk' = disk
      BY <1>2, <3>1
    <3>. QED
      BY <1>3, <3>1, <3>2, BecomesSelf
  <2>2. CASE w = <<Torn>>
    <3>1. f = Append(file, Torn) /\ Len(w) = 1
      BY <1>3, <2>2, ChunksWritten
    <3>2. disk' = disk
      BY <1>2, <3>1
    <3>3. /\ Ending(Recovered(file)) = "clean" /\ k.journal = View(file).journal
          /\ k.upgraded = View(file).upgraded
      BY <1>0, <1>3, AtEnd DEF AtHand
    <3>4. Holds(View(file), View(disk))
      BY <1>3, <3>3 DEF AtHand, Holds
    <3>5. Becomes(file, disk, Append(file, Torn), disk)
      BY <1>3, <3>3, <3>4, RecordTorn
    <3>. QED
      BY <3>1, <3>2, <3>5
  <2>3. CASE w = <<x>>
    <3>1. f = e /\ Len(w) = 1
      BY <2>3
    <3>2. disk' = disk
      BY <1>2, <3>1
    <3>. QED
      BY <1>5, <3>1, <3>2
  <2>4. CASE w = <<x, Newline>>
    <3>1. f = g /\ Len(w) = 2
      BY <2>4
    <3>2. disk' = disk \/ disk' = g
      BY <1>2, <3>1
    <3>. QED
      BY <1>5, <3>1, <3>2
  <2>. QED
    BY <1>2, <2>1, <2>2, <2>3, <2>4
<1>. HIDE DEF f, e, g
<1>7. SetFile(h, l, f)
  BY <1>2, Zenon DEF f
<1>8. (k.current /\ w = << >>) \in BOOLEAN
  OBVIOUS
<1>9. /\ l \in CacheSet /\ l.journal = k.journal /\ l.upgraded = k.upgraded /\ l.offset = k.offset
      /\ l.uncertain = TRUE
  BY <1>0, <1>8 DEF CacheSet
<1>10. GoodCache(l)
  BY <1>0, <1>9, FlagsSpec
<1>. HIDE DEF l
<1>11. Sane(l, file, disk)
  <2>1. InPlace(k, file)
    BY <1>3 DEF AtHand
  <2>2. InPlace(l, file)
    BY <1>9, <2>1 DEF InPlace
  <2>. QED
    BY <1>9, <2>2 DEF Sane
<1>12. Sane(l, f, disk')
  BY <1>6, <1>10, <1>11 DEF Becomes
<1>13. StoreSafe' /\ Holds(View(disk), View(disk'))
  BY <1>0, <1>6, <1>7, <1>10, <1>12, StoreKeeps
<1>14. /\ reply'[c] \in {Unknown, [is |-> "none"]}
       /\ \A d \in Clients : d # c => pc'[d] = pc[d] /\ reply'[d] = reply[d]
       /\ \A d \in Clients : pc'[d] \notin {"load", "run", "write"}
  BY <1>0, <1>1, FinishSpec, RepliesSpec
<1>15. HandSafe'
  BY <1>14, NobodyHolds
<1>16. \A d \in Clients : pc'[d] = "answer" =>
            \/ pc[d] = "answer" /\ reply'[d] = reply[d]
            \/ Answered(reply'[d], seen[d], View(disk').journal)
  BY <1>14, SaysNothing
<1>17. ToldSafe'
  BY <1>0, <1>1, <1>13, <1>16, ToldKeeps
<1>. QED
  BY <1>13, <1>15, <1>17 DEF Safe

------------------------------------------------------------------------------
(* The inductive invariant, and what follows from it                         *)

\* The inductive invariant.
Upheld == Calm /\ Shape /\ Safe

\* Every step keeps the store safe.
LEMMA SafeNext == Upheld /\ [Next]_vars => Upheld'
<1>. SUFFICES ASSUME Calm, Shape, Safe, [Next]_vars PROVE Safe'
  BY ShapeNext DEF Upheld, Calm
<1>1. CASE UNCHANGED vars
  <2>1. /\ file' = file /\ disk' = disk /\ cache' = cache /\ pc' = pc /\ reply' = reply
        /\ UNCHANGED told
    BY <1>1 DEF vars, told
  <2>. QED
    BY <2>1, QuietSafe
<1>2. CASE Next
  <2>1. ASSUME NEW h \in Handles, Open(h) \/ Crash(h) PROVE Safe'
    BY <2>1, OpenSafe, CrashSafe
  <2>2. ASSUME NEW c \in Clients, Lock(c) \/ Work(c) PROVE Safe'
    BY <2>2, LockSafe, StartSafe, LoadSafe, PlanCommitSafe, PlanAppendSafe, ReadCommandSafe,
       ReadFromSafe, FlushSafe, WriteHeaderSafe, WriteRecordSafe, WriteFailsSafe, AnswerSafe
       DEF Work
  <2>3. ASSUME NEW c \in Clients, NEW o \in Operations, Submit(c, o) PROVE Safe'
    BY <2>3, SubmitSafe
  <2>. QED
    BY <1>2, <2>1, <2>2, <2>3, PowerFailureSafe DEF Next
<1>. QED
  BY <1>1, <1>2

\* The store is always safe.
LEMMA SafeAlways == Calm /\ Spec => []Upheld
<1>1. Calm /\ Init => Upheld
  BY ShapeInit, SafeInit DEF Upheld
<1>. QED
  BY <1>1, SafeNext, PTL DEF Spec

\* Nothing anyone was told or shown is lost by a death or a power failure: of a file that
\* has begun, and as long as the newline of a mended line does not fail on its own, every
\* answer leaves behind the barrier that makes it true.
THEOREM Durability == Calm => (Spec => []Survives)
<1>1. Upheld => Survives
  <2>. SUFFICES ASSUME ToldSafe PROVE Survives
    BY DEF Upheld, Safe
  <2>1. Durable = View(disk).journal
    BY DEF Durable, View
  <2>2. AckedSurvives
    BY <2>1 DEF ToldSafe, AckedSurvives, Recorded, Kept
  <2>3. SeenSurvives
    BY <2>1 DEF ToldSafe, SeenSurvives, Shown
  <2>. QED
    BY <2>2, <2>3 DEF Survives
<1>. QED
  BY <1>1, SafeAlways, PTL

\* After any failure the store opens again.
THEOREM Recovery == Calm => (Spec => []Recoverable)
<1>1. Upheld => Recoverable
  <2>. SUFFICES ASSUME StoreSafe, NEW f \in Survivors PROVE Ending(Recovered(f)) # "corrupt"
    BY DEF Upheld, Safe, Recoverable
  <2>. QED
    BY SurvivorBacked DEF StoreSafe, Backed, Opens
<1>. QED
  BY <1>1, SafeAlways, PTL

\* No operation runs on an index the file does not justify.
THEOREM CachesReplay == Calm => (Spec => []CacheIsReplay)
<1>1. Upheld => CacheIsReplay
  <2>. SUFFICES ASSUME StoreSafe, NEW h \in Handles
                PROVE  LET k == cache[h]
                       IN  /\ k.offset <= Len(file)
                           /\ LET s == Recovered(SubSeq(file, 1, k.offset))
                              IN  /\ Ending(s) \in {"clean", "unterminated"}
                                  /\ Moved(s).journal = k.journal
                                  /\ Moved(s).upgraded = k.upgraded
    BY DEF Upheld, Safe, CacheIsReplay
  <2>1. InPlace(cache[h], file)
    BY DEF StoreSafe, Sane
  <2>. QED
    BY <2>1 DEF InPlace
<1>. QED
  BY <1>1, SafeAlways, PTL
==============================================================================
