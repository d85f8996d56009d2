---------------------------- MODULE OutboxTheorems ----------------------------
(***************************************************************************)
(* The safety of Outbox for every set of notifications and workers, every      *)
(* capacity and time-to-live, and any number of failed appends and restarts.   *)
(*                                                                          *)
(* What a map of records has to keep does not depend on where it is held: that *)
(* a notification given to a channel is past sending, that every lease ever     *)
(* issued has a token the record knows, and that what callers were told of is   *)
(* there (Covers).  The store's map has it while a process is up, and so has     *)
(* the file while a replay can read it: with whole lines the file is the map,   *)
(* and with an unended line it is the map with at most one successor that was   *)
(* refused, and the next append makes it unreadable (Agrees).                  *)
(***************************************************************************)
EXTENDS Outbox, FiniteSetTheorems, NaturalsInduction, WellFoundedInduction, TLAPS

------------------------------------------------------------------------------
(* Maps of records                                                           *)

Maps == UNION { [S -> Records] : S \in SUBSET Ids }

Held == {"Claimed", "Submitted"}
Past == {"Submitted"} \cup Terminal

LeasedRecord(record) ==
    IF record.state \in Held THEN record.token = record.generation /\ record.owner # NoLease
    ELSE record.token = 0 /\ record.owner = NoLease

Leased(map) == \A id \in DOMAIN map : LeasedRecord(map[id])

Leases == [id : Ids, owner : { WorkerId[w] : w \in Workers } \cup {NoLease}, token : Nat,
           attempt : Nat \ {0}, expires : Nat]

Covers(map, spent, leases, told) ==
    /\ \A id \in spent : id \in DOMAIN map /\ map[id].state \in Past
    /\ \A l \in leases : l.id \in DOMAIN map /\ l.token <= map[l.id].generation
    /\ \A id \in Ids : told[id] > 0 => id \in DOMAIN map /\ map[id].revision >= told[id]

\* What the operations of a record make of it.
Succeeds(map, id, record) ==
    /\ id \in Ids /\ record \in Records /\ LeasedRecord(record)
    /\ Follows(map, id, record)
    /\ id \in DOMAIN map => map[id].generation <= record.generation

\* The caller is told of the record, or of nothing.
Tells(told, id, record, tells) ==
    /\ tells \in [Ids -> Nat]
    /\ \A x \in Ids : tells[x] = told[x] \/ (x = id /\ tells[x] = record.revision)

\* A map is a function from some of the ids to records.
LEMMA MapType ==
    ASSUME NEW map \in Maps
    PROVE  /\ DOMAIN map \in SUBSET Ids
           /\ \A id \in DOMAIN map : map[id] \in Records
           /\ map = [id \in DOMAIN map |-> map[id]]
<1>1. PICK S \in SUBSET Ids : map \in [S -> Records]
  BY DEF Maps
<1>. HIDE DEF Records
<1>. QED
  BY <1>1

\* Inserting a record changes that record and no other.
LEMMA WithType ==
    ASSUME NEW map \in Maps, NEW id \in Ids, NEW record \in Records
    PROVE  /\ With(map, id, record) \in Maps
           /\ DOMAIN With(map, id, record) = DOMAIN map \cup {id}
           /\ With(map, id, record)[id] = record
           /\ \A x \in DOMAIN map : x # id => With(map, id, record)[x] = map[x]
<1>1. DOMAIN map \in SUBSET Ids /\ \A x \in DOMAIN map : map[x] \in Records
  BY MapType
<1>2. /\ DOMAIN With(map, id, record) = DOMAIN map \cup {id}
      /\ With(map, id, record)[id] = record
      /\ \A x \in DOMAIN map : x # id => With(map, id, record)[x] = map[x]
  BY DEF With
<1>3. With(map, id, record) \in [DOMAIN map \cup {id} -> Records]
  BY <1>1 DEF With
<1>4. DOMAIN map \cup {id} \in SUBSET Ids
  BY <1>1
<1>. QED
  BY <1>2, <1>3, <1>4 DEF Maps

\* A record past sending is only followed by records past sending.
LEMMA PastStays ==
    ASSUME NEW map, NEW id \in DOMAIN map, NEW record, Follows(map, id, record),
           map[id].state \in Past
    PROVE  record.state \in Past
  BY DEF Follows, Past, Terminal, Edges

\* A successor keeps what a map has to keep, told of it or not.
LEMMA CoversWith ==
    ASSUME NEW map \in Maps, Leased(map), NEW spent \in SUBSET Ids, NEW leases \in SUBSET Leases,
           NEW told \in [Ids -> Nat], Covers(map, spent, leases, told),
           NEW id, NEW record, Succeeds(map, id, record),
           NEW tells, Tells(told, id, record, tells)
    PROVE  /\ Leased(With(map, id, record))
           /\ Covers(With(map, id, record), spent, leases, tells)
<1>. DEFINE new == With(map, id, record)
<1>1. /\ id \in Ids /\ record \in Records /\ LeasedRecord(record) /\ Follows(map, id, record)
      /\ id \in DOMAIN map => map[id].generation <= record.generation
  BY DEF Succeeds
<1>2. /\ new \in Maps /\ DOMAIN new = DOMAIN map \cup {id} /\ new[id] = record
      /\ \A x \in DOMAIN map : x # id => new[x] = map[x]
  BY <1>1, WithType
<1>3. /\ DOMAIN map \in SUBSET Ids /\ \A x \in DOMAIN map : map[x] \in Records
  BY MapType
<1>4. /\ record.revision \in Nat /\ record.generation \in Nat
      /\ \A x \in DOMAIN map : map[x].revision \in Nat /\ map[x].generation \in Nat
  BY <1>1, <1>3 DEF Records
<1>. HIDE DEF new
<1>5. Leased(new)
  BY <1>1, <1>2 DEF Leased
<1>6. \A x \in spent : x \in DOMAIN new /\ new[x].state \in Past
  BY <1>1, <1>2, PastStays DEF Covers
<1>7. ASSUME NEW l \in leases
      PROVE  l.id \in DOMAIN new /\ l.token <= new[l.id].generation
  <2>1. l.id \in DOMAIN map /\ l.token <= map[l.id].generation /\ l.token \in Nat
    BY <1>7 DEF Covers, Leases
  <2>2. CASE l.id # id
    BY <1>2, <2>1, <2>2
  <2>3. CASE l.id = id
    BY <1>1, <1>2, <1>4, <2>1, <2>3
  <2>. QED
    BY <2>2, <2>3
<1>8. id \in DOMAIN map => record.revision = map[id].revision + 1
  BY <1>1 DEF Follows
<1>9. ASSUME NEW x \in Ids, tells[x] > 0
      PROVE  x \in DOMAIN new /\ new[x].revision >= tells[x]
  <2>1. told[x] > 0 => x \in DOMAIN map /\ map[x].revision >= told[x] /\ told[x] \in Nat
    BY DEF Covers
  <2>2. tells[x] \in Nat /\ (tells[x] = told[x] \/ (x = id /\ tells[x] = record.revision))
    BY DEF Tells
  <2>3. CASE x # id
    BY <1>2, <1>9, <2>1, <2>2, <2>3
  <2>4. CASE x = id
    BY <1>2, <1>4, <1>8, <1>9, <2>1, <2>2, <2>4
  <2>. QED
    BY <2>3, <2>4
<1>10. Covers(new, spent, leases, tells)
  BY <1>6, <1>7, <1>9 DEF Covers
<1>. QED
  BY <1>5, <1>10 DEF new

------------------------------------------------------------------------------
(* The file                                                                  *)

Pressures == [admitted : Nat, shed : Nat]
Files == [readable : BOOLEAN, records : Maps, pressure : Pressures, ended : BOOLEAN]

\* The empty file and the one no replay can read are files.
LEMMA EmptyFileType ==
    /\ EmptyMap \in Maps /\ DOMAIN EmptyMap = {}
    /\ EmptyFile \in Files /\ Corrupt \in Files /\ ~Corrupt.readable
    /\ Leased(EmptyMap) /\ Leased(Corrupt.records)
<1>1. EmptyMap \in [{} -> Records] /\ DOMAIN EmptyMap = {}
  BY DEF EmptyMap
<1>2. EmptyMap \in Maps
  BY <1>1 DEF Maps
<1>3. EmptyFile \in Files
  BY <1>2 DEF EmptyFile, Files, Pressures, NoPressure
<1>4. Corrupt \in Files /\ ~Corrupt.readable /\ Corrupt.records = EmptyMap
  BY <1>2 DEF Corrupt, EmptyFile, Files, Pressures, NoPressure
<1>. QED
  BY <1>1, <1>2, <1>3, <1>4 DEF Leased

\* A replayed record makes the file what With makes of its map, or unreadable.
LEMMA WithRecordType ==
    ASSUME NEW f \in Files, NEW id \in Ids, NEW record \in Records
    PROVE  LET g == WithRecord(f, id, record)
           IN  /\ g \in Files
               /\ g.readable => /\ f.readable /\ Follows(f.records, id, record)
                                /\ g.records = With(f.records, id, record)
                                /\ g.pressure = f.pressure /\ g.ended = f.ended
               /\ f.readable /\ Follows(f.records, id, record) => g.readable
               /\ ~g.readable => g = Corrupt
<1>1. f.records \in Maps
  BY DEF Files
<1>2. With(f.records, id, record) \in Maps
  BY <1>1, WithType
<1>. HIDE DEF Maps, Pressures
<1>3. CASE f.readable /\ Follows(f.records, id, record)
  BY <1>2, <1>3 DEF WithRecord, Files
<1>4. CASE ~(f.readable /\ Follows(f.records, id, record))
  BY <1>4, EmptyFileType DEF WithRecord
<1>. QED
  BY <1>3, <1>4

\* A replayed admission only counts.
LEMMA WithAdmissionType ==
    ASSUME NEW f \in Files, NEW admitted \in BOOLEAN
    PROVE  LET g == WithAdmission(f, admitted)
           IN  /\ g \in Files
               /\ f.readable = g.readable
               /\ g.readable => /\ g.records = f.records /\ g.ended = f.ended
                                /\ g.pressure = Counted(f.pressure, admitted)
               /\ ~g.readable => g = Corrupt
<1>1. Counted(f.pressure, admitted) \in Pressures
  BY DEF Counted, Pressures, Files
<1>2. CASE f.readable
  <2>. HIDE DEF Maps, Pressures
  <2>. QED
    BY <1>1, <1>2 DEF WithAdmission, Files
<1>3. CASE ~f.readable
  BY <1>3, EmptyFileType DEF WithAdmission, Files
<1>. QED
  BY <1>2, <1>3

\* An append to a file with an unended line makes it unreadable.
LEMMA AppendedType ==
    ASSUME NEW f \in Files, NEW g \in Files
    PROVE  /\ Appended(f, g) \in Files
           /\ Appended(f, g).readable => f.ended /\ Appended(f, g) = g
           /\ ~f.ended => Appended(f, g) = Corrupt
           /\ f.ended => Appended(f, g) = g
  BY EmptyFileType DEF Appended

\* A failed append leaves the file, or an unended line: the frame's, or garbage.
LEMMA AppendFailedType ==
    ASSUME NEW f \in Files, NEW g \in Files, g.readable \/ g = Corrupt,
           NEW h \in AppendFailed(f, g)
    PROVE  /\ h \in Files
           /\ ~h.readable => h.records \in {f.records, EmptyMap}
           /\ h.readable =>
                 \/ h = f
                 \/ f.ended /\ g.readable /\ ~h.ended /\ h.records = g.records
<1>1. CASE h = f
  BY <1>1
<1>2. CASE h = [Corrupt EXCEPT !.ended = FALSE]
  <2>. HIDE DEF Maps, Pressures
  <2>1. Corrupt.records = EmptyMap
    BY DEF Corrupt, EmptyFile
  <2>. QED
    BY <1>2, <2>1, EmptyFileType DEF Files
<1>3. CASE h = [Appended(f, g) EXCEPT !.ended = FALSE]
  <2>. HIDE DEF Maps, Pressures
  <2>1. Corrupt.records = EmptyMap
    BY DEF Corrupt, EmptyFile
  <2>2. CASE f.ended
    BY <1>3, <2>1, <2>2, AppendedType DEF Files
  <2>3. CASE ~f.ended
    BY <1>3, <2>1, <2>3, AppendedType, EmptyFileType DEF Files
  <2>. QED
    BY <2>2, <2>3
<1>. QED
  BY <1>1, <1>2, <1>3 DEF AppendFailed


------------------------------------------------------------------------------
(* The map and its file                                                      *)

\* A file a replay can read has the map of the process, or, on an unended line, one
\* successor more.
Agrees(map, f, failed) ==
    \/ f.records = map
    \/ /\ ~f.ended /\ failed > 0
       /\ \E id \in Ids, record \in Records :
            Succeeds(map, id, record) /\ f.records = With(map, id, record)

\* What holds between a map, its counters and a file.
Kept(map, count, f, open, spent, leases, told, failed) ==
    /\ map \in Maps /\ Leased(map) /\ count \in Pressures
    /\ f \in Files /\ Leased(f.records)
    /\ told \in [Ids -> Nat] /\ spent \in SUBSET Ids /\ leases \in SUBSET Leases
    /\ failed \in Nat
    /\ open => Covers(map, spent, leases, told)
    /\ f.readable => Covers(f.records, spent, leases, told)
    /\ open /\ f.readable => Agrees(map, f, failed)
    /\ failed = 0 => f.readable /\ f.ended /\ (open => f.pressure = count)

\* What a replay makes of the file is the map.
Shows(f, map) == f.readable => f.records = map

\* Before the first failed append.
Whole(count, f, failed) == failed = 0 => f.readable /\ f.ended /\ f.pressure = count

\* A file that cannot be read, or whose map is the process's, is kept when the map is.
LEMMA SameIsKept ==
    ASSUME NEW map \in Maps, Leased(map), NEW count \in Pressures, NEW f \in Files,
           Leased(f.records),
           NEW told \in [Ids -> Nat], NEW spent \in SUBSET Ids, NEW leases \in SUBSET Leases,
           NEW failed \in Nat, Covers(map, spent, leases, told),
           Shows(f, map),
           Whole(count, f, failed)
    PROVE  Kept(map, count, f, TRUE, spent, leases, told, failed)
<1>. HIDE DEF Maps, Pressures, Files, Leases, Records
<1>. QED
  BY DEF Kept, Agrees, Whole, Shows

\* A record that is appended in full is kept, with or without telling the caller.
LEMMA CommitKeeps ==
    ASSUME NEW map, NEW count, NEW f, NEW spent, NEW leases, NEW told, NEW failed,
           Kept(map, count, f, TRUE, spent, leases, told, failed),
           NEW id, NEW record, Succeeds(map, id, record),
           NEW tells, Tells(told, id, record, tells),
           NEW new, new = With(map, id, record),
           NEW g, g = Appended(f, WithRecord(f, id, record))
    PROVE  /\ new \in Maps /\ Leased(new) /\ g \in Files /\ Leased(g.records)
           /\ Covers(new, spent, leases, tells)
           /\ Shows(g, new)
           /\ g.readable \/ g = Corrupt
           /\ Whole(count, g, failed)
<1>. DEFINE w == WithRecord(f, id, record)
<1>1. /\ id \in Ids /\ record \in Records /\ Follows(map, id, record)
  BY DEF Succeeds
<1>2. /\ map \in Maps /\ f \in Files /\ Leased(map) /\ Leased(f.records)
      /\ told \in [Ids -> Nat] /\ spent \in SUBSET Ids /\ leases \in SUBSET Leases
      /\ Covers(map, spent, leases, told)
      /\ f.readable => Agrees(map, f, failed)
      /\ failed = 0 => f.readable /\ f.ended /\ f.pressure = count
  BY DEF Kept
<1>0. g = Appended(f, w)
  OBVIOUS
<1>. HIDE DEF Maps, Pressures, Files, Leases, Records, w
<1>4. new \in Maps
  BY <1>1, <1>2, WithType
<1>5. /\ Leased(new) /\ Covers(new, spent, leases, tells)
  BY <1>2, CoversWith
<1>6. /\ w \in Files
      /\ w.readable => /\ f.readable
                       /\ w.records = With(f.records, id, record)
                       /\ w.pressure = f.pressure /\ w.ended = f.ended
      /\ f.readable /\ Follows(f.records, id, record) => w.readable
      /\ ~w.readable => w = Corrupt
  BY <1>1, <1>2, WithRecordType DEF w
<1>7. /\ g \in Files
      /\ g.readable => f.ended /\ g = w
      /\ ~f.ended => g = Corrupt
      /\ f.ended => g = w
  BY <1>2, <1>0, <1>6, AppendedType
<1>8. g.readable => f.ended /\ f.readable /\ g = w /\ f.records = map /\ g.records = new
  BY <1>2, <1>6, <1>7 DEF Agrees
<1>9. Leased(g.records)
  <2>1. CASE g.readable
    BY <1>5, <1>8, <2>1
  <2>2. CASE ~g.readable
    BY <1>6, <1>7, <2>2, EmptyFileType
  <2>. QED
    BY <2>1, <2>2
<1>10. ASSUME failed = 0
       PROVE  g.readable /\ g.ended /\ g.pressure = count
  <2>1. f.readable /\ f.ended /\ f.records = map /\ f.pressure = count
    BY <1>2, <1>10 DEF Agrees
  <2>. QED
    BY <1>1, <1>6, <1>7, <2>1
<1>. QED
  BY <1>4, <1>5, <1>6, <1>7, <1>8, <1>9, <1>10 DEF Whole, Shows

\* A record whose append fails is kept too: the process has not changed, and the file
\* is unended if anything reached it.
LEMMA RefusalKeeps ==
    ASSUME NEW map, NEW count, NEW f, NEW spent, NEW leases, NEW told, NEW failed,
           Kept(map, count, f, TRUE, spent, leases, told, failed),
           NEW id, NEW record, Succeeds(map, id, record),
           NEW g \in AppendFailed(f, WithRecord(f, id, record))
    PROVE  Kept(map, count, g, TRUE, spent, leases, told, failed + 1)
<1>. DEFINE w == WithRecord(f, id, record)
<1>1. /\ id \in Ids /\ record \in Records
  BY DEF Succeeds
<1>2. /\ map \in Maps /\ f \in Files /\ Leased(map) /\ Leased(f.records) /\ count \in Pressures
      /\ told \in [Ids -> Nat] /\ spent \in SUBSET Ids /\ leases \in SUBSET Leases
      /\ failed \in Nat
      /\ Covers(map, spent, leases, told)
      /\ f.readable => Covers(f.records, spent, leases, told) /\ Agrees(map, f, failed)
  BY DEF Kept
<1>3. failed + 1 \in Nat /\ failed + 1 # 0 /\ failed + 1 > 0
  BY <1>2
<1>. HIDE DEF Maps, Pressures, Files, Leases, Records, w
<1>4. /\ w \in Files
      /\ w.readable => f.readable /\ w.records = With(f.records, id, record)
      /\ ~w.readable => w = Corrupt
  BY <1>1, <1>2, WithRecordType DEF w
<1>5. /\ g \in Files
      /\ ~g.readable => g.records \in {f.records, EmptyMap}
      /\ g.readable => g = f \/ (f.ended /\ w.readable /\ ~g.ended /\ g.records = w.records)
  <2>1. g \in AppendFailed(f, w)
    BY DEF w
  <2>. QED
    BY <1>2, <1>4, <2>1, AppendFailedType
<1>6. /\ Leased(With(map, id, record)) /\ Covers(With(map, id, record), spent, leases, told)
  <2>1. Tells(told, id, record, told)
    BY <1>2 DEF Tells
  <2>. QED
    BY <1>2, <2>1, CoversWith
<1>7. CASE g = f
  <2>1. f.readable => Agrees(map, f, failed + 1)
    BY <1>2, <1>3 DEF Agrees
  <2>. QED
    BY <1>2, <1>3, <1>7, <2>1 DEF Kept
<1>8. CASE g.readable /\ g # f
  <2>1. /\ f.ended /\ f.readable /\ ~g.ended
        /\ f.records = map /\ g.records = With(map, id, record)
    BY <1>2, <1>4, <1>5, <1>8 DEF Agrees
  <2>2. Agrees(map, g, failed + 1)
    BY <1>1, <1>3, <2>1 DEF Agrees
  <2>. QED
    BY <1>2, <1>3, <1>5, <1>6, <2>1, <2>2 DEF Kept
<1>9. CASE ~g.readable
  <2>1. Leased(g.records)
    <3>1. CASE g.records = f.records
      BY <1>2, <3>1
    <3>2. CASE g.records = EmptyMap
      BY <3>2, EmptyFileType
    <3>. QED
      BY <1>5, <1>9, <3>1, <3>2
  <2>. QED
    BY <1>2, <1>3, <1>5, <1>9, <2>1 DEF Kept
<1>. QED
  BY <1>7, <1>8, <1>9

\* An admission that is appended or not keeps all of it: it touches no record.
LEMMA AdmissionKeeps ==
    ASSUME NEW map, NEW count, NEW f, NEW spent, NEW leases, NEW told, NEW failed,
           Kept(map, count, f, TRUE, spent, leases, told, failed), NEW admitted \in BOOLEAN,
           NEW g, g = WithAdmission(f, admitted)
    PROVE  /\ Kept(map, Counted(count, admitted), Appended(f, g), TRUE,
                   spent, leases, told, failed)
           /\ \A h \in AppendFailed(f, g) :
                Kept(map, count, h, TRUE, spent, leases, told, failed + 1)
<1>1. /\ map \in Maps /\ f \in Files /\ Leased(map) /\ Leased(f.records) /\ count \in Pressures
      /\ told \in [Ids -> Nat] /\ spent \in SUBSET Ids /\ leases \in SUBSET Leases
      /\ failed \in Nat
      /\ Covers(map, spent, leases, told)
      /\ f.readable => Covers(f.records, spent, leases, told) /\ Agrees(map, f, failed)
      /\ failed = 0 => f.readable /\ f.ended /\ f.pressure = count
  BY DEF Kept
<1>2. Counted(count, admitted) \in Pressures
  BY <1>1 DEF Counted, Pressures
<1>3. failed + 1 \in Nat /\ failed + 1 # 0 /\ failed + 1 > 0
  BY <1>1
<1>. HIDE DEF Maps, Pressures, Files, Leases, Records
<1>4. /\ g \in Files /\ f.readable = g.readable
      /\ g.readable => /\ g.records = f.records /\ g.ended = f.ended
                       /\ g.pressure = Counted(f.pressure, admitted)
      /\ ~g.readable => g = Corrupt
  BY <1>1, WithAdmissionType
<1>5. f.readable /\ f.ended => f.records = map
  BY <1>1 DEF Agrees
<1>6. ASSUME NEW h, h = Appended(f, g)
      PROVE  Kept(map, Counted(count, admitted), h, TRUE, spent, leases, told, failed)
  <2>1. /\ h \in Files
        /\ h.readable => f.ended /\ h = g
        /\ ~f.ended => h = Corrupt
        /\ f.ended => h = g
    BY <1>1, <1>4, <1>6, AppendedType
  <2>2. Shows(h, map)
    BY <1>4, <1>5, <2>1 DEF Shows
  <2>3. Leased(h.records)
    BY <1>1, <1>4, <2>1, EmptyFileType
  <2>4. Whole(Counted(count, admitted), h, failed)
    BY <1>1, <1>4, <2>1 DEF Whole
  <2>. QED
    BY <1>1, <1>2, <2>1, <2>2, <2>3, <2>4, SameIsKept
<1>7. ASSUME NEW h \in AppendFailed(f, g)
      PROVE  Kept(map, count, h, TRUE, spent, leases, told, failed + 1)
  <2>1. /\ h \in Files
        /\ ~h.readable => h.records \in {f.records, EmptyMap}
        /\ h.readable => h = f \/ (f.ended /\ g.readable /\ ~h.ended /\ h.records = g.records)
    BY <1>1, <1>4, AppendFailedType
  <2>2. CASE h = f
    <3>1. f.readable => Agrees(map, f, failed + 1)
      BY <1>1, <1>3 DEF Agrees
    <3>. QED
      BY <1>1, <1>3, <2>2, <3>1 DEF Kept
  <2>3. CASE h # f
    <3>1. Shows(h, map)
      BY <1>4, <1>5, <2>1, <2>3 DEF Shows
    <3>2. Leased(h.records)
      BY <1>1, <2>1, <3>1, EmptyFileType DEF Shows
    <3>3. Whole(count, h, failed + 1)
      BY <1>3 DEF Whole
    <3>. QED
      BY <1>1, <1>3, <2>1, <3>1, <3>2, <3>3, SameIsKept
  <2>. QED
    BY <2>2, <2>3
<1>. QED
  BY <1>6, <1>7

\* Fewer notifications to account for.
LEMMA FewerKept ==
    ASSUME NEW map, NEW count, NEW f, NEW open, NEW spent, NEW leases, NEW told, NEW failed,
           Kept(map, count, f, open, spent, leases, told, failed),
           NEW fewer \in SUBSET spent
    PROVE  Kept(map, count, f, open, fewer, leases, told, failed)
<1>. HIDE DEF Maps, Pressures, Files, Leases, Records
<1>. QED
  BY DEF Kept, Covers

------------------------------------------------------------------------------
(* The records an operation may write                                        *)

Owners == { WorkerId[w] : w \in Workers } \cup {NoLease}

\* The numbers of a record.
LEMMA RecordNumbers ==
    ASSUME NEW r \in Records
    PROVE  /\ r.revision + 1 \in Nat /\ r.revision + 1 # 0
           /\ r.generation \in Nat /\ r.generation + 1 \in Nat
           /\ r.attempt \in Nat /\ r.attempt # 0 /\ r.attempt + 1 \in Nat /\ r.attempt + 1 # 0
  BY DEF Records

\* What a claim writes over a record, field by field.
LEMMA RecordUpdate ==
    ASSUME NEW S, NEW O, NEW R,
           R = [state : S, revision : Nat \ {0}, owner : O, token : Nat,
                generation : Nat, expires : Nat, attempt : Nat \ {0}],
           NEW r \in R, NEW state \in S, NEW next \in Nat, next # 0, NEW owner \in O,
           NEW token \in Nat, NEW generation \in Nat, NEW expires \in Nat,
           NEW attempt \in Nat, attempt # 0, NEW new,
           new = [r EXCEPT !.state = state, !.revision = next, !.owner = owner,
                           !.generation = generation, !.token = token,
                           !.expires = expires, !.attempt = attempt]
    PROVE  /\ new \in R /\ new.state = state /\ new.revision = next
           /\ new.owner = owner /\ new.token = token /\ new.generation = generation
<1>1. DOMAIN r = {"state", "revision", "owner", "token", "generation", "expires", "attempt"}
  OBVIOUS
<1>2. /\ new.state = state /\ new.revision = next /\ new.owner = owner
      /\ new.token = token /\ new.generation = generation
      /\ new.expires = expires /\ new.attempt = attempt
  BY <1>1
<1>3. new = [state |-> state, revision |-> next, owner |-> owner, token |-> token,
             generation |-> generation, expires |-> expires, attempt |-> attempt]
  BY <1>1
<1>. QED
  BY <1>2, <1>3

\* A new record can be the first of its id.
LEMMA NewSucceeds ==
    ASSUME NEW map \in Maps, NEW id \in Ids, id \notin DOMAIN map
    PROVE  Succeeds(map, id, NewRecord)
  BY DEF Succeeds, NewRecord, Records, States, LeasedRecord, Held, Follows

\* A claim of a record nobody holds can follow it, and its token is its generation.
LEMMA ClaimedSucceeds ==
    ASSUME OutboxAssumption, NEW map \in Maps, Leased(map), NEW id \in DOMAIN map,
           NEW w \in Workers, clock \in Nat, Unheld(map[id])
    PROVE  LET record == Claimed(map[id], WorkerId[w])
           IN  /\ Succeeds(map, id, record)
               /\ record.token = record.generation
               /\ record.generation = map[id].generation + 1
               /\ CurrentLease(id, record) \in Leases
<1>1. id \in Ids /\ map[id] \in Records /\ LeasedRecord(map[id])
  BY MapType DEF Leased
<1>2. /\ TTL \in Nat \ {0} /\ WorkerId[w] # NoLease
  BY DEF OutboxAssumption
<1>3. map[id].state \in {"Pending", "Claimed"}
  BY DEF Unheld
<1>. DEFINE r == map[id]
            record == Claimed(r, WorkerId[w])
<1>. HIDE DEF r
<1>4. /\ r \in Records /\ r.state \in {"Pending", "Claimed"}
  BY <1>1, <1>3 DEF r
<1>5. /\ record \in Records /\ record.state = "Claimed"
      /\ record.token = r.generation + 1 /\ record.generation = r.generation + 1
      /\ record.owner = WorkerId[w] /\ record.revision = r.revision + 1
  <2>1. PICK next, generation, expires, attempt \in Nat :
           /\ next = r.revision + 1 /\ next # 0
           /\ generation = r.generation + 1 /\ expires = clock + TTL
           /\ attempt = (IF r.state = "Claimed" THEN r.attempt + 1 ELSE r.attempt)
           /\ attempt # 0
    <3>. DEFINE attempts == IF r.state = "Claimed" THEN r.attempt + 1 ELSE r.attempt
    <3>1. /\ r.revision + 1 \in Nat /\ r.revision + 1 # 0 /\ r.generation + 1 \in Nat
          /\ clock + TTL \in Nat /\ attempts \in Nat /\ attempts # 0
      <4>. HIDE DEF Records
      <4>. QED
        BY <1>2, <1>4, RecordNumbers
    <3>. HIDE DEF Records, attempts
    <3>. QED
      BY <3>1, Zenon DEF attempts
  <2>2. PICK state \in States, owner \in Owners : state = "Claimed" /\ owner = WorkerId[w]
    BY DEF States, Owners
  <2>. DEFINE new == [r EXCEPT !.state = state, !.revision = next, !.owner = owner,
                               !.generation = generation, !.token = generation,
                               !.expires = expires, !.attempt = attempt]
  <2>3. /\ new \in Records /\ new.state = state /\ new.revision = next
        /\ new.owner = owner /\ new.token = generation /\ new.generation = generation
    <3>1. Records = [state : States, revision : Nat \ {0}, owner : Owners, token : Nat,
                     generation : Nat, expires : Nat, attempt : Nat \ {0}]
      BY DEF Records, Owners
    <3>. HIDE DEF Records, Owners, States
    <3>. QED
      BY <1>4, <2>1, <3>1, RecordUpdate
  <2>4. new = record
    BY <2>1, <2>2 DEF Claimed
  <2>. HIDE DEF Records, record, new
  <2>. QED
    BY <2>1, <2>2, <2>3, <2>4
<1>6. LeasedRecord(record)
  BY <1>2, <1>5 DEF LeasedRecord, Held
<1>7. r.generation \in Nat
  BY <1>4 DEF Records
<1>8. <<r.state, record.state>> \in Edges \/ (r.state = record.state /\ record.token # 0)
  BY <1>4, <1>5, <1>7 DEF Edges
<1>9. Follows(map, id, record)
  BY <1>5, <1>7, <1>8 DEF Follows, r
<1>10. CurrentLease(id, record) \in Leases
  BY <1>1, <1>5 DEF CurrentLease, Leases, Records
<1>. QED
  BY <1>1, <1>5, <1>6, <1>7, <1>9, <1>10 DEF Succeeds, r

\* A claimed record may become a submitted one.
LEMMA SubmittedSucceeds ==
    ASSUME NEW map \in Maps, Leased(map), NEW id \in DOMAIN map, map[id].state = "Claimed"
    PROVE  /\ Succeeds(map, id, Submitted(map[id]))
           /\ Submitted(map[id]).state = "Submitted"
<1>1. id \in Ids /\ map[id] \in Records /\ LeasedRecord(map[id])
  BY MapType DEF Leased
<1>2. /\ Submitted(map[id]) \in Records /\ Submitted(map[id]).state = "Submitted"
      /\ Submitted(map[id]).revision = map[id].revision + 1
      /\ Submitted(map[id]).token = map[id].token /\ Submitted(map[id]).owner = map[id].owner
      /\ Submitted(map[id]).generation = map[id].generation /\ map[id].generation \in Nat
  <2>. DEFINE r == map[id]
  <2>. HIDE DEF r
  <2>1. r \in Records
    BY <1>1 DEF r
  <2>2. PICK next \in Nat : next = r.revision + 1 /\ next # 0
    BY <2>1, RecordNumbers
  <2>3. PICK state \in States : state = "Submitted"
    BY DEF States
  <2>. DEFINE new == [r EXCEPT !.state = state, !.revision = next]
  <2>4. /\ new \in Records /\ new.state = state /\ new.revision = next
        /\ new.owner = r.owner /\ new.token = r.token /\ new.generation = r.generation
    BY <2>1, <2>2 DEF Records
  <2>5. new = Submitted(r)
    BY <2>2, <2>3 DEF Submitted
  <2>. HIDE DEF Records, new
  <2>. QED
    BY <2>1, <2>2, <2>3, <2>4, <2>5, RecordNumbers DEF r
<1>. HIDE DEF Records
<1>3. LeasedRecord(Submitted(map[id]))
  BY <1>1, <1>2 DEF LeasedRecord, Held
<1>4. Follows(map, id, Submitted(map[id]))
  BY <1>2 DEF Follows, Edges
<1>. QED
  BY <1>1, <1>2, <1>3, <1>4 DEF Succeeds

\* A record may be cleared along an edge of its life cycle that ends unheld.
LEMMA ClearedSucceeds ==
    ASSUME NEW map \in Maps, Leased(map), NEW id \in DOMAIN map,
           NEW state \in States \ Held, <<map[id].state, state>> \in Edges
    PROVE  Succeeds(map, id, Cleared(map[id], state))
<1>. DEFINE record == Cleared(map[id], state)
<1>1. id \in Ids /\ map[id] \in Records /\ LeasedRecord(map[id])
  BY MapType DEF Leased
<1>2. /\ record \in Records /\ record.state = state
      /\ record.revision = map[id].revision + 1
      /\ record.token = 0 /\ record.owner = NoLease
      /\ record.generation = map[id].generation /\ map[id].generation \in Nat
  <2>. DEFINE r == map[id]
  <2>. HIDE DEF r
  <2>1. r \in Records
    BY <1>1 DEF r
  <2>2. PICK next \in Nat : next = r.revision + 1 /\ next # 0
    BY <2>1, RecordNumbers
  <2>. DEFINE new == [r EXCEPT !.state = state, !.revision = next,
                               !.owner = NoLease, !.token = 0, !.expires = 0]
  <2>3. /\ new \in Records /\ new.state = state /\ new.revision = next
        /\ new.owner = NoLease /\ new.token = 0 /\ new.generation = r.generation
    BY <2>1, <2>2 DEF Records
  <2>4. new = Cleared(r, state)
    BY <2>2 DEF Cleared
  <2>. HIDE DEF Records, new
  <2>. QED
    BY <2>1, <2>2, <2>3, <2>4, RecordNumbers DEF r
<1>. HIDE DEF Records, record
<1>3. LeasedRecord(record)
  BY <1>2 DEF LeasedRecord
<1>4. Follows(map, id, record)
  BY <1>2 DEF Follows, Held
<1>. QED
  BY <1>1, <1>2, <1>3, <1>4 DEF Succeeds, record

------------------------------------------------------------------------------
(* The inductive invariant                                                   *)

Steps == {"idle", "submit", "release", "send", "sent"}
Tasks == [step : Steps, id : Ids \cup {0}, lease : Leases \cup {NoLease}]

\* What went to a channel, or will.
Spent == { id \in Ids : \/ sends[id] > 0
                        \/ \E w \in Workers : task[w].step = "send" /\ task[w].id = id }

StoreInv == Kept(records, pressure, file, up, Spent, issued, promised, faults)

TaskInv ==
    /\ task \in [Workers -> Tasks]
    /\ sends \in [Ids -> Nat]
    /\ \A w \in Workers : task[w].step # "idle" => up /\ task[w].id \in DOMAIN records
    /\ \A id \in Ids : sends[id] <= 1
    /\ \A w \in Workers : task[w].step = "send" => sends[task[w].id] = 0
    /\ \A v, w \in Workers : /\ task[v].step = "send" /\ task[w].step = "send"
                             /\ task[v].id = task[w].id
                             => v = w

WorldInv == clock \in 0 .. MaxClock /\ up \in BOOLEAN /\ stale \in SUBSET Ids

Inv == WorldInv /\ StoreInv /\ TaskInv /\ LeasesApart

Store(spent) == Kept(records, pressure, file, up, spent, issued, promised, faults)

\* Init makes it hold.
LEMMA InitInv == ASSUME OutboxAssumption, Init PROVE Inv
<1>1. Spent = {}
  BY DEF Init, Spent, Idle
<1>2. /\ records = EmptyMap /\ file = EmptyFile /\ pressure = NoPressure /\ issued = {}
      /\ promised = [id \in Ids |-> 0] /\ faults = 0 /\ up
  BY DEF Init
<1>3. /\ pressure \in Pressures /\ promised \in [Ids -> Nat] /\ faults \in Nat
      /\ issued \in SUBSET Leases /\ {} \in SUBSET Ids
  BY <1>2 DEF NoPressure, Pressures
<1>4. EmptyFile.records = EmptyMap /\ EmptyFile.pressure = NoPressure
      /\ EmptyFile.readable /\ EmptyFile.ended
  BY DEF EmptyFile
<1>5. Covers(records, {}, issued, promised) /\ Whole(pressure, file, faults) /\ Shows(file, records)
  BY <1>2, <1>4 DEF Covers, Whole, Shows
<1>6. StoreInv
  <2>. HIDE DEF Maps, Pressures, Files, Leases, Records
  <2>1. Kept(records, pressure, file, TRUE, {}, issued, promised, faults)
    BY <1>2, <1>3, <1>4, <1>5, EmptyFileType, SameIsKept
  <2>. QED
    BY <1>1, <1>2, <2>1 DEF StoreInv, Kept
<1>7. TaskInv
  <2>1. Idle \in Tasks
    BY DEF Idle, Tasks, Steps
  <2>. QED
    BY <2>1 DEF Init, TaskInv, Idle
<1>8. WorldInv /\ LeasesApart
  BY DEF Init, WorldInv, LeasesApart, OutboxAssumption
<1>. QED
  BY <1>6, <1>7, <1>8 DEF Inv

------------------------------------------------------------------------------
(* Changes of the store                                                      *)

\* A record that is committed; a submission may be sent from then on, and a claim's
\* lease is handed out.
LEMMA CommitInv ==
    ASSUME StoreInv, up, NEW id, NEW record, Succeeds(records, id, record),
           Commit(id, record), up',
           \A x \in Spent' : x \in Spent \/ (x = id /\ record.state \in Past),
           issued' \in SUBSET Leases,
           \A l \in issued' : l \in issued \/ (l.id = id /\ l.token <= record.generation)
    PROVE  /\ StoreInv'
           /\ DOMAIN records' = DOMAIN records \cup {id}
<1>1. Kept(records, pressure, file, TRUE, Spent, issued, promised, faults)
  BY DEF StoreInv, Kept
<1>2. /\ file' = Appended(file, WithRecord(file, id, record))
      /\ records' = With(records, id, record)
      /\ promised' = [promised EXCEPT ![id] = record.revision]
      /\ pressure' = pressure /\ faults' = faults
  BY DEF Commit
<1>3. /\ pressure \in Pressures /\ Spent \in SUBSET Ids /\ issued \in SUBSET Leases
      /\ faults \in Nat
  BY <1>1 DEF Kept
<1>. HIDE DEF Maps, Pressures, Files, Leases, Records
<1>4. Tells(promised, id, record, promised')
  <2>1. id \in Ids /\ record \in Records /\ promised \in [Ids -> Nat]
    BY <1>1 DEF Succeeds, Kept
  <2>2. record.revision \in Nat
    BY <2>1 DEF Records
  <2>. QED
    BY <1>2, <2>1, <2>2 DEF Tells
<1>5. /\ records' = With(records, id, record)
      /\ file' = Appended(file, WithRecord(file, id, record))
  BY <1>2
<1>6. /\ records' \in Maps /\ Leased(records') /\ file' \in Files /\ Leased(file'.records)
      /\ Covers(records', Spent, issued, promised')
      /\ Shows(file', records') /\ Whole(pressure, file', faults)
  BY <1>1, <1>4, <1>5, CommitKeeps
<1>7. DOMAIN records' = DOMAIN records \cup {id} /\ records'[id] = record
  BY <1>2 DEF With
<1>8. Spent' \in SUBSET Ids
  BY DEF Spent
<1>9. Covers(records', Spent', issued', promised')
  BY <1>6, <1>7 DEF Covers
<1>10. promised' \in [Ids -> Nat]
  BY <1>4 DEF Tells
<1>11. Kept(records', pressure', file', TRUE, Spent', issued', promised', faults')
  BY <1>2, <1>3, <1>6, <1>8, <1>9, <1>10, SameIsKept
<1>. QED
  BY <1>7, <1>11 DEF StoreInv, Kept

\* A record whose append fails.
LEMMA RefusalInv ==
    ASSUME StoreInv, up, NEW id, NEW record, Succeeds(records, id, record),
           CommitFails(id, record), up', issued' = issued, Spent' \in SUBSET Spent
    PROVE  StoreInv'
<1>1. Kept(records, pressure, file, TRUE, Spent, issued, promised, faults)
  BY DEF StoreInv, Kept
<1>2. /\ file' \in AppendFailed(file, WithRecord(file, id, record))
      /\ faults' = faults + 1
      /\ records' = records /\ promised' = promised /\ pressure' = pressure
  BY DEF CommitFails, Fault
<1>3. Kept(records, pressure, file', TRUE, Spent, issued, promised, faults + 1)
  BY <1>1, <1>2, RefusalKeeps
<1>4. Kept(records, pressure, file', TRUE, Spent', issued, promised, faults + 1)
  BY <1>3, FewerKept
<1>. QED
  BY <1>2, <1>4 DEF StoreInv, Kept

\* Nothing happens to the store.
LEMMA SameStore ==
    ASSUME StoreInv, UNCHANGED store, up' = up, issued' = issued, Spent' \in SUBSET Spent
    PROVE  StoreInv' /\ records' = records
<1>1. Kept(records, pressure, file, up, Spent', issued, promised, faults)
  BY FewerKept DEF StoreInv
<1>. QED
  BY <1>1 DEF StoreInv, store

------------------------------------------------------------------------------
(* What the tasks do                                                         *)

\* Nothing happens to the tasks.
LEMMA SameTasks ==
    ASSUME TaskInv, task' = task, sends' = sends, up' = up,
           DOMAIN records \subseteq DOMAIN records'
    PROVE  TaskInv'
  BY DEF TaskInv

LEMMA SameSpent ==
    ASSUME task' = task, sends' = sends
    PROVE  Spent' = Spent
  BY DEF Spent

\* A task goes on to a step that does not send.
LEMMA NextTask ==
    ASSUME TaskInv, NEW w \in Workers, NEW t \in Tasks, t.step # "send",
           t.step # "idle" => up' /\ t.id \in DOMAIN records',
           task' = [task EXCEPT ![w] = t], sends' = sends, up' = up,
           DOMAIN records \subseteq DOMAIN records'
    PROVE  TaskInv'
<1>. HIDE DEF Tasks
<1>1. /\ task' \in [Workers -> Tasks] /\ task'[w] = t
      /\ \A v \in Workers : v # w => task'[v] = task[v]
  BY DEF TaskInv
<1>2. \A v \in Workers : task'[v].step # "idle" => up' /\ task'[v].id \in DOMAIN records'
  BY <1>1 DEF TaskInv
<1>3. \A v \in Workers : task'[v].step = "send" => v # w /\ task[v].step = "send" /\ task'[v] = task[v]
  BY <1>1
<1>4. \A v \in Workers : task'[v].step = "send" => sends'[task'[v].id] = 0
  BY <1>3 DEF TaskInv
<1>5. \A u, v \in Workers :
        task'[u].step = "send" /\ task'[v].step = "send" /\ task'[u].id = task'[v].id => u = v
  BY <1>3 DEF TaskInv
<1>6. sends' \in [Ids -> Nat] /\ \A id \in Ids : sends'[id] <= 1
  BY DEF TaskInv
<1>. QED
  BY <1>1, <1>2, <1>4, <1>5, <1>6 DEF TaskInv

LEMMA NextSpent ==
    ASSUME TaskInv, NEW w \in Workers, NEW t \in Tasks, t.step # "send",
           task' = [task EXCEPT ![w] = t], sends' = sends
    PROVE  Spent' \in SUBSET Spent
<1>. HIDE DEF Tasks
<1>1. task'[w] = t /\ \A v \in Workers : v # w => task'[v] = task[v]
  BY DEF TaskInv
<1>2. \A v \in Workers : task'[v].step = "send" => task[v].step = "send" /\ task'[v] = task[v]
  BY <1>1
<1>. QED
  BY <1>2 DEF Spent

\* A worker goes idle.
LEMMA IdleTask == Idle \in Tasks /\ Idle.step = "idle"
  BY DEF Idle, Tasks, Steps

\* A worker takes up a record with the lease it has now.
LEMMA DoingTask ==
    ASSUME StoreInv, NEW id \in DOMAIN records, NEW step \in Steps
    PROVE  Doing(step, id) \in Tasks /\ Doing(step, id).step = step /\ Doing(step, id).id = id
<1>1. records \in Maps
  BY DEF StoreInv, Kept
<1>2. id \in Ids /\ records[id] \in Records
  BY <1>1, MapType
<1>3. CurrentLease(id, records[id]) \in Leases
  BY <1>2 DEF CurrentLease, Leases, Records
<1>. HIDE DEF Leases, Records
<1>. QED
  BY <1>2, <1>3 DEF Doing, Tasks

\* What the invariant says of a record and of the tasks.
LEMMA StoreTypes ==
    ASSUME StoreInv
    PROVE  /\ records \in Maps /\ Leased(records) /\ issued \in SUBSET Leases
           /\ Spent \in SUBSET Ids /\ faults \in Nat
           /\ up => Covers(records, Spent, issued, promised)
           /\ \A id \in DOMAIN records : id \in Ids /\ records[id] \in Records
<1>1. /\ records \in Maps /\ Leased(records) /\ issued \in SUBSET Leases
      /\ Spent \in SUBSET Ids /\ faults \in Nat
      /\ up => Covers(records, Spent, issued, promised)
  BY DEF StoreInv, Kept
<1>2. \A id \in DOMAIN records : id \in Ids /\ records[id] \in Records
  BY <1>1, MapType
<1>. QED
  BY <1>1, <1>2

------------------------------------------------------------------------------
(* The steps                                                                 *)

\* A record is changed, or the change is refused by the file, and no task moves.
LEMMA ChangeStep ==
    ASSUME Inv, up, NEW id, NEW record, Succeeds(records, id, record),
           Change(id, record), UNCHANGED task
    PROVE  Inv'
<1>1. WorldInv /\ StoreInv /\ TaskInv /\ LeasesApart
  BY DEF Inv
<1>2. /\ up' = up /\ clock' = clock /\ stale' = stale /\ task' = task /\ sends' = sends
      /\ issued' = issued
  BY DEF Change, environment
<1>3. Spent' = Spent /\ issued' \in SUBSET Leases
  BY <1>1, <1>2, SameSpent, StoreTypes
<1>4. CASE Commit(id, record)
  <2>1. StoreInv' /\ DOMAIN records' = DOMAIN records \cup {id}
    BY <1>1, <1>2, <1>3, <1>4, CommitInv
  <2>2. TaskInv'
    BY <1>1, <1>2, <2>1, SameTasks
  <2>. QED
    BY <1>1, <1>2, <2>1, <2>2 DEF Inv, WorldInv, LeasesApart
<1>5. CASE CommitFails(id, record)
  <2>1. StoreInv'
    BY <1>1, <1>2, <1>3, <1>5, RefusalInv
  <2>2. records' = records
    BY <1>5 DEF CommitFails
  <2>3. TaskInv'
    BY <1>1, <1>2, <2>2, SameTasks
  <2>. QED
    BY <1>1, <1>2, <2>1, <2>3 DEF Inv, WorldInv, LeasesApart
<1>. QED
  BY <1>4, <1>5 DEF Change

\* A worker asks for a change with its lease and is done with the record.
LEMMA LeasedStep ==
    ASSUME Inv, up, NEW w \in Workers, NEW allowed \in BOOLEAN, NEW record,
           allowed => Succeeds(records, task[w].id, record),
           LeasedChange(w, allowed, record, Idle)
    PROVE  Inv'
<1>1. WorldInv /\ StoreInv /\ TaskInv /\ LeasesApart
  BY DEF Inv
<1>2. /\ up' = up /\ clock' = clock /\ stale' = stale /\ sends' = sends /\ issued' = issued
      /\ task' = [task EXCEPT ![w] = Idle]
  BY DEF LeasedChange, environment, To
<1>3. Spent' \in SUBSET Spent
  BY <1>1, <1>2, IdleTask, NextSpent
<1>4. issued' \in SUBSET Leases
  BY <1>1, <1>2, StoreTypes
<1>5. DOMAIN records \subseteq DOMAIN records' => TaskInv'
  BY <1>1, <1>2, IdleTask, NextTask
<1>6. StoreInv' /\ DOMAIN records \subseteq DOMAIN records'
  <2>1. CASE UNCHANGED store
    BY <1>1, <1>2, <1>3, <2>1, SameStore
  <2>2. CASE allowed /\ Commit(task[w].id, record)
    BY <1>1, <1>2, <1>3, <1>4, <2>2, CommitInv
  <2>3. CASE allowed /\ CommitFails(task[w].id, record)
    <3>1. StoreInv'
      BY <1>1, <1>2, <1>3, <2>3, RefusalInv
    <3>. QED
      BY <2>3, <3>1 DEF CommitFails
  <2>. QED
    BY <2>1, <2>2, <2>3 DEF LeasedChange
<1>. QED
  BY <1>1, <1>2, <1>5, <1>6 DEF Inv, WorldInv, LeasesApart

\* enqueue
LEMMA EnqueueStep == ASSUME Inv, NEW id \in Ids, Enqueue(id) PROVE Inv'
<1>1. WorldInv /\ StoreInv /\ TaskInv /\ LeasesApart
  BY DEF Inv
<1>2. /\ up /\ id \notin DOMAIN records
      /\ up' = up /\ clock' = clock /\ stale' = stale /\ task' = task /\ sends' = sends
      /\ issued' = issued
  BY DEF Enqueue, environment
<1>3. Spent' = Spent
  BY <1>2, SameSpent
<1>4. Succeeds(records, id, NewRecord) /\ NewRecord.revision = 1
  BY <1>1, <1>2, StoreTypes, NewSucceeds DEF NewRecord
<1>5. PICK stored : stored = Appended(file, WithRecord(file, id, NewRecord))
  OBVIOUS
<1>6. PICK admitted : admitted = WithAdmission(stored, TRUE)
  OBVIOUS
<1>7. Kept(records, pressure, file, TRUE, Spent, issued, promised, faults)
  BY <1>1, <1>2 DEF StoreInv, Kept
<1>8. ASSUME NEW tells, Tells(promised, id, NewRecord, tells)
      PROVE  Kept(With(records, id, NewRecord), pressure, stored, TRUE, Spent, issued, tells, faults)
  <2>1. PICK new : new = With(records, id, NewRecord)
    OBVIOUS
  <2>2. /\ new \in Maps /\ Leased(new) /\ stored \in Files /\ Leased(stored.records)
        /\ Covers(new, Spent, issued, tells)
        /\ Shows(stored, new) /\ Whole(pressure, stored, faults)
    BY <1>4, <1>5, <1>7, <1>8, <2>1, CommitKeeps
  <2>3. pressure \in Pressures /\ tells \in [Ids -> Nat]
    BY <1>7, <1>8 DEF Kept, Tells
  <2>. HIDE DEF Maps, Pressures, Files, Leases, Records
  <2>4. Kept(new, pressure, stored, TRUE, Spent, issued, tells, faults)
    BY <1>1, <2>2, <2>3, StoreTypes, SameIsKept
  <2>. QED
    BY <2>1, <2>4
<1>9. promised \in [Ids -> Nat] /\ TRUE \in BOOLEAN
  BY <1>7 DEF Kept
<1>10. StoreInv' /\ DOMAIN records \subseteq DOMAIN records'
  <2>1. CASE /\ file' = Appended(stored, admitted)
             /\ records' = With(records, id, NewRecord)
             /\ pressure' = Counted(pressure, TRUE)
             /\ promised' = [promised EXCEPT ![id] = 1]
             /\ UNCHANGED faults
    <3>1. Tells(promised, id, NewRecord, promised')
      BY <1>4, <1>9, <2>1 DEF Tells
    <3>2. Kept(With(records, id, NewRecord), pressure, stored, TRUE, Spent, issued, promised', faults)
      BY <1>8, <3>1
    <3>3. Kept(With(records, id, NewRecord), Counted(pressure, TRUE), Appended(stored, admitted),
               TRUE, Spent, issued, promised', faults)
      BY <1>6, <1>9, <3>2, AdmissionKeeps
    <3>4. DOMAIN records' = DOMAIN records \cup {id}
      BY <2>1 DEF With
    <3>. QED
      BY <1>2, <1>3, <2>1, <3>3, <3>4 DEF StoreInv, Kept
  <2>2. CASE CommitFails(id, NewRecord)
    <3>1. StoreInv'
      BY <1>1, <1>2, <1>3, <1>4, <2>2, RefusalInv
    <3>. QED
      BY <2>2, <3>1 DEF CommitFails
  <2>3. CASE /\ Fault
             /\ file' \in AppendFailed(stored, admitted)
             /\ records' = With(records, id, NewRecord)
             /\ UNCHANGED <<pressure, promised>>
    <3>1. Tells(promised, id, NewRecord, promised)
      BY <1>9 DEF Tells
    <3>2. Kept(With(records, id, NewRecord), pressure, stored, TRUE, Spent, issued, promised, faults)
      BY <1>8, <3>1
    <3>3. Kept(With(records, id, NewRecord), pressure, file', TRUE, Spent, issued, promised, faults + 1)
      BY <1>6, <1>9, <2>3, <3>2, AdmissionKeeps
    <3>4. DOMAIN records' = DOMAIN records \cup {id}
      BY <2>3 DEF With
    <3>. QED
      BY <1>2, <1>3, <2>3, <3>3, <3>4 DEF StoreInv, Kept, Fault
  <2>. QED
    BY <1>5, <1>6, <2>1, <2>2, <2>3 DEF Enqueue
<1>11. TaskInv'
  BY <1>1, <1>2, <1>10, SameTasks
<1>. QED
  BY <1>1, <1>2, <1>10, <1>11 DEF Inv, WorldInv, LeasesApart

\* admit, when it sheds
LEMMA ShedStep == ASSUME Inv, NEW id \in Ids, Shed(id) PROVE Inv'
<1>1. WorldInv /\ StoreInv /\ TaskInv /\ LeasesApart
  BY DEF Inv
<1>2. /\ up /\ up' = up /\ clock' = clock /\ stale' = stale /\ task' = task /\ sends' = sends
      /\ issued' = issued /\ records' = records /\ promised' = promised
  BY DEF Shed, environment
<1>3. Spent' = Spent /\ TaskInv'
  BY <1>1, <1>2, SameSpent, SameTasks
<1>4. PICK shed : shed = WithAdmission(file, FALSE)
  OBVIOUS
<1>5. Kept(records, pressure, file, TRUE, Spent, issued, promised, faults) /\ FALSE \in BOOLEAN
  BY <1>1, <1>2 DEF StoreInv, Kept
<1>6. CASE file' = Appended(file, shed) /\ pressure' = Counted(pressure, FALSE) /\ UNCHANGED faults
  <2>1. Kept(records, Counted(pressure, FALSE), Appended(file, shed), TRUE,
             Spent, issued, promised, faults)
    BY <1>4, <1>5, AdmissionKeeps
  <2>. QED
    BY <1>1, <1>2, <1>3, <1>6, <2>1 DEF Inv, WorldInv, LeasesApart, StoreInv, Kept
<1>7. CASE Fault /\ file' \in AppendFailed(file, shed) /\ UNCHANGED pressure
  <2>1. Kept(records, pressure, file', TRUE, Spent, issued, promised, faults + 1)
    BY <1>4, <1>5, <1>7, AdmissionKeeps
  <2>. QED
    BY <1>1, <1>2, <1>3, <1>7, <2>1 DEF Inv, WorldInv, LeasesApart, StoreInv, Kept, Fault
<1>. QED
  BY <1>4, <1>6, <1>7 DEF Shed

\* A worker takes up a record, to submit it or to give it back.
LEMMA TakeUpStep ==
    ASSUME Inv, up, NEW w \in Workers, NEW id \in DOMAIN records, NEW step \in Steps,
           step # "send", To(w, Doing(step, id)),
           UNCHANGED <<environment, store, issued, sends>>
    PROVE  Inv'
<1>1. WorldInv /\ StoreInv /\ TaskInv /\ LeasesApart
  BY DEF Inv
<1>2. /\ up' = up /\ clock' = clock /\ stale' = stale /\ sends' = sends /\ issued' = issued
      /\ records' = records
      /\ task' = [task EXCEPT ![w] = Doing(step, id)]
  BY DEF environment, To, store
<1>3. Doing(step, id) \in Tasks /\ Doing(step, id).step = step /\ Doing(step, id).id = id
  BY <1>1, DoingTask
<1>4. TaskInv'
  BY <1>1, <1>2, <1>3, NextTask
<1>5. Spent' \in SUBSET Spent
  BY <1>1, <1>2, <1>3, NextSpent
<1>6. StoreInv'
  BY <1>1, <1>2, <1>5, SameStore
<1>. QED
  BY <1>1, <1>2, <1>4, <1>6 DEF Inv, WorldInv, LeasesApart

\* The first claimable record is there when any is.
LEMMA FirstExists ==
    ASSUME NEW S \in SUBSET Nat, S # {}
    PROVE  \E x \in S : \A y \in S : x <= y
<1>1. PICK x \in S : \A y \in S : ~(<<y, x>> \in OpToRel(<, Nat))
  BY NatLessThanWellFounded, WFMin
<1>2. \A y \in S : ~(y < x)
  BY <1>1 DEF OpToRel
<1>. QED
  BY <1>2

\* claim_next
LEMMA ClaimStep == ASSUME Inv, NEW w \in Workers, Claim(w) PROVE Inv'
<1>1. WorldInv /\ StoreInv /\ TaskInv /\ LeasesApart
  BY DEF Inv
<1>2. /\ up
      /\ up' = up /\ clock' = clock /\ stale' = stale /\ task' = task /\ sends' = sends
  BY DEF Claim, Plans, At, environment
<1>3. Spent' = Spent
  BY <1>2, SameSpent
<1>4. PICK claimable : claimable = { id \in DOMAIN records : Unheld(records[id]) }
  OBVIOUS
<1>5. PICK first : first = CHOOSE id \in claimable : \A other \in claimable : id <= other
  OBVIOUS
<1>6. PICK claimed : claimed = Claimed(records[first], WorkerId[w])
  OBVIOUS
<1>7. /\ claimable # {}
      /\ \/ Commit(first, claimed) /\ issued' = issued \cup {CurrentLease(first, claimed)}
         \/ CommitFails(first, claimed) /\ UNCHANGED issued
  BY <1>4, <1>5, <1>6 DEF Claim
<1>8. first \in DOMAIN records /\ Unheld(records[first])
  <2>1. claimable \in SUBSET Nat
    BY <1>1, <1>4, StoreTypes, OutboxAssumption DEF OutboxAssumption
  <2>2. first \in claimable
    BY <1>5, <1>7, <2>1, FirstExists
  <2>. QED
    BY <1>4, <2>2
<1>9. clock \in Nat
  BY <1>1, OutboxAssumption DEF WorldInv, OutboxAssumption
<1>10. /\ Succeeds(records, first, claimed)
       /\ claimed.token = claimed.generation
       /\ claimed.generation = records[first].generation + 1
       /\ CurrentLease(first, claimed) \in Leases
  BY <1>1, <1>6, <1>8, <1>9, OutboxAssumption, StoreTypes, ClaimedSucceeds
<1>11. /\ CurrentLease(first, claimed).id = first
       /\ CurrentLease(first, claimed).token = claimed.token
  BY DEF CurrentLease
<1>12. records[first].generation \in Nat
  BY <1>1, <1>8, StoreTypes DEF Records
<1>13. CASE Commit(first, claimed) /\ issued' = issued \cup {CurrentLease(first, claimed)}
  <2>1. issued' \in SUBSET Leases
    BY <1>1, <1>10, <1>13, StoreTypes
  <2>2. \A l \in issued' : l \in issued \/ (l.id = first /\ l.token <= claimed.generation)
    BY <1>10, <1>11, <1>12, <1>13
  <2>3. StoreInv' /\ DOMAIN records' = DOMAIN records \cup {first}
    BY <1>1, <1>2, <1>3, <1>10, <1>13, <2>1, <2>2, CommitInv
  <2>4. TaskInv'
    BY <1>1, <1>2, <2>3, SameTasks
  <2>5. \A l \in issued : l.id = first => l.token # claimed.token
    <3>1. \A l \in issued : l.token <= records[l.id].generation /\ l.token \in Nat
      BY <1>1, <1>2, StoreTypes DEF Covers, Leases
    <3>. QED
      BY <1>10, <1>12, <3>1
  <2>6. LeasesApart'
    BY <1>1, <1>11, <1>13, <2>5 DEF LeasesApart
  <2>. QED
    BY <1>1, <1>2, <2>3, <2>4, <2>6 DEF Inv, WorldInv
<1>14. CASE CommitFails(first, claimed) /\ UNCHANGED issued
  <2>1. StoreInv'
    BY <1>1, <1>2, <1>3, <1>10, <1>14, RefusalInv
  <2>2. records' = records
    BY <1>14 DEF CommitFails
  <2>3. TaskInv'
    BY <1>1, <1>2, <2>2, SameTasks
  <2>. QED
    BY <1>1, <1>2, <1>14, <2>1, <2>3 DEF Inv, WorldInv, LeasesApart
<1>. QED
  BY <1>7, <1>13, <1>14

\* A submission: its record is past sending before the worker sends.
LEMMA SubmitStep == ASSUME Inv, NEW w \in Workers, Submit(w) PROVE Inv'
<1>1. WorldInv /\ StoreInv /\ TaskInv /\ LeasesApart
  BY DEF Inv
<1>2. PICK id : id = task[w].id
  OBVIOUS
<1>3. PICK allowed \in BOOLEAN :
        allowed = (/\ Speaks(records[id], task[w].lease, {"Claimed"})
                   /\ clock < records[id].expires)
  OBVIOUS
<1>4. PICK t : t = [task[w] EXCEPT !.step = "send"]
  OBVIOUS
<1>5. /\ up /\ task[w].step = "submit"
      /\ LeasedChange(w, allowed, Submitted(records[id]), t)
  BY <1>2, <1>3, <1>4 DEF Submit, At
<1>6. /\ up' = up /\ clock' = clock /\ stale' = stale /\ sends' = sends /\ issued' = issued
  BY <1>5 DEF LeasedChange, environment
<1>7. id \in DOMAIN records /\ id \in Ids
  BY <1>1, <1>2, <1>5, StoreTypes DEF TaskInv
<1>8. CASE ~allowed \/ (CommitFails(id, Submitted(records[id])) /\ To(w, Idle))
  <2>1. LeasedChange(w, allowed, Submitted(records[id]), Idle)
    BY <1>2, <1>5, <1>8 DEF LeasedChange
  <2>2. allowed => Succeeds(records, id, Submitted(records[id]))
    BY <1>1, <1>3, <1>7, StoreTypes, SubmittedSucceeds DEF Speaks
  <2>. QED
    BY <1>2, <1>5, <2>1, <2>2, LeasedStep
<1>9. CASE allowed /\ Commit(id, Submitted(records[id])) /\ To(w, t)
  <2>1. records[id].state = "Claimed"
    BY <1>3, <1>9 DEF Speaks
  <2>2. PICK record : record = Submitted(records[id])
    OBVIOUS
  <2>3. Succeeds(records, id, record) /\ record.state = "Submitted"
    BY <1>1, <1>7, <2>1, <2>2, StoreTypes, SubmittedSucceeds
  <2>4. id \notin Spent
    BY <1>1, <1>5, <2>1, StoreTypes DEF Covers, Past, Terminal
  <2>5. sends[id] = 0 /\ \A v \in Workers : ~(task[v].step = "send" /\ task[v].id = id)
    BY <1>1, <1>7, <2>4 DEF Spent, TaskInv
  <2>6. t \in Tasks /\ t.step = "send" /\ t.id = id
    <3>1. task[w] \in Tasks
      BY <1>1 DEF TaskInv
    <3>2. PICK send \in Steps : send = "send"
      BY DEF Steps
    <3>3. /\ [task[w] EXCEPT !.step = send] \in Tasks
          /\ [task[w] EXCEPT !.step = send].step = send
          /\ [task[w] EXCEPT !.step = send].id = task[w].id
      BY <3>1 DEF Tasks
    <3>. QED
      BY <1>2, <1>4, <3>2, <3>3
  <2>. HIDE DEF Tasks
  <2>7. /\ task' \in [Workers -> Tasks] /\ task'[w] = t
        /\ \A v \in Workers : v # w => task'[v] = task[v]
    <3>1. task' = [task EXCEPT ![w] = t]
      BY <1>9 DEF To
    <3>. QED
      BY <1>1, <2>6, <3>1 DEF TaskInv
  <2>8. \A x \in Spent' : x \in Spent \/ (x = id /\ record.state \in Past)
    BY <1>6, <2>3, <2>6, <2>7 DEF Spent, Past
  <2>9. issued' \in SUBSET Leases
    BY <1>1, <1>6, StoreTypes
  <2>10. StoreInv' /\ DOMAIN records' = DOMAIN records \cup {id}
    BY <1>1, <1>5, <1>6, <1>9, <2>2, <2>3, <2>8, <2>9, CommitInv
  <2>11. \A v \in Workers : task'[v].step # "idle" => up' /\ task'[v].id \in DOMAIN records'
    BY <1>1, <1>5, <1>6, <1>7, <2>6, <2>7, <2>10 DEF TaskInv
  <2>12. \A v \in Workers : task'[v].step = "send" => sends'[task'[v].id] = 0
    BY <1>1, <1>6, <2>5, <2>6, <2>7 DEF TaskInv
  <2>13. \A u, v \in Workers :
           task'[u].step = "send" /\ task'[v].step = "send" /\ task'[u].id = task'[v].id => u = v
    BY <1>1, <2>5, <2>6, <2>7 DEF TaskInv
  <2>14. TaskInv'
    BY <1>1, <1>6, <2>7, <2>11, <2>12, <2>13 DEF TaskInv
  <2>. QED
    BY <1>1, <1>6, <2>10, <2>14 DEF Inv, WorldInv, LeasesApart
<1>. QED
  BY <1>2, <1>5, <1>8, <1>9 DEF LeasedChange

\* The notification goes to its channel, by the only worker that was about to send it.
LEMMA SendStep == ASSUME Inv, NEW w \in Workers, Send(w) PROVE Inv'
<1>1. WorldInv /\ StoreInv /\ TaskInv /\ LeasesApart
  BY DEF Inv
<1>2. PICK id : id = task[w].id
  OBVIOUS
<1>3. PICK t : t = [task[w] EXCEPT !.step = "sent"]
  OBVIOUS
<1>4. /\ up /\ task[w].step = "send"
      /\ up' = up /\ clock' = clock /\ stale' = stale /\ issued' = issued /\ UNCHANGED store
      /\ sends' = [sends EXCEPT ![id] = @ + 1]
      /\ task' = [task EXCEPT ![w] = t]
  BY <1>2, <1>3 DEF Send, At, To, environment
<1>5. id \in DOMAIN records /\ id \in Ids /\ records' = records
  BY <1>1, <1>2, <1>4, StoreTypes DEF TaskInv, store
<1>6. t \in Tasks /\ t.step = "sent" /\ t.id = id
  <2>1. task[w] \in Tasks
    BY <1>1 DEF TaskInv
  <2>2. PICK sent \in Steps : sent = "sent"
    BY DEF Steps
  <2>3. /\ [task[w] EXCEPT !.step = sent] \in Tasks
        /\ [task[w] EXCEPT !.step = sent].step = sent
        /\ [task[w] EXCEPT !.step = sent].id = task[w].id
    BY <2>1 DEF Tasks
  <2>. QED
    BY <1>2, <1>3, <2>2, <2>3
<1>. HIDE DEF Tasks
<1>7. /\ task' \in [Workers -> Tasks] /\ task'[w] = t
      /\ \A v \in Workers : v # w => task'[v] = task[v]
  BY <1>1, <1>4, <1>6 DEF TaskInv
<1>8. sends[id] = 0
  BY <1>1, <1>2, <1>4 DEF TaskInv
<1>9. /\ sends' \in [Ids -> Nat] /\ sends'[id] = 1
      /\ \A x \in Ids : x # id => sends'[x] = sends[x]
  BY <1>1, <1>4, <1>5, <1>8 DEF TaskInv
<1>10. Spent' \in SUBSET Spent
  <2>1. id \in Spent
    BY <1>2, <1>4, <1>5 DEF Spent
  <2>. QED
    BY <1>6, <1>7, <1>9, <2>1 DEF Spent
<1>11. StoreInv'
  BY <1>1, <1>4, <1>10, SameStore
<1>12. \A v \in Workers : task'[v].step = "send" => task'[v] = task[v] /\ task[v].id # id
  BY <1>1, <1>2, <1>4, <1>6, <1>7 DEF TaskInv
<1>13. \A v \in Workers : task'[v].step = "send" => sends'[task'[v].id] = 0
  <2>1. \A v \in Workers : task[v].step = "send" => task[v].id \in Ids
    BY <1>1, StoreTypes DEF TaskInv
  <2>. QED
    BY <1>1, <1>9, <1>12, <2>1 DEF TaskInv
<1>14. \A v \in Workers : task'[v].step # "idle" => up' /\ task'[v].id \in DOMAIN records'
  BY <1>1, <1>4, <1>5, <1>6, <1>7 DEF TaskInv
<1>15. \A u, v \in Workers :
         task'[u].step = "send" /\ task'[v].step = "send" /\ task'[u].id = task'[v].id => u = v
  BY <1>1, <1>12 DEF TaskInv
<1>16. TaskInv'
  BY <1>1, <1>7, <1>9, <1>13, <1>14, <1>15 DEF TaskInv
<1>. QED
  BY <1>1, <1>4, <1>11, <1>16 DEF Inv, WorldInv, LeasesApart

\* The channel's answer is recorded, and a drained claim is given back.
LEMMA SettleStep ==
    ASSUME Inv, NEW w \in Workers, NEW outcome \in Outcomes, Settle(w, outcome) PROVE Inv'
<1>1. WorldInv /\ StoreInv /\ TaskInv
  BY DEF Inv
<1>2. PICK id : id = task[w].id
  OBVIOUS
<1>3. PICK allowed \in BOOLEAN :
        allowed = (/\ Speaks(records[id], task[w].lease,
                             IF outcome = "Acknowledged" THEN {"Submitted"} ELSE Held)
                   /\ outcome = "Acknowledged" => task[w].lease.attempt = records[id].attempt)
  OBVIOUS
<1>4. /\ up /\ task[w].step = "sent"
      /\ LeasedChange(w, allowed, Cleared(records[id], outcome), Idle)
  BY <1>2, <1>3 DEF Settle, At, Held
<1>5. id \in DOMAIN records
  BY <1>1, <1>2, <1>4 DEF TaskInv
<1>6. outcome \in States \ Held
  BY DEF Outcomes, States, Terminal, Held
<1>7. allowed => <<records[id].state, outcome>> \in Edges
  BY <1>3 DEF Speaks, Held, Outcomes, Edges
<1>8. allowed => Succeeds(records, id, Cleared(records[id], outcome))
  BY <1>1, <1>5, <1>6, <1>7, StoreTypes, ClearedSucceeds
<1>. QED
  BY <1>2, <1>4, <1>8, LeasedStep

LEMMA ReleaseStep == ASSUME Inv, NEW w \in Workers, Release(w) PROVE Inv'
<1>1. WorldInv /\ StoreInv /\ TaskInv
  BY DEF Inv
<1>2. PICK id : id = task[w].id
  OBVIOUS
<1>3. PICK allowed \in BOOLEAN : allowed = Speaks(records[id], task[w].lease, {"Claimed"})
  BY DEF Speaks
<1>4. /\ up /\ task[w].step = "release"
      /\ LeasedChange(w, allowed, Cleared(records[id], "Pending"), Idle)
  BY <1>2, <1>3 DEF Release, At
<1>5. id \in DOMAIN records
  BY <1>1, <1>2, <1>4 DEF TaskInv
<1>6. "Pending" \in States \ Held
  BY DEF States, Held
<1>7. allowed => <<records[id].state, "Pending">> \in Edges
  BY <1>3 DEF Speaks, Edges
<1>8. allowed => Succeeds(records, id, Cleared(records[id], "Pending"))
  BY <1>1, <1>5, <1>6, <1>7, StoreTypes, ClearedSucceeds
<1>. QED
  BY <1>2, <1>4, <1>8, LeasedStep

\* A notification past its window is given up.
LEMMA AbandonStep ==
    ASSUME Inv, NEW w \in Workers, NEW id \in Ids, Abandon(w, id) PROVE Inv'
<1>1. up /\ id \in DOMAIN records /\ PlanOf(w, id) = "abandon"
  BY DEF Abandon, Plans, At
<1>2. records[id].state \in {"Pending", "Claimed"}
  BY <1>1 DEF PlanOf
<1>3. <<records[id].state, "Failed">> \in Edges /\ "Failed" \in States \ Held
  BY <1>2 DEF Edges, States, Terminal, Held
<1>4. Succeeds(records, id, Cleared(records[id], "Failed"))
  BY <1>1, <1>3, StoreTypes, ClearedSucceeds DEF Inv
<1>. QED
  BY <1>1, <1>4, ChangeStep DEF Abandon

\* A submission in doubt ends as unknown.
LEMMA ReconcileStep ==
    ASSUME Inv, NEW w \in Workers, NEW id \in Ids, Reconcile(w, id) PROVE Inv'
<1>1. up /\ id \in DOMAIN records
  BY DEF Reconcile, Plans, At
<1>2. records[id].state \in {"Claimed", "Submitted"}
  BY DEF Reconcile, Speaks
<1>3. <<records[id].state, "Unknown">> \in Edges /\ "Unknown" \in States \ Held
  BY <1>2 DEF Edges, States, Terminal, Held
<1>4. Succeeds(records, id, Cleared(records[id], "Unknown"))
  BY <1>1, <1>3, StoreTypes, ClearedSucceeds DEF Inv
<1>. QED
  BY <1>1, <1>4, ChangeStep DEF Reconcile

\* The process dies; the file has what it has to keep.
LEMMA CrashStep == ASSUME Inv, Crash PROVE Inv'
<1>1. WorldInv /\ StoreInv /\ TaskInv /\ LeasesApart
  BY DEF Inv
<1>2. /\ up' = FALSE /\ clock' = clock /\ stale' = stale /\ file' = file /\ promised' = promised
      /\ faults' = faults /\ issued' = issued /\ sends' = sends
      /\ records' = EmptyMap /\ pressure' = NoPressure
      /\ task' = [w \in Workers |-> Idle]
  BY DEF Crash
<1>3. Spent' \in SUBSET Spent
  BY <1>2, IdleTask DEF Spent
<1>4. Kept(records, pressure, file, up, Spent', issued, promised, faults)
  BY <1>1, <1>3, FewerKept DEF StoreInv
<1>5. NoPressure \in Pressures
  BY DEF NoPressure, Pressures
<1>. HIDE DEF Maps, Pressures, Files, Leases, Records
<1>6. StoreInv'
  BY <1>2, <1>4, <1>5, EmptyFileType DEF StoreInv, Kept
<1>7. TaskInv'
  <2>. HIDE DEF Tasks
  <2>. QED
    BY <1>1, <1>2, IdleTask DEF TaskInv
<1>. QED
  BY <1>1, <1>2, <1>6, <1>7 DEF Inv, WorldInv, LeasesApart

\* A process opens a file it can read.
LEMMA OpenStep == ASSUME Inv, Open PROVE Inv'
<1>1. WorldInv /\ StoreInv /\ TaskInv /\ LeasesApart
  BY DEF Inv
<1>2. /\ ~up /\ file.readable
      /\ up' = TRUE /\ clock' = clock /\ file' = file /\ promised' = promised
      /\ faults' = faults /\ issued' = issued /\ sends' = sends /\ task' = task
      /\ records' = file.records /\ pressure' = file.pressure
      /\ stale' = stale \/ stale' = DOMAIN file.records
  BY DEF Open
<1>3. /\ file \in Files /\ Leased(file.records) /\ promised \in [Ids -> Nat]
      /\ Spent \in SUBSET Ids /\ issued \in SUBSET Leases /\ faults \in Nat
      /\ Covers(file.records, Spent, issued, promised)
      /\ faults = 0 => file.readable /\ file.ended
  BY <1>1, <1>2 DEF StoreInv, Kept
<1>4. file.records \in Maps /\ file.pressure \in Pressures
  BY <1>3 DEF Files
<1>5. Shows(file, file.records) /\ Whole(file.pressure, file, faults)
  BY <1>3 DEF Shows, Whole
<1>6. Spent' = Spent
  BY <1>2, SameSpent
<1>7. stale' \in SUBSET Ids
  BY <1>1, <1>2, <1>4, MapType DEF WorldInv
<1>. HIDE DEF Maps, Pressures, Files, Leases, Records
<1>8. Kept(file.records, file.pressure, file, TRUE, Spent, issued, promised, faults)
  BY <1>3, <1>4, <1>5, SameIsKept
<1>9. StoreInv'
  BY <1>2, <1>6, <1>8 DEF StoreInv
<1>10. TaskInv'
  BY <1>1, <1>2 DEF TaskInv
<1>. QED
  BY <1>1, <1>2, <1>7, <1>9, <1>10 DEF Inv, WorldInv, LeasesApart

LEMMA TickStep == ASSUME OutboxAssumption, Inv, Tick PROVE Inv'
<1>1. WorldInv /\ StoreInv /\ TaskInv /\ LeasesApart
  BY DEF Inv
<1>2. /\ clock < MaxClock /\ clock' = clock + 1 /\ up' = up /\ stale' = stale /\ UNCHANGED store
      /\ task' = task /\ issued' = issued /\ sends' = sends
  BY DEF Tick
<1>3. records' = records /\ Spent' = Spent /\ TaskInv'
  BY <1>1, <1>2, SameSpent, SameTasks DEF store
<1>4. StoreInv'
  BY <1>1, <1>2, <1>3, SameStore
<1>5. WorldInv'
  BY <1>1, <1>2 DEF WorldInv, OutboxAssumption
<1>. QED
  BY <1>1, <1>2, <1>3, <1>4, <1>5 DEF Inv, LeasesApart

LEMMA StutterStep == ASSUME Inv, UNCHANGED vars PROVE Inv'
<1>1. WorldInv /\ StoreInv /\ TaskInv /\ LeasesApart
  BY DEF Inv
<1>2. /\ clock' = clock /\ up' = up /\ stale' = stale /\ UNCHANGED store
      /\ task' = task /\ issued' = issued /\ sends' = sends /\ records' = records
  BY DEF vars, store
<1>3. Spent' = Spent /\ TaskInv'
  BY <1>1, <1>2, SameSpent, SameTasks
<1>4. StoreInv'
  BY <1>1, <1>2, <1>3, SameStore
<1>. QED
  BY <1>1, <1>2, <1>3, <1>4 DEF Inv, WorldInv, LeasesApart

\* Every step keeps the invariant.
LEMMA NextInv == ASSUME Inv, [Next]_vars PROVE Inv'
<1>1. ASSUME NEW id \in Ids, Enqueue(id) \/ Shed(id) PROVE Inv'
  BY <1>1, EnqueueStep, ShedStep
<1>2. ASSUME NEW w \in Workers, Claim(w) \/ Work(w) PROVE Inv'
  BY <1>2, ClaimStep, SubmitStep, SendStep, ReleaseStep, SettleStep DEF Work
<1>3. ASSUME NEW w \in Workers, NEW id \in Ids, Dispatch(w, id) PROVE Inv'
  <2>1. up /\ id \in DOMAIN records /\ "submit" \in Steps
    BY <1>3 DEF Dispatch, Plans, At, Steps
  <2>. QED
    BY <1>3, <2>1, TakeUpStep DEF Dispatch
<1>4. ASSUME NEW w \in Workers, NEW id \in Ids, Drain(w, id) PROVE Inv'
  <2>1. up /\ id \in DOMAIN records /\ "release" \in Steps
    BY <1>4 DEF Drain, At, Steps
  <2>. QED
    BY <1>4, <2>1, TakeUpStep DEF Drain
<1>5. ASSUME NEW w \in Workers, NEW id \in Ids, Abandon(w, id) \/ Reconcile(w, id) PROVE Inv'
  BY <1>5, AbandonStep, ReconcileStep
<1>6. CASE Tick \/ Crash \/ Open
  BY <1>6, OutboxAssumption, TickStep, CrashStep, OpenStep
<1>7. CASE UNCHANGED vars
  BY <1>7, StutterStep
<1>. QED
  BY <1>1, <1>2, <1>3, <1>4, <1>5, <1>6, <1>7 DEF Next, Serve

------------------------------------------------------------------------------
(* The theorems                                                              *)

LEMMA Always == Spec => []Inv
<1>1. Init => Inv
  BY OutboxAssumption, InitInv
<1>2. Inv /\ [Next]_vars => Inv'
  BY NextInv
<1>. QED
  BY <1>1, <1>2, PTL DEF Spec

\* The types, and a lease on a record exactly while it is claimed or submitted.
THEOREM TypeCorrect == Spec => []TypeOK
<1>1. Inv => TypeOK
  <2>1. SUFFICES ASSUME Inv PROVE TypeOK
    OBVIOUS
  <2>2. WorldInv /\ StoreInv /\ TaskInv
    BY <2>1 DEF Inv
  <2>3. file.records \in Maps
    BY <2>2 DEF StoreInv, Kept, Files
  <2>4. DOMAIN file.records \subseteq Ids
    BY <2>3, MapType
  <2>5. /\ records \in Maps /\ Leased(records)
        /\ \A id \in DOMAIN records : id \in Ids /\ records[id] \in Records
    BY <2>2, StoreTypes
  <2>6. \A id \in DOMAIN records : LeasedRecord(records[id])
    BY <2>5 DEF Leased
  <2>7. \A w \in Workers : task[w].step # "idle" => task[w].id \in DOMAIN records
    BY <2>2 DEF TaskInv
  <2>8. DOMAIN records \subseteq Ids /\ clock \in 0 .. MaxClock /\ stale \subseteq Ids
    BY <2>2, <2>5 DEF WorldInv
  <2>. HIDE DEF Records
  <2>9. \A id \in DOMAIN records :
          /\ records[id] \in Records
          /\ IF records[id].state \in {"Claimed", "Submitted"}
             THEN records[id].token = records[id].generation /\ records[id].owner # NoLease
             ELSE records[id].token = 0 /\ records[id].owner = NoLease
    BY <2>5, <2>6 DEF LeasedRecord, Held
  <2>. QED
    BY <2>4, <2>7, <2>8, <2>9 DEF TypeOK
<1>. QED
  BY <1>1, Always, PTL

\* What a caller was told was done is still done, in the process and in every file
\* that can be replayed, whatever failed and however often the process died.
THEOREM PromisesAlwaysKept == Spec => []PromisesKept
<1>1. Inv => PromisesKept
  BY DEF Inv, StoreInv, Kept, Covers, PromisesKept
<1>. QED
  BY <1>1, Always, PTL

\* A notification goes to its channel at most once, whoever shares whose worker id,
\* and no two leases of a record have a token in common.
THEOREM AlwaysOneSender == Spec => []OneSender
<1>1. Inv => OneSender
  <2>1. SUFFICES ASSUME Inv PROVE OneSender
    OBVIOUS
  <2>2. StoreInv /\ TaskInv /\ LeasesApart
    BY <2>1 DEF Inv
  <2>3. ASSUME NEW id \in Ids
        PROVE  sends[id] <= 1 /\ (sends[id] = 1 /\ up => records[id].state \notin {"Pending", "Claimed"})
    <3>1. sends[id] <= 1
      BY <2>2 DEF TaskInv
    <3>2. ASSUME sends[id] = 1, up PROVE records[id].state \in Past
      <4>1. id \in Spent
        BY <3>2 DEF Spent
      <4>. QED
        BY <2>2, <3>2, <4>1, StoreTypes DEF Covers
    <3>. QED
      BY <3>1, <3>2 DEF Past, Terminal
  <2>. QED
    BY <2>2, <2>3 DEF OneSender, SentOnce
<1>. QED
  BY <1>1, Always, PTL

\* Until the first append fails the file replays to what is in memory; after that it is
\* unreadable, or at most one refused revision of one record ahead.
THEOREM ReplayAlwaysAgrees == Spec => []ReplayAgrees
<1>1. Inv => ReplayAgrees
  <2>1. SUFFICES ASSUME Inv PROVE ReplayAgrees
    OBVIOUS
  <2>2. /\ records \in Maps /\ faults \in Nat
        /\ up /\ file.readable => Agrees(records, file, faults)
        /\ faults = 0 => file.readable /\ file.ended /\ (up => file.pressure = pressure)
    BY <2>1 DEF Inv, StoreInv, Kept
  <2>3. ASSUME up, file.readable
        PROVE  /\ DOMAIN records \subseteq DOMAIN file.records
               /\ Cardinality({ id \in DOMAIN file.records : id \notin DOMAIN records
                                    \/ file.records[id] # records[id] }) <= faults
               /\ \A id \in DOMAIN records : file.records[id] # records[id] =>
                    file.records[id].revision = records[id].revision + 1
    <3>1. PICK ahead : ahead = { id \in DOMAIN file.records : id \notin DOMAIN records
                                        \/ file.records[id] # records[id] }
      OBVIOUS
    <3>2. CASE file.records = records
      <4>1. ahead = {}
        BY <3>1, <3>2
      <4>2. Cardinality(ahead) = 0
        BY <4>1, FS_EmptySet
      <4>. QED
        BY <2>2, <3>1, <3>2, <4>2
    <3>3. CASE file.records # records
      <4>1. faults > 0
        BY <2>2, <2>3, <3>3 DEF Agrees
      <4>2. PICK x \in Ids, record \in Records :
              Succeeds(records, x, record) /\ file.records = With(records, x, record)
        BY <2>2, <2>3, <3>3 DEF Agrees
      <4>. HIDE DEF Records, Maps
      <4>3. /\ DOMAIN file.records = DOMAIN records \cup {x} /\ file.records[x] = record
            /\ \A id \in DOMAIN records : id # x => file.records[id] = records[id]
        <5>1. PICK map : map = With(records, x, record)
          OBVIOUS
        <5>2. /\ DOMAIN map = DOMAIN records \cup {x} /\ map[x] = record
              /\ \A id \in DOMAIN records : id # x => map[id] = records[id]
          BY <2>2, <5>1, WithType
        <5>. QED
          BY <4>2, <5>1, <5>2
      <4>4. x \in DOMAIN records => record.revision = records[x].revision + 1
        BY <4>2 DEF Succeeds, Follows
      <4>5. ahead \subseteq {x}
        BY <3>1, <4>3
      <4>6. IsFiniteSet({x}) /\ Cardinality({x}) = 1
        BY FS_Singleton
      <4>7. Cardinality(ahead) <= 1 /\ Cardinality(ahead) \in Nat
        BY <4>5, <4>6, FS_Subset, FS_CardinalityType
      <4>8. Cardinality(ahead) <= faults
        BY <2>2, <4>1, <4>7
      <4>. QED
        BY <3>1, <4>3, <4>4, <4>8
    <3>. QED
      BY <3>2, <3>3
  <2>. QED
    BY <2>2, <2>3 DEF ReplayAgrees
<1>. QED
  BY <1>1, Always, PTL
==============================================================================
