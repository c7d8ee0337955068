---------------------------- MODULE MapFeedProofs ----------------------------
(***************************************************************************)
(* Proofs about the map feed: whatever the number of incidents, writers    *)
(* and rows of a page, a quiet client is current with what it was to know, *)
(* which is less where Redis failed a client that has no cursor yet.       *)
(*                                                                         *)
(* The argument follows the cursor.  Of each incident around the client,   *)
(* what the client has is the row itself, or the row lies ahead of the     *)
(* cursor and will be fetched, or it was committed behind the cursor       *)
(* (Current); and so after the page at hand is merged.  What the client    *)
(* was to be told is therefore known or ahead (Told), and while something  *)
(* is ahead, something is also on its way that makes it look (Attended).   *)
(* For this the client must hear of every incident around it: the cells it *)
(* subscribes to leave no hole, whatever its place and radius (CoverHolds).*)
(***************************************************************************)
EXTENDS MapFeed, TLAPS, FiniteSetTheorems, WellFoundedInduction

-----------------------------------------------------------------------------
(* The inductive invariant *)

\* What the client has of incident i once the page at hand is merged, and where
\* its cursor is then.
Has(i) == IF i \in DOMAIN page THEN page[i] ELSE shown[i]
NextCursor == IF DOMAIN page = {} THEN cursor ELSE LastKey(page)

\* Version p of an incident shows what was wanted.
Tells(p, wanted) == p.version >= wanted.version \/ (~wanted.active /\ ~p.active)

Ahead(c, i) == Before(c, Key(row, i))

\* A client with cursor c and version p of incident i misses nothing that it will
\* not fetch: the row is ahead, or known, or it was closed before the snapshot.
Current(c, p, i) ==
    \/ i \in overtaken \/ Ahead(c, i) \/ p.version = row[i].version
    \/ ~row[i].active /\ ~p.active /\ (cursor # NoCursor \/ ~opened)

\* The same of what it was to be told.
Told(c, p, i) == Tells(p, due[i]) \/ Ahead(c, i)

NotBeyond(c) == ~Before(high, c)

\* A table somebody read is an earlier state of the rows: what has changed since
\* is ahead of all of it, or was overtaken.
Earlier(table) ==
    \A i \in Incidents :
        /\ table[i].version > 0 => NotBeyond(Key(table, i))
        /\ table[i].version <= row[i].version
        /\ table[i].version = row[i].version => table[i] = row[i]
        /\ table[i].version < row[i].version =>
             i \in overtaken \/ \A j \in Incidents : table[j].version > 0 => Before(Key(table, j), Key(row, i))

Phases ==
    /\ feed # "merging" => DOMAIN page = {}
    /\ ~opened => link = "down" /\ feed # "waiting" /\ cursor = NoCursor
    /\ cursor # NoCursor => cached["all"] = NoEntry
    /\ feed = "closed" => link = "down"
    /\ ~opened => \A i \in Incidents : shown[i] = Absent /\ due[i].version = 0

Data ==
    /\ NotBeyond(cursor)
    /\ \A i \in Incidents : row[i].version > 0 => NotBeyond(Key(row, i))
    /\ \A i \in DOMAIN page : NotBeyond(Key(page, i)) /\ page[i].version <= row[i].version
    /\ \A k \in Queries : cached[k] # NoEntry => Earlier(cached[k])
    /\ \A i \in Incidents :
         /\ due[i].version <= row[i].version
         /\ i \in overtaken => due[i].version = 0
         /\ "all" \in valid => due[i].version <= cached["all"][i].version

Sound ==
    \A i \in Nearby :
        /\ Current(cursor, shown[i], i) /\ Current(NextCursor, Has(i), i)
        /\ Told(cursor, shown[i], i) /\ Told(NextCursor, Has(i), i)

\* Incident i is as it was wanted, or will be fetched.
Pending ==
    \/ message \/ triggered \/ link # "subscribed" \/ feed = "fetching"
    \/ feed = "waiting" /\ ~fresh
    \/ feed = "merging" /\ (~opened \/ ~(Cardinality(DOMAIN page) < LIMIT))

\* While there is something to catch up with, there is a reason to look: provided
\* that the client hears what is around it.
Attended ==
    Nearby \subseteq Heard => \A i \in Nearby : Pending \/ Tells(Has(i), due[i])

FeedInv == TypeOK /\ IsFiniteSet(txs) /\ Phases /\ Data /\ Sound /\ Attended

-----------------------------------------------------------------------------
(* The order of the cursor, and the pages cut from it *)

\* Before is a strict total order of keys.
LEMMA BeforeOrder ==
    \A a, b, c \in Nat \X Nat :
        /\ ~Before(a, a)
        /\ Before(a, b) /\ Before(b, c) => Before(a, c)
        /\ a = b \/ Before(a, b) \/ Before(b, a)
  BY SMT DEF Before

\* The key of an incident is a cursor past the one nobody has, and tells its id.
LEMMA KeyType ==
    ASSUME NEW table, NEW i \in Incidents, table[i].at \in 0 .. MaxTime
    PROVE  /\ Key(table, i) \in Cursors /\ Key(table, i) \in Nat \X Nat
           /\ Before(NoCursor, Key(table, i)) /\ Key(table, i) # NoCursor
           /\ Key(table, i)[2] = i
  BY FeedAssumption, SMT DEF Key, Cursors, NoCursor, Before

\* Cursors are pairs of numbers.
LEMMA CursorType ==
    Cursors \subseteq Nat \X Nat /\ NoCursor \in Cursors
<1>1. 0 .. MaxTime \subseteq Nat /\ Incidents \union {0} \subseteq Nat /\ 0 \in 0 .. MaxTime
  BY FeedAssumption
<1> QED  BY <1>1 DEF Cursors, NoCursor

\* In a finite set, what is below something is below something minimal.
LEMMA Minimal ==
    ASSUME NEW S, IsFiniteSet(S), NEW T \in SUBSET S, T # {},
           NEW below \in [S -> SUBSET S],
           \A x, y \in S : y \in below[x] => below[y] \subseteq below[x] /\ y \notin below[y]
    PROVE  \E x \in T : \A y \in T : y \notin below[x]
<1> DEFINE F == {below[x] : x \in T}
<1>1. F \subseteq SUBSET S /\ F # {}
  OBVIOUS
<1>2. IsWellFoundedOn(StrictSubsetOrdering(S), SUBSET S)
  BY FS_StrictSubsetOrderingWellFounded, FS_FiniteSubsetsOfFinite
<1>3. PICK X \in F : \A Y \in F : <<Y, X>> \notin StrictSubsetOrdering(S)
  <2> HIDE DEF F
  <2> QED  BY <1>1, <1>2, WFMin
<1>4. PICK x \in T : X = below[x]
  OBVIOUS
<1>5. ASSUME NEW y \in T, y \in below[x] PROVE FALSE
  <2>1. below[y] \subseteq below[x] /\ below[y] # below[x]
    BY <1>5
  <2>2. <<below[y], below[x]>> \in StrictSubsetOrdering(S)
    BY <2>1 DEF StrictSubsetOrdering
  <2> QED  BY <1>3, <1>4, <2>2
<1> QED  BY <1>5

\* A table that a page is cut from, and the rows it is cut from.
PageOf(table, S) ==
    /\ S \subseteq Incidents
    /\ \A i \in S : table[i].at \in 0 .. MaxTime

Behind(table, S, i) == {k \in S : Before(Key(table, k), Key(table, i))}

\* The rows of a page, and those behind one of them, can be counted.
LEMMA BehindFinite ==
    ASSUME NEW table, NEW S, PageOf(table, S), NEW i \in S
    PROVE  /\ IsFiniteSet(S) /\ IsFiniteSet(Behind(table, S, i))
           /\ Cardinality(S) \in Nat /\ Cardinality(Behind(table, S, i)) \in Nat
<1>1. IsFiniteSet(S) /\ Cardinality(S) \in Nat
  BY FeedAssumption, FS_Subset, FS_CardinalityType DEF PageOf
<1>2. Behind(table, S, i) \in SUBSET S
  BY DEF Behind
<1> QED  BY <1>1, <1>2, FS_Subset, FS_CardinalityType

\* Keys of different incidents of a table are ordered.
LEMMA KeysOrdered ==
    ASSUME NEW table, NEW S, PageOf(table, S)
    PROVE  /\ \A i \in S : Key(table, i) \in Nat \X Nat /\ ~Before(Key(table, i), Key(table, i))
           /\ \A i, j \in S : i = j \/ Before(Key(table, i), Key(table, j)) \/ Before(Key(table, j), Key(table, i))
           /\ \A i, j, k \in S : Before(Key(table, i), Key(table, j)) /\ Before(Key(table, j), Key(table, k))
                                   => Before(Key(table, i), Key(table, k))
<1>1. \A i \in S : Key(table, i) \in Nat \X Nat /\ Key(table, i)[2] = i
  BY KeyType DEF PageOf
<1> QED  BY <1>1, BeforeOrder, Zenon

\* The rows of a page come before the rows left out.
LEMMA PageFirst ==
    ASSUME NEW table, NEW S, PageOf(table, S),
           NEW j \in DOMAIN Page(table, S), NEW i \in S \ DOMAIN Page(table, S)
    PROVE  Before(Key(table, j), Key(table, i))
<1>1. j \in S /\ Cardinality(Behind(table, S, j)) < LIMIT /\ ~(Cardinality(Behind(table, S, i)) < LIMIT)
  BY DEF Page, Behind
<1>2. CASE Before(Key(table, i), Key(table, j))
  <2>1. Behind(table, S, i) \in SUBSET Behind(table, S, j)
    BY <1>1, <1>2, KeysOrdered DEF Behind
  <2>2. Cardinality(Behind(table, S, i)) <= Cardinality(Behind(table, S, j))
    BY <1>1, <2>1, BehindFinite, FS_Subset
  <2> QED  BY <1>1, <2>2, BehindFinite, FeedAssumption
<1>3. i # j
  BY <1>1
<1> QED  BY <1>1, <1>2, <1>3, KeysOrdered

\* A page that is not full holds all rows.
LEMMA PageComplete ==
    ASSUME NEW table, NEW S, PageOf(table, S), Cardinality(DOMAIN Page(table, S)) < LIMIT
    PROVE  DOMAIN Page(table, S) = S
<1> DEFINE P == DOMAIN Page(table, S)
<1> DEFINE below == [i \in S |-> Behind(table, S, i)]
<1>1. P = {i \in S : Cardinality(Behind(table, S, i)) < LIMIT}
  BY DEF Page, Behind
<1>2. SUFFICES ASSUME S \ P # {} PROVE FALSE
  BY <1>1
<1>3. IsFiniteSet(S)
  BY <1>2, BehindFinite
<1>4. below \in [S -> SUBSET S]
  BY DEF Behind
<1>5. \A x, y \in S : y \in below[x] => below[y] \subseteq below[x] /\ y \notin below[y]
  BY KeysOrdered DEF Behind
<1> DEFINE T == S \ P
<1>6. PICK x \in T : \A y \in T : y \notin below[x]
  <2>1. T \in SUBSET S /\ T # {}
    BY <1>2
  <2> HIDE DEF below, T
  <2> QED  BY <1>3, <1>4, <1>5, <2>1, Minimal
<1>7. Behind(table, S, x) \in SUBSET P
  BY <1>6 DEF Behind
<1>8. IsFiniteSet(P) /\ Cardinality(P) \in Nat
  BY <1>1, <1>3, FS_Subset, FS_CardinalityType
<1>9. Cardinality(Behind(table, S, x)) <= Cardinality(P)
  BY <1>7, <1>8, FS_Subset
<1>10. Cardinality(Behind(table, S, x)) \in Nat /\ ~(Cardinality(Behind(table, S, x)) < LIMIT)
  BY <1>1, <1>6, BehindFinite
<1> HIDE DEF P
<1>11. Cardinality(P) < LIMIT
  BY DEF P
<1> QED  BY <1>8, <1>9, <1>10, <1>11, FeedAssumption

\* The rows of a table have a last one.
LEMMA LastExists ==
    ASSUME NEW table, NEW S, PageOf(table, S), S # {}
    PROVE  \E i \in S : \A j \in S \ {i} : Before(Key(table, j), Key(table, i))
<1> DEFINE above == [i \in S |-> {k \in S : Before(Key(table, i), Key(table, k))}]
<1>1. IsFiniteSet(S)
  BY BehindFinite
<1>2. above \in [S -> SUBSET S]
  OBVIOUS
<1>3. \A x, y \in S : y \in above[x] => above[y] \subseteq above[x] /\ y \notin above[y]
  BY KeysOrdered
<1>4. PICK x \in S : \A y \in S : y \notin above[x]
  <2> HIDE DEF above
  <2> QED  BY <1>1, <1>2, <1>3, Minimal
<1> QED  BY <1>4, KeysOrdered

\* A page holds no more rows than its limit.
LEMMA PageLimit ==
    ASSUME NEW table, NEW S, PageOf(table, S)
    PROVE  /\ IsFiniteSet(DOMAIN Page(table, S)) /\ Cardinality(DOMAIN Page(table, S)) \in Nat
           /\ Cardinality(DOMAIN Page(table, S)) <= LIMIT
<1> DEFINE P == DOMAIN Page(table, S)
<1>1. P = {i \in S : Cardinality(Behind(table, S, i)) < LIMIT}
  BY DEF Page, Behind
<1>2. IsFiniteSet(P) /\ Cardinality(P) \in Nat
  BY <1>1, FeedAssumption, FS_Subset, FS_CardinalityType DEF PageOf
<1>3. CASE P = {}
  BY <1>3, FS_EmptySet, FeedAssumption
<1>4. CASE P # {}
  <2>1. PageOf(table, P)
    BY <1>1 DEF PageOf
  <2>2. PICK x \in P : \A j \in P \ {x} : Before(Key(table, j), Key(table, x))
    <3> HIDE DEF P
    <3> QED  BY <1>4, <2>1, LastExists
  <2>3. P \ {x} \in SUBSET Behind(table, S, x)
    BY <1>1, <2>2 DEF Behind
  <2>4. Cardinality(P \ {x}) = Cardinality(P) - 1
    <3> HIDE DEF P
    <3> QED  BY <1>2, <2>2, FS_RemoveElement
  <2>5. Cardinality(P \ {x}) <= Cardinality(Behind(table, S, x))
    BY <1>1, <2>2, <2>3, BehindFinite, FS_Subset
  <2>6. Cardinality(Behind(table, S, x)) \in Nat /\ Cardinality(Behind(table, S, x)) < LIMIT
    BY <1>1, <2>2, BehindFinite
  <2>7. Cardinality(P) <= LIMIT
    <3> HIDE DEF P
    <3> QED  BY <1>2, <2>4, <2>5, <2>6, FeedAssumption
  <2> QED  BY <1>2, <2>7
<1> QED  BY <1>2, <1>3, <1>4

\* The cursor moves to the key of a row of the page, the last one.
LEMMA LastKeyIs ==
    ASSUME NEW rows, PageOf(rows, DOMAIN rows), DOMAIN rows # {}
    PROVE  \E i \in DOMAIN rows : LastKey(rows) = Key(rows, i)
<1>1. \E i \in DOMAIN rows : \A j \in DOMAIN rows \ {i} : Before(Key(rows, j), Key(rows, i))
  BY LastExists
<1> QED  BY <1>1 DEF LastKey

-----------------------------------------------------------------------------
(* What the parts of the invariant say, one incident at a time *)

\* Two ways to be behind nothing: a cursor that is not beyond the highest commit
\* is before any key that is.
LEMMA BeyondHigh ==
    ASSUME NEW c \in Cursors, NEW h \in Cursors, NEW k \in Nat \X Nat, ~Before(h, c), Before(h, k)
    PROVE  Before(c, k)
  BY CursorType, BeforeOrder, Zenon

\* Nothing is behind the cursor that nobody has.
LEMMA AllAhead ==
    ASSUME TypeOK, NEW i \in Incidents
    PROVE  Ahead(NoCursor, i)
  BY KeyType DEF TypeOK, Table, Row, Ahead

\* A client that has not asked yet misses nothing.
LEMMA InitHolds == Init => FeedInv
<1> SUFFICES ASSUME Init PROVE FeedInv
  OBVIOUS
<1>1. IsFiniteSet(txs) /\ Cardinality(txs) = 0 /\ DOMAIN page = {} /\ Cardinality(DOMAIN page) = 0
  BY FS_EmptySet DEF Init, NoEntry
<1>2. Absent \in Row
  BY FeedAssumption DEF Absent, Row
<1>3. high \in Cursors /\ \A i \in Existing : ~Before(high, <<0, i>>)
  <2>1. CASE Existing = {}
    BY <2>1, CursorType DEF Init
  <2>2. CASE Existing # {}
    <3>1. PageOf(row, Existing) /\ \A i \in Existing : i \in Nat /\ Key(row, i) = <<0, i>>
      BY FeedAssumption DEF Init, PageOf, Key
    <3>2. PICK i \in Existing : \A j \in Existing \ {i} : Before(<<0, j>>, <<0, i>>)
      BY <2>2, <3>1, LastExists
    <3>3. \A j \in Existing : j <= i
      BY <3>1, <3>2 DEF Before
    <3>4. PICK k \in Existing : high = <<0, k>> /\ \A j \in Existing : j <= k
      BY <2>2, <3>3 DEF Init
    <3> QED  BY <3>1, <3>4, FeedAssumption DEF Cursors, Before
  <2> QED  BY <2>1, <2>2
<1>4. row \in Table /\ \A i \in Incidents : Key(row, i) = <<0, i>>
  BY <1>2, FeedAssumption DEF Init, Table, Row, Absent, Key
<1>5. TypeOK
  <2>1. shown \in Table /\ due \in Table /\ \A i \in Incidents : shown[i].version <= row[i].version
    BY <1>2, <1>4 DEF Init, Table, Row, Absent
  <2>2. now \in 0 .. MaxTime /\ Cardinality(txs) <= Writers /\ Cardinality(DOMAIN page) <= LIMIT
    BY <1>1, FeedAssumption DEF Init
  <2>3. cached \in [Queries -> Table \union {NoEntry}] /\ valid = {}
    BY DEF Init
  <2>4. cursor \in Cursors
    BY CursorType DEF Init
  <2> QED  BY <1>1, <1>3, <1>4, <2>1, <2>2, <2>3, <2>4 DEF Init, TypeOK
<1>6. Phases /\ Attended
  <2>1. Phases
    BY <1>1 DEF Init, Phases, Queries, Absent
  <2>2. Attended
    BY DEF Init, Attended, Pending
  <2> QED  BY <2>1, <2>2
<1>7. Data
  <2>1. NotBeyond(cursor)
    <3>1. PICK n \in Nat, m \in Nat : high = <<n, m>>
      BY <1>3, CursorType
    <3>2. ~Before(<<n, m>>, <<0, 0>>)
      BY SMT DEF Before
    <3> QED  BY <3>1, <3>2 DEF Init, NotBeyond, NoCursor
  <2>2. \A i \in Incidents : row[i].version > 0 => NotBeyond(Key(row, i))
    BY <1>3, <1>4 DEF Init, Absent, NotBeyond
  <2>3. \A i \in Incidents : due[i].version <= row[i].version
    BY <1>4 DEF Init, Absent, Table, Row
  <2> QED  BY <1>1, <2>1, <2>2, <2>3 DEF Init, Data, Queries
<1>8. Sound
  BY <1>1, <1>5, AllAhead DEF Init, Sound, Current, Told, NextCursor, Nearby
<1> QED  BY <1>1, <1>5, <1>6, <1>7, <1>8 DEF FeedInv

\* A step that leaves the rows and the client alone, and adds nothing to the
\* cache, keeps what the invariant says of them.
LEMMA FrameKept ==
    ASSUME FeedInv, UNCHANGED <<row, high, overtaken, opened, page, cursor, shown, due>>,
           UNCHANGED cached, valid' \subseteq valid
    PROVE  Data' /\ Sound'
<1>1. Data'
  BY DEF FeedInv, Data, NotBeyond, Earlier, Queries
<1>2. Sound'
  BY DEF FeedInv, Sound, Current, Told, Ahead, Has, NextCursor, Tells, LastKey
<1> QED  BY <1>1, <1>2

-----------------------------------------------------------------------------
(* The steps that only move the machinery *)

\* A transaction that begins changes no row.
LEMMA BeginKept ==
    ASSUME FeedInv, NEW t \in Transaction, Begin(t)
    PROVE  FeedInv'
<1>1. IsFiniteSet(txs') /\ Cardinality(txs') = Cardinality(txs) + 1 /\ Cardinality(txs) \in Nat
  BY FS_AddElement, FS_CardinalityType DEF FeedInv, Begin
<1>2. now' \in 0 .. MaxTime
  BY DEF Begin, Transaction
<1>3. TypeOK'
  BY <1>1, <1>2, FeedAssumption
     DEF FeedInv, TypeOK, Begin, serverVars, realtimeVars, clientVars, cacheVars
<1>4. Data' /\ Sound'
  BY FrameKept DEF Begin, realtimeVars, clientVars, cacheVars
<1>5. Phases' /\ Attended'
  BY DEF FeedInv, Phases, Attended, Pending, Tells, Has, Begin, realtimeVars, clientVars, cacheVars
<1> QED  BY <1>1, <1>3, <1>4, <1>5 DEF FeedInv

\* The broker comes and goes, and takes events with it: only the client's timer
\* makes up for those, and nothing is owed for them.
LEMMA BrokerKept ==
    ASSUME FeedInv, LoseBroker \/ FindBroker \/ \E i \in Incidents : MissEvent(i)
    PROVE  FeedInv'
<1>1. /\ UNCHANGED <<serverVars, link, message, clientVars, cached, valid, triggered, due>>
      /\ listening' \in BOOLEAN /\ events' \subseteq Incidents
  BY DEF FeedInv, TypeOK, LoseBroker, FindBroker, MissEvent, cacheVars
<1>2. TypeOK' /\ IsFiniteSet(txs')
  BY <1>1 DEF FeedInv, TypeOK, serverVars, clientVars
<1>3. Data' /\ Sound'
  BY <1>1, FrameKept DEF serverVars, clientVars
<1>4. Phases' /\ Attended'
  BY <1>1 DEF FeedInv, Phases, Attended, Pending, Tells, Has, clientVars
<1> QED  BY <1>2, <1>3, <1>4 DEF FeedInv

\* A message read becomes a trigger; a connection lost is not a subscription.
LEMMA LinkKept ==
    ASSUME FeedInv, Connect \/ Break \/ Notice \/ Receive \/ Tick
    PROVE  FeedInv'
<1>1. UNCHANGED <<serverVars, clientVars, events, listening, cached, valid, due>>
  BY DEF Connect, Break, Notice, Receive, Tick, realtimeVars, cacheVars
<1>2. /\ link' \in {"down", "asking", "broken", link} /\ message' \in BOOLEAN /\ triggered' \in BOOLEAN
      /\ message' \/ triggered' \/ link' # "subscribed"
      /\ ~opened \/ feed = "closed" => link' = "down"
  BY DEF FeedInv, TypeOK, Phases, Connect, Break, Notice, Receive, Tick, realtimeVars
<1>3. TypeOK' /\ IsFiniteSet(txs')
  BY <1>1, <1>2 DEF FeedInv, TypeOK, serverVars, clientVars
<1>4. Data' /\ Sound'
  BY <1>1, FrameKept DEF serverVars, clientVars
<1>5. Phases' /\ Attended'
  BY <1>1, <1>2 DEF FeedInv, Phases, Attended, Pending, clientVars
<1> QED  BY <1>3, <1>4, <1>5 DEF FeedInv

\* A trigger taken becomes a fetch.
LEMMA FetchKept ==
    ASSUME FeedInv, Fetch
    PROVE  FeedInv'
<1>1. TypeOK' /\ IsFiniteSet(txs')
  BY DEF FeedInv, TypeOK, Fetch, serverVars, realtimeVars, cacheVars
<1>2. Data' /\ Sound'
  BY FrameKept DEF Fetch, serverVars, cacheVars
<1>3. Phases' /\ Attended'
  BY DEF FeedInv, Phases, Attended, Pending, Fetch, realtimeVars, cacheVars
<1> QED  BY <1>1, <1>2, <1>3 DEF FeedInv

\* A table is not the mark of an absent entry.
LEMMA RowIsEntry ==
    ASSUME FeedInv
    PROVE  row \in Table /\ \A table \in Table : table # NoEntry
<1>1. row \in Table
  BY DEF FeedInv, TypeOK
<1>2. ASSUME NEW table \in Table PROVE DOMAIN table # {} /\ DOMAIN NoEntry = {}
  BY FeedAssumption DEF Table, NoEntry
<1> QED  BY <1>1, <1>2

\* An entry of the cache is the table of the moment, or goes.
LEMMA CacheKept ==
    ASSUME FeedInv, NEW k \in Queries, Warm(k) \/ ExpireEntry(k)
    PROVE  FeedInv'
<1>1. /\ UNCHANGED <<serverVars, realtimeVars, clientVars, triggered, due>>
      /\ \/ cached' = [cached EXCEPT ![k] = NoEntry] /\ valid' = valid \ {k}
         \/ /\ cursor = NoCursor /\ valid' = valid \union {k}
            /\ cached' = [cached EXCEPT ![k] = row]
  BY DEF Warm, ExpireEntry
<1>2. /\ cached' \in [Queries -> Table \union {NoEntry}]
      /\ valid' \subseteq {j \in Queries : cached'[j] # NoEntry}
      /\ \A j \in Queries : cached'[j] = cached[j] \/ cached'[j] = NoEntry \/ cached'[j] = row
      /\ \A j \in valid' : (cached'[j] = cached[j] /\ j \in valid) \/ cached'[j] = row
  <2>1. row \in Table /\ row # NoEntry
    BY RowIsEntry
  <2> QED  BY <1>1, <2>1 DEF FeedInv, TypeOK
<1>3. TypeOK' /\ IsFiniteSet(txs')
  BY <1>1, <1>2 DEF FeedInv, TypeOK, serverVars, realtimeVars, clientVars
<1>4. Sound'
  BY <1>1 DEF FeedInv, Sound, Current, Told, Ahead, Has, NextCursor, Tells, LastKey, serverVars, clientVars
<1>5. Data'
  <2>1. Earlier(row)
    BY DEF FeedInv, TypeOK, Table, Row, Data, Earlier
  <2>2. \A j \in Queries : cached'[j] # NoEntry => cached'[j] \in {cached[j], row}
    BY <1>2
  <2>3. \A j \in Queries : cached'[j] # NoEntry => Earlier(cached'[j])
    BY <2>1, <2>2 DEF FeedInv, Data
  <2>4. \A j \in Queries : cached'[j] # NoEntry => Earlier(cached[j])'
    BY <1>1, <2>3 DEF Earlier, NotBeyond, serverVars
  <2>5. \A i \in Incidents : "all" \in valid' => due[i].version <= cached'["all"][i].version
    BY <1>2 DEF FeedInv, Data, Queries
  <2> QED  BY <1>1, <2>4, <2>5 DEF FeedInv, Data, NotBeyond, serverVars, clientVars
<1>6. Phases'
  BY <1>1 DEF FeedInv, TypeOK, Phases, Queries, realtimeVars, clientVars
<1>7. Attended'
  BY <1>1 DEF FeedInv, Attended, Pending, Tells, Has, realtimeVars, clientVars
<1> QED  BY <1>3, <1>4, <1>5, <1>6, <1>7 DEF FeedInv

\* An entry from before is an earlier state of the rows, and what the client is
\* to know is cut down to it.
LEMMA LoseVersionKept ==
    ASSUME FeedInv, NEW k \in Queries, LoseVersion(k)
    PROVE  FeedInv'
<1>1. /\ UNCHANGED <<serverVars, realtimeVars, clientVars, triggered>> /\ cached' = cached
      /\ cached[k] # NoEntry /\ valid' = valid \union {k}
      /\ \A i \in Incidents : due'[i] = due[i] \/ due'[i] = Absent
      /\ due' \in Table
      /\ k = "all" => \A i \in Incidents : due[i].version > cached[k][i].version => due'[i] = Absent
  <2>1. Absent \in Row
    BY FeedAssumption DEF Absent, Row
  <2> QED  BY <2>1 DEF LoseVersion, FeedInv, TypeOK, Table
<1>2. \A i \in Incidents : /\ due[i] \in Row /\ due'[i] \in Row /\ row[i] \in Row /\ shown[i] \in Row
                           /\ cached[k][i] \in Row
                           /\ \A p \in Row : Tells(p, due[i]) => Tells(p, due'[i])
  BY <1>1 DEF FeedInv, TypeOK, Table, Row, Absent, Tells
<1>3. \A i \in Incidents : Has(i) \in Row /\ Has(i)' = Has(i)
  BY <1>1, <1>2 DEF FeedInv, TypeOK, Has, clientVars
<1>4. TypeOK' /\ IsFiniteSet(txs')
  BY <1>1 DEF FeedInv, TypeOK, serverVars, realtimeVars, clientVars
<1>5. Phases'
  BY <1>1 DEF FeedInv, Phases, Absent, realtimeVars, clientVars
<1>6. Data'
  <2>1. ASSUME NEW i \in Incidents
        PROVE  /\ due'[i].version <= row[i].version
               /\ i \in overtaken => due'[i].version = 0
               /\ "all" \in valid' => due'[i].version <= cached["all"][i].version
    <3>1. /\ due[i].version <= row[i].version
          /\ i \in overtaken => due[i].version = 0
          /\ "all" \in valid => due[i].version <= cached["all"][i].version
      BY DEF FeedInv, Data
    <3>2. due'[i] = due[i] \/ due'[i].version = 0
      BY <1>1 DEF Absent
    <3>3. ASSUME k = "all" PROVE due'[i].version <= cached["all"][i].version
      BY <1>1, <1>2, <3>3 DEF Row, Absent
    <3>4. "all" \in valid => cached["all"][i] \in Row
      BY DEF FeedInv, TypeOK, Table, Queries
    <3> QED  BY <1>1, <1>2, <3>1, <3>2, <3>3, <3>4 DEF Row
  <2>2. \A j \in Queries : cached'[j] # NoEntry => Earlier(cached[j])'
    BY <1>1 DEF FeedInv, Data, Earlier, NotBeyond, Key, serverVars
  <2> QED  BY <1>1, <2>1, <2>2 DEF FeedInv, Data, NotBeyond, Key, serverVars, clientVars
<1>7. Sound'
  <2> SUFFICES ASSUME NEW i \in Nearby
               PROVE  /\ (Current(cursor, shown[i], i) /\ Told(cursor, shown[i], i))'
                      /\ (Current(NextCursor, Has(i), i) /\ Told(NextCursor, Has(i), i))'
    BY DEF Sound, Nearby
  <2>1. /\ i \in Incidents /\ Current(cursor, shown[i], i) /\ Told(cursor, shown[i], i)
        /\ Current(NextCursor, Has(i), i) /\ Told(NextCursor, Has(i), i)
    BY DEF FeedInv, Sound, Nearby
  <2>2. NextCursor' = NextCursor
    BY <1>1 DEF NextCursor, LastKey, Key, clientVars
  <2> QED  BY <1>1, <1>2, <1>3, <2>1, <2>2
           DEF Current, Told, Tells, Ahead, Key, serverVars, clientVars
<1>8. Attended'
  BY <1>1, <1>2, <1>3 DEF FeedInv, Attended, Pending, Nearby, realtimeVars, clientVars
<1> QED  BY <1>4, <1>5, <1>6, <1>7, <1>8 DEF FeedInv

-----------------------------------------------------------------------------
(* A transaction commits *)

\* The cursor that the page at hand leads to is that of a row which was committed.
LEMMA NextCursorSafe ==
    ASSUME FeedInv
    PROVE  /\ cursor \in Cursors /\ NotBeyond(cursor)
           /\ NextCursor \in Cursors /\ NotBeyond(NextCursor)
           /\ cursor # NoCursor => NextCursor # NoCursor
           /\ DOMAIN page # {} => NextCursor # NoCursor
           /\ DOMAIN page # {} => \E j \in DOMAIN page : NextCursor = Key(page, j)
<1>1. cursor \in Cursors /\ NotBeyond(cursor)
  BY DEF FeedInv, TypeOK, Data
<1>2. CASE DOMAIN page = {}
  BY <1>1, <1>2 DEF NextCursor
<1>3. CASE DOMAIN page # {}
  <2>1. PageOf(page, DOMAIN page)
    BY DEF FeedInv, TypeOK, PageOf, Row
  <2>2. PICK j \in DOMAIN page : LastKey(page) = Key(page, j)
    BY <1>3, <2>1, LastKeyIs
  <2>3. j \in Incidents /\ page[j].at \in 0 .. MaxTime
    BY <2>1 DEF PageOf
  <2>4. Key(page, j) \in Cursors /\ Key(page, j) # NoCursor /\ NotBeyond(Key(page, j))
    BY <2>3, KeyType DEF FeedInv, Data
  <2> QED  BY <1>1, <1>3, <2>2, <2>4 DEF NextCursor
<1> QED  BY <1>2, <1>3

\* A change committed in order is ahead of whatever anybody has; one committed
\* out of order is overtaken, and no longer owed.
LEMMA CommitKept ==
    ASSUME FeedInv, NEW t \in txs, Commit(t)
    PROVE  FeedInv'
<1> DEFINE i == t.incident
           key == <<t.at, i>>
           inOrder == Before(high, key)
<1>1. /\ i \in Incidents /\ t.at \in 0 .. MaxTime /\ key \in Cursors
      /\ \A j \in Incidents : row[j] \in Row /\ shown[j] \in Row /\ due[j] \in Row
  BY FeedAssumption DEF FeedInv, TypeOK, Transaction, Table, Cursors
<1>2. /\ row' \in Table /\ row'[i].at = t.at /\ row'[i].version = row[i].version + 1
      /\ \A j \in Incidents \ {i} : row'[j] = row[j]
  <2> DEFINE new == [at |-> t.at, version |-> row[i].version + 1,
                     active |-> IF t.change = "photo" THEN row[i].active ELSE t.change # "close"]
  <2>1. new \in Row
    <3>1. row[i].version + 1 \in Nat /\ row[i].active \in BOOLEAN
      BY <1>1 DEF Row
    <3>2. (IF t.change = "photo" THEN row[i].active ELSE t.change # "close") \in BOOLEAN
      BY <3>1
    <3> QED  BY <1>1, <3>1, <3>2 DEF Row
  <2>2. row \in Table /\ row' = [row EXCEPT ![i] = new]
    BY DEF FeedInv, TypeOK, Commit
  <2>3. new.at = t.at /\ new.version = row[i].version + 1
    OBVIOUS
  <2> HIDE DEF new, i
  <2> QED  BY <1>1, <2>1, <2>2, <2>3 DEF Table
<1>3. /\ UNCHANGED <<now, link, feed, message, triggered, opened, page, cursor, shown, fresh, cached, valid>>
      /\ listening' = listening /\ events' \subseteq Incidents
  BY <1>1 DEF FeedInv, TypeOK, Commit, clientVars, cacheVars
<1>4. /\ high' = IF inOrder THEN key ELSE high
      /\ overtaken' = IF inOrder THEN overtaken \ {i} ELSE overtaken \union {i}
      /\ due' = IF inOrder THEN due ELSE [due EXCEPT ![i] = Absent]
  BY DEF Commit
<1> HIDE DEF i, key, inOrder
<1>5. /\ high' \in Cursors /\ overtaken' \subseteq Incidents
      /\ \A j \in Incidents : due'[j] = due[j] \/ (due'[j] = Absent /\ j = i /\ ~inOrder)
      /\ due' \in Table /\ (~inOrder => due'[i] = Absent)
  BY <1>1, <1>4, FeedAssumption DEF FeedInv, TypeOK, Table, Row, Absent
<1>6. TypeOK' /\ IsFiniteSet(txs')
  <2>1. IsFiniteSet(txs') /\ txs' \subseteq txs /\ Cardinality(txs') <= Writers
    <3>1. IsFiniteSet(txs) /\ Cardinality(txs) \in Nat /\ Cardinality(txs) <= Writers /\ txs' \in SUBSET txs
      BY FS_CardinalityType DEF FeedInv, TypeOK, Commit
    <3>2. IsFiniteSet(txs') /\ Cardinality(txs') \in Nat /\ Cardinality(txs') <= Cardinality(txs)
      BY <3>1, FS_Subset, FS_CardinalityType
    <3> QED  BY <3>1, <3>2, FeedAssumption
  <2>2. \A j \in Incidents : shown'[j].version <= row'[j].version
    BY <1>1, <1>2, <1>3 DEF FeedInv, TypeOK, Row
  <2> QED  BY <1>2, <1>3, <1>5, <2>1, <2>2 DEF FeedInv, TypeOK
<1>7. Key(row, i)' = key /\ \A j \in Incidents \ {i} : Key(row, j)' = Key(row, j)
  BY <1>2 DEF Key, key
<1>8. \A c \in Cursors : NotBeyond(c) => ~Before(high', c) /\ (inOrder => Before(c, key))
  <2>1. high \in Cursors
    BY DEF FeedInv, TypeOK
  <2> QED  BY <1>1, <1>4, <2>1, CursorType, BeforeOrder, Zenon DEF NotBeyond, inOrder
<1>9. cursor \in Cursors /\ NotBeyond(cursor) /\ NextCursor \in Cursors /\ NotBeyond(NextCursor)
  BY NextCursorSafe
<1>10. Phases' /\ Attended'
  <2>1. Phases'
    BY <1>3, <1>5 DEF FeedInv, Phases, Absent
  <2>2. ASSUME Nearby \subseteq Heard, NEW j \in Nearby, ~Pending' PROVE Tells(Has(j), due[j])'
    <3>1. j \in Incidents /\ Tells(Has(j), due[j])
      BY <1>3, <2>2 DEF FeedInv, Attended, Pending, Nearby
    <3>2. Has(j)' = Has(j) /\ Has(j) \in Row
      BY <1>1, <1>3, <3>1 DEF FeedInv, TypeOK, Has
    <3> QED  BY <1>5, <3>1, <3>2 DEF Tells, Row, Absent
  <2> QED  BY <2>1, <2>2 DEF Attended
<1>11. Sound'
  <2>1. ASSUME NEW j \in Incidents, NEW c \in Cursors, NEW p \in Row, NotBeyond(c),
               Current(c, p, j), Told(c, p, j)
        PROVE  /\ \/ j \in overtaken'
                  \/ Before(c, <<row'[j].at, j>>)
                  \/ p.version = row'[j].version
                  \/ ~row'[j].active /\ ~p.active /\ (cursor # NoCursor \/ ~opened)
               /\ \/ p.version >= due'[j].version
                  \/ ~due'[j].active /\ ~p.active
                  \/ Before(c, <<row'[j].at, j>>)
    <3>1. CASE j = i
      <4>1. CASE inOrder
        BY <1>2, <1>8, <2>1, <3>1, <4>1 DEF key
      <4>2. CASE ~inOrder
        BY <1>4, <1>5, <2>1, <3>1, <4>2 DEF Absent, Row
      <4> QED  BY <4>1, <4>2
    <3>2. CASE j # i
      BY <1>2, <1>4, <1>5, <2>1, <3>2 DEF Current, Told, Tells, Ahead, Key
    <3> QED  BY <3>1, <3>2
  <2>2. UNCHANGED <<page, cursor, shown, opened>>
    BY <1>3
  <2>3. NextCursor' = NextCursor
    BY <2>2 DEF NextCursor, LastKey, Key
  <2>4. ASSUME NEW j \in Nearby
        PROVE  (Current(cursor, shown[j], j) /\ Told(cursor, shown[j], j))'
    <3>1. j \in Incidents /\ Current(cursor, shown[j], j) /\ Told(cursor, shown[j], j)
      BY DEF FeedInv, Sound, Nearby
    <3> QED  BY <1>1, <1>9, <2>1, <2>2, <3>1 DEF Current, Told, Tells, Ahead, Key
  <2>5. ASSUME NEW j \in Nearby
        PROVE  (Current(NextCursor, Has(j), j) /\ Told(NextCursor, Has(j), j))'
    <3>1. j \in Incidents /\ Current(NextCursor, Has(j), j) /\ Told(NextCursor, Has(j), j)
      BY DEF FeedInv, Sound, Nearby
    <3>2. Has(j)' = Has(j) /\ Has(j) \in Row
      BY <1>1, <2>2, <3>1 DEF FeedInv, TypeOK, Has
    <3> QED  BY <1>1, <1>9, <2>1, <2>2, <2>3, <3>1, <3>2 DEF Current, Told, Tells, Ahead, Key
  <2> QED  BY <2>4, <2>5 DEF Sound
<1>12. Data'
  <2>1. NotBeyond(cursor)'
    BY <1>3, <1>8, <1>9 DEF NotBeyond
  <2>2. ASSUME NEW j \in Incidents, row'[j].version > 0 PROVE ~Before(high', Key(row, j)')
    <3>1. CASE j = i
      BY <1>1, <1>4, <1>7, <3>1, CursorType, BeforeOrder DEF inOrder
    <3>2. CASE j # i
      <4>1. Key(row, j)' = Key(row, j) /\ NotBeyond(Key(row, j))
        BY <1>2, <1>7, <2>2, <3>2 DEF FeedInv, Data
      <4>2. Key(row, j) \in Cursors
        BY KeyType DEF FeedInv, TypeOK, Table, Row
      <4> QED  BY <1>8, <4>1, <4>2
    <3> QED  BY <3>1, <3>2
  <2>3. ASSUME NEW j \in DOMAIN page
        PROVE  ~Before(high', Key(page, j)) /\ page[j].version <= row'[j].version
    <3>1. j \in Incidents /\ page[j] \in Row /\ NotBeyond(Key(page, j)) /\ page[j].version <= row[j].version
      BY DEF FeedInv, TypeOK, Data
    <3>2. Key(page, j) \in Cursors
      BY <3>1, KeyType DEF Row
    <3> QED  BY <1>1, <1>2, <1>8, <3>1, <3>2 DEF Row
  <2>4. ASSUME NEW table \in Table, Earlier(table)
        PROVE  Earlier(table)'
    <3>1. \A j \in Incidents : table[j] \in Row /\ Key(table, j) \in Cursors
      BY KeyType DEF Table, Row
    <3>2. ASSUME NEW j \in Incidents
          PROVE  /\ table[j].version > 0 => ~Before(high', Key(table, j))
                 /\ table[j].version <= row'[j].version
                 /\ table[j].version = row'[j].version => table[j] = row'[j]
                 /\ table[j].version < row'[j].version => j \in overtaken'
                      \/ \A k \in Incidents : table[k].version > 0 => Before(Key(table, k), Key(row, j)')
      <4>1. /\ \A k \in Incidents : table[k].version > 0 => NotBeyond(Key(table, k))
            /\ table[j].version <= row[j].version
            /\ table[j].version = row[j].version => table[j] = row[j]
            /\ table[j].version < row[j].version => j \in overtaken
                 \/ \A k \in Incidents : table[k].version > 0 => Before(Key(table, k), Key(row, j))
        BY <2>4 DEF Earlier
      <4>2. CASE j = i
        BY <1>1, <1>2, <1>4, <1>7, <1>8, <3>1, <4>1, <4>2 DEF Row
      <4>3. CASE j # i
        BY <1>2, <1>4, <1>7, <1>8, <3>1, <4>1, <4>3
      <4> QED  BY <4>2, <4>3
    <3> QED  BY <3>2 DEF Earlier, NotBeyond, Key
  <2>5. ASSUME NEW k \in Queries, cached'[k] # NoEntry PROVE Earlier(cached[k])'
    <3>1. cached[k] \in Table /\ cached' = cached /\ Earlier(cached[k])
      BY <1>3, <2>5 DEF FeedInv, TypeOK, Data
    <3> QED  BY <2>4, <3>1 DEF Earlier, NotBeyond, Key
  <2>6. ASSUME NEW j \in Incidents
        PROVE  /\ due'[j].version <= row'[j].version
               /\ j \in overtaken' => due'[j].version = 0
               /\ "all" \in valid => due'[j].version <= cached["all"][j].version
    <3>1. /\ due[j].version <= row[j].version
          /\ j \in overtaken => due[j].version = 0
          /\ "all" \in valid => due[j].version <= cached["all"][j].version /\ cached["all"][j] \in Row
      BY DEF FeedInv, TypeOK, Data, Queries, Table
    <3>2. CASE j = i
      BY <1>1, <1>2, <1>4, <1>5, <3>1, <3>2 DEF Row, Absent
    <3>3. CASE j # i
      BY <1>1, <1>2, <1>4, <1>5, <3>1, <3>3 DEF Row, Absent
    <3> QED  BY <3>2, <3>3
  <2> QED  BY <1>3, <2>1, <2>2, <2>3, <2>5, <2>6 DEF Data, NotBeyond, Key
<1> QED  BY <1>6, <1>10, <1>11, <1>12 DEF FeedInv

-----------------------------------------------------------------------------
(* Events and subscriptions: what the client is to be told *)

\* What is owed is taken from a table that is the rows, or earlier while the
\* client has no cursor: it knows that much, or has it ahead.
LEMMA OweKept ==
    ASSUME FeedInv, NEW table \in Table, NEW S \in SUBSET Incidents, Owe(table, S),
           UNCHANGED <<row, high, overtaken, opened, page, cursor, shown>>, opened,
           Earlier(table), cursor = NoCursor \/ table = row,
           UNCHANGED cached, valid' \subseteq valid, "all" \in valid' => cached["all"] = table
    PROVE  due' \in Table /\ Data' /\ Sound'
<1>1. \A j \in Incidents : table[j] \in Row /\ row[j] \in Row /\ due[j] \in Row /\ shown[j] \in Row
  BY DEF FeedInv, TypeOK, Table
<1>2. /\ due' \in Table
      /\ \A j \in Incidents : due'[j] = due[j] \/ (j \notin overtaken /\ due'[j] = table[j])
  BY <1>1 DEF Owe, Table
<1>3. \A j \in Incidents : /\ table[j].version <= row[j].version
                           /\ table[j].version = row[j].version => table[j] = row[j]
  BY DEF Earlier
<1>4. Data'
  <2>1. ASSUME NEW j \in Incidents
        PROVE  /\ due'[j].version <= row[j].version
               /\ j \in overtaken => due'[j].version = 0
               /\ "all" \in valid' => due'[j].version <= cached["all"][j].version
    <3>1. /\ due[j].version <= row[j].version
          /\ j \in overtaken => due[j].version = 0
          /\ "all" \in valid => due[j].version <= cached["all"][j].version
      BY DEF FeedInv, Data
    <3> QED  BY <1>1, <1>2, <1>3, <3>1 DEF Row
  <2>2. ASSUME NEW k \in Queries, cached'[k] # NoEntry PROVE Earlier(cached[k])'
    <3>1. cached'[k] = cached[k] /\ Earlier(cached[k])
      BY <2>2 DEF FeedInv, Data
    <3> QED  BY <3>1 DEF Earlier, NotBeyond, Key
  <2> QED  BY <2>1, <2>2 DEF FeedInv, Data, NotBeyond, Key
<1>5. Sound'
  <2>1. ASSUME NEW j \in Incidents, NEW c, NEW p \in Row, Current(c, p, j), Told(c, p, j)
        PROVE  p.version >= due'[j].version \/ (~due'[j].active /\ ~p.active) \/ Ahead(c, j)
    <3>1. CASE due'[j] = due[j]
      BY <2>1, <3>1 DEF Told, Tells
    <3>2. CASE j \notin overtaken /\ due'[j] = table[j]
      <4>1. CASE p.version = row[j].version
        BY <1>1, <1>3, <3>2, <4>1 DEF Row
      <4>2. CASE ~row[j].active /\ ~p.active /\ table = row
        BY <3>2, <4>2
      <4> QED  BY <2>1, <3>2, <4>1, <4>2 DEF Current
    <3> QED  BY <1>2, <3>1, <3>2
  <2>2. NextCursor' = NextCursor
    BY DEF NextCursor, LastKey, Key
  <2>3. ASSUME NEW j \in Nearby
        PROVE  (Current(cursor, shown[j], j) /\ Told(cursor, shown[j], j))'
    <3>1. j \in Incidents /\ Current(cursor, shown[j], j) /\ Told(cursor, shown[j], j)
      BY DEF FeedInv, Sound, Nearby
    <3> QED  BY <1>1, <2>1, <3>1 DEF Current, Told, Tells, Ahead, Key
  <2>4. ASSUME NEW j \in Nearby
        PROVE  (Current(NextCursor, Has(j), j) /\ Told(NextCursor, Has(j), j))'
    <3>1. j \in Incidents /\ Current(NextCursor, Has(j), j) /\ Told(NextCursor, Has(j), j)
      BY DEF FeedInv, Sound, Nearby
    <3>2. Has(j)' = Has(j) /\ Has(j) \in Row
      BY <1>1, <3>1 DEF FeedInv, TypeOK, Has
    <3> QED  BY <2>1, <2>2, <3>1, <3>2 DEF Current, Told, Tells, Ahead, Key
  <2> QED  BY <2>3, <2>4 DEF Sound
<1> QED  BY <1>2, <1>4, <1>5

\* The rows of the moment count as an earlier state of themselves.
LEMMA RowEarlier ==
    ASSUME FeedInv
    PROVE  row \in Table /\ Earlier(row)
  BY DEF FeedInv, TypeOK, Table, Row, Data, Earlier

\* What a query is answered from is an earlier state of the rows.
LEMMA AnswersEarlier ==
    ASSUME FeedInv, NEW k \in Queries
    PROVE  /\ Answers(k) \in Table /\ Earlier(Answers(k))
           /\ cursor = NoCursor \/ Answers(k) = row
  BY RowEarlier DEF Answers, FeedInv, TypeOK, Data

\* Whether Redis counts or not, what is owed is what a query is answered: and an
\* event of an incident around the client is heard, so that a message to the
\* client is on its way, or the client is cut off from then on.
LEMMA PublishKept ==
    ASSUME FeedInv, NEW i \in Incidents, NEW counted \in BOOLEAN, NEW sent \in BOOLEAN,
           Publish(i, counted, sent)
    PROVE  FeedInv'
<1> DEFINE table == IF counted THEN row ELSE Answers("all")
<1>1. /\ UNCHANGED <<serverVars, listening, clientVars, cached, triggered>>
      /\ events' \subseteq Incidents /\ valid' = IF counted THEN {} ELSE valid
      /\ link' \in {link, "broken"} /\ message' \in BOOLEAN /\ (message => message')
      /\ IF link = "subscribed" THEN Owe(table, {i}) ELSE UNCHANGED due
      /\ link # "subscribed" => link' = link
      /\ link = "subscribed" /\ i \in Heard => message' \/ link' = "broken"
  BY DEF Publish, FeedInv, TypeOK
<1>2. due' \in Table /\ Data' /\ Sound'
  <2>1. CASE link = "subscribed"
    <3>1. Answers("all") \in Table /\ Earlier(Answers("all")) /\ (cursor = NoCursor \/ Answers("all") = row)
      BY AnswersEarlier DEF Queries
    <3>2. table \in Table /\ Earlier(table) /\ (cursor = NoCursor \/ table = row)
      BY <3>1, RowEarlier
    <3>3. "all" \in valid' => cached["all"] = table
      BY <1>1 DEF Answers, FeedInv, Phases, TypeOK
    <3>4. opened /\ UNCHANGED <<row, high, overtaken, opened, page, cursor, shown>>
      BY <1>1, <2>1 DEF FeedInv, Phases, serverVars, clientVars
    <3>5. Owe(table, {i}) /\ valid' \subseteq valid
      BY <1>1, <2>1
    <3> HIDE DEF table
    <3> QED  BY <1>1, <3>2, <3>3, <3>4, <3>5, OweKept
  <2>2. CASE link # "subscribed"
    BY <1>1, <2>2, FrameKept DEF FeedInv, TypeOK, serverVars, clientVars
  <2> QED  BY <2>1, <2>2
<1> HIDE DEF table
<1>3. TypeOK' /\ IsFiniteSet(txs')
  BY <1>1, <1>2 DEF FeedInv, TypeOK, serverVars, clientVars
<1>4. Phases'
  BY <1>1 DEF FeedInv, Phases, clientVars
<1>5. Attended'
  <2> SUFFICES ASSUME Nearby \subseteq Heard, NEW j \in Nearby, ~Pending' PROVE Tells(Has(j), due[j])'
    BY DEF Attended
  <2>1. ~Pending /\ link = "subscribed" /\ i \notin Heard
    BY <1>1 DEF Pending, clientVars
  <2>2. due'[j] = due[j]
    BY <1>1, <2>1 DEF Owe, FeedInv, TypeOK, Nearby
  <2> QED  BY <1>1, <2>1, <2>2 DEF FeedInv, Attended, Tells, Has, clientVars
<1> QED  BY <1>1, <1>2, <1>3, <1>4, <1>5 DEF FeedInv

\* What is owed to a new subscriber is what its next query would be answered, and
\* the confirmation makes it ask.
LEMMA SubscribeKept ==
    ASSUME FeedInv, Subscribe
    PROVE  FeedInv'
<1>1. UNCHANGED <<serverVars, events, listening, clientVars, cached, valid, triggered>> /\ link' = "subscribed" /\ message' = TRUE
  BY DEF Subscribe, cacheVars
<1>2. opened /\ feed # "closed"
  BY DEF FeedInv, Phases, Subscribe
<1>3. due' \in Table /\ Data' /\ Sound'
  <2> DEFINE table == Answers("all")
  <2>1. table \in Table /\ Earlier(table) /\ (cursor = NoCursor \/ table = row)
    BY AnswersEarlier DEF Queries
  <2>2. "all" \in valid => cached["all"] = table
    BY DEF Answers, FeedInv, Phases, TypeOK
  <2>3. Owe(table, Incidents)
    BY DEF Subscribe
  <2> HIDE DEF table
  <2> QED  BY <1>1, <1>2, <2>1, <2>2, <2>3, OweKept DEF serverVars, clientVars
<1>4. TypeOK' /\ IsFiniteSet(txs')
  BY <1>1, <1>3 DEF FeedInv, TypeOK, serverVars, clientVars
<1>5. Phases' /\ Attended'
  BY <1>1, <1>2 DEF FeedInv, Phases, Attended, Pending, clientVars
<1> QED  BY <1>3, <1>4, <1>5 DEF FeedInv

-----------------------------------------------------------------------------
(* The client asks, and merges the answer *)

\* The rows a query asks for, and the table it is answered from.
QueryKey == IF opened THEN "all" ELSE "snapshot"
QueryTable == Answers(QueryKey)
QueryRows ==
    IF cursor # NoCursor THEN Deltas(QueryTable)
    ELSE {i \in Around(QueryTable) : opened \/ QueryTable[i].active}

\* The table is an earlier one, from which nothing is missing that was wanted; the
\* rows a client with a cursor does not ask for it knows.
LEMMA QueryFacts ==
    ASSUME FeedInv
    PROVE  /\ QueryTable \in Table /\ Earlier(QueryTable) /\ PageOf(QueryTable, QueryRows)
           /\ cursor # NoCursor => QueryTable = row /\ opened
           /\ \A j \in QueryRows : QueryTable[j].version > 0
           /\ opened => \A j \in Incidents : due[j].version <= QueryTable[j].version
           /\ ~opened => cursor = NoCursor /\ \A j \in Incidents : due[j].version = 0 /\ shown[j] = Absent
<1>1. QueryKey \in Queries /\ (opened => QueryKey = "all")
  BY DEF QueryKey, Queries
<1>2. QueryTable \in Table /\ Earlier(QueryTable)
  BY <1>1, AnswersEarlier DEF QueryTable
<1>3. PageOf(QueryTable, QueryRows) /\ \A j \in QueryRows : QueryTable[j].version > 0
  BY <1>2 DEF PageOf, QueryRows, Deltas, Around, Nearby, Table, Row
<1>4. opened => \A j \in Incidents : due[j].version <= QueryTable[j].version
  BY <1>1 DEF QueryTable, Answers, FeedInv, Data
<1>5. (cursor # NoCursor => QueryTable = row /\ opened) /\ (~opened => cursor = NoCursor)
  BY DEF QueryTable, Answers, FeedInv, Phases
<1>6. ~opened => \A j \in Incidents : due[j].version = 0 /\ shown[j] = Absent
  BY DEF FeedInv, Phases
<1> QED  BY <1>2, <1>3, <1>4, <1>5, <1>6

\* After the answer, an incident is known, or ahead of the last row, or closed
\* before the snapshot; and what was wanted of it is known if the page is not full.
LEMMA QueryAnswers ==
    ASSUME FeedInv, NEW j \in Nearby, NEW rows, rows = Page(QueryTable, QueryRows),
           NEW p \in Row, p = IF j \in DOMAIN rows THEN rows[j] ELSE shown[j],
           NEW c \in Cursors, c = IF DOMAIN rows = {} THEN cursor ELSE LastKey(rows)
    PROVE  /\ Current(c, p, j) /\ Told(c, p, j)
           /\ opened /\ Cardinality(DOMAIN rows) < LIMIT => Tells(p, due[j])
<1>1. /\ QueryTable \in Table /\ Earlier(QueryTable) /\ PageOf(QueryTable, QueryRows)
      /\ cursor # NoCursor => QueryTable = row /\ opened
      /\ opened => \A k \in Incidents : due[k].version <= QueryTable[k].version
      /\ ~opened => cursor = NoCursor /\ \A k \in Incidents : due[k].version = 0 /\ shown[k] = Absent
  BY QueryFacts
<1>2. /\ j \in Incidents /\ row[j] \in Row /\ due[j] \in Row /\ shown[j] \in Row /\ QueryTable[j] \in Row
      /\ shown[j].version <= row[j].version /\ due[j].version <= row[j].version
      /\ j \in overtaken => due[j].version = 0
      /\ Current(cursor, shown[j], j) /\ Told(cursor, shown[j], j)
  BY <1>1 DEF Nearby, FeedInv, TypeOK, Table, Data, Sound
<1>3. /\ QueryTable[j].version <= row[j].version
      /\ QueryTable[j].version = row[j].version => QueryTable[j] = row[j]
      /\ QueryTable[j].version < row[j].version => j \in overtaken \/
           \A k \in Incidents : QueryTable[k].version > 0 => Before(Key(QueryTable, k), Key(row, j))
  BY <1>1, <1>2 DEF Earlier
<1>4. DOMAIN rows \subseteq QueryRows /\ \A k \in DOMAIN rows : rows[k] = QueryTable[k]
  BY DEF Page
<1>5. DOMAIN rows # {} => \E k \in DOMAIN rows : c = Key(QueryTable, k)
  <2>1. PageOf(rows, DOMAIN rows)
    BY <1>1, <1>4 DEF PageOf
  <2> QED  BY <1>4, <2>1, LastKeyIs DEF Key
<1>6. QueryTable[j].version < row[j].version => j \in overtaken \/ Ahead(c, j)
  <2>1. CASE DOMAIN rows = {}
    BY <1>1, <1>2, <2>1, AllAhead DEF FeedInv, Row
  <2>2. CASE DOMAIN rows # {}
    BY <1>1, <1>3, <1>4, <1>5, <2>2, QueryFacts DEF Ahead, PageOf
  <2> QED  BY <2>1, <2>2
<1>7. CASE j \in DOMAIN rows
  <2>1. p = QueryTable[j]
    BY <1>4, <1>7
  <2>2. Current(c, p, j)
    BY <1>2, <1>3, <1>6, <2>1 DEF Current, Row
  <2>3. Tells(p, due[j])
    BY <1>1, <1>2, <2>1 DEF Tells, Row
  <2> QED  BY <2>2, <2>3 DEF Told
<1>8. CASE j \in QueryRows \ DOMAIN rows
  <2>1. ~(Cardinality(DOMAIN rows) < LIMIT)
    BY <1>1, <1>8, PageComplete
  <2>2. DOMAIN rows # {}
    BY <2>1, FS_EmptySet, FeedAssumption
  <2>3. PICK k \in DOMAIN rows : c = Key(QueryTable, k)
    BY <1>5, <2>2
  <2>4. Before(c, Key(QueryTable, j))
    BY <1>1, <1>8, <2>3, PageFirst
  <2>5. j \in overtaken \/ Ahead(c, j)
    BY <1>2, <1>3, <1>6, <2>4 DEF Ahead, Key, Row
  <2>6. j \in overtaken => Tells(p, due[j])
    BY <1>2 DEF Tells, Row
  <2> QED  BY <2>1, <2>5, <2>6 DEF Current, Told
<1>9. CASE j \notin QueryRows
  <2>1. p = shown[j]
    BY <1>4, <1>9
  <2>2. CASE cursor # NoCursor
    <3>1. row[j].version = 0 \/ ~Ahead(cursor, j)
      BY <1>1, <1>2, <1>9, <2>2 DEF QueryRows, Deltas, Around, Ahead, Row
    <3>2. CASE row[j].version = 0
      BY <1>2, <2>1, <3>2 DEF Current, Told, Tells, Row
    <3>3. CASE ~Ahead(cursor, j)
      BY <1>2, <2>1, <3>3 DEF Current, Told
    <3> QED  BY <3>1, <3>2, <3>3
  <2>3. CASE cursor = NoCursor /\ opened
    <3>1. QueryTable[j].version = 0
      BY <1>2, <1>9, <2>3 DEF QueryRows, Around, Row
    <3>2. Tells(p, due[j])
      BY <1>1, <1>2, <2>1, <2>3, <3>1 DEF Tells, Row
    <3>3. Current(c, p, j)
      BY <1>2, <1>3, <1>6, <2>1, <3>1 DEF Current, Row
    <3> QED  BY <3>2, <3>3 DEF Told
  <2>4. CASE ~opened
    <3>1. /\ QueryTable[j].version = 0 \/ ~QueryTable[j].active
          /\ p.version = 0 /\ ~p.active /\ due[j].version = 0
      BY <1>1, <1>2, <1>9, <2>1, <2>4 DEF QueryRows, Around, Row, Absent
    <3>2. Tells(p, due[j])
      BY <3>1 DEF Tells
    <3>3. Current(c, p, j)
      BY <1>2, <1>3, <1>6, <2>4, <3>1 DEF Current, Row
    <3> QED  BY <2>4, <3>2, <3>3 DEF Told
  <2> QED  BY <2>2, <2>3, <2>4
<1> QED  BY <1>4, <1>7, <1>8, <1>9

\* The page is an answer; what it leaves out is known or comes after it.
LEMMA QueryKept ==
    ASSUME FeedInv, Query
    PROVE  FeedInv'
<1> DEFINE rows == Page(QueryTable, QueryRows)
<1>1. /\ UNCHANGED <<serverVars, realtimeVars, opened, cursor, shown, fresh, triggered, due>>
      /\ feed = "fetching" /\ feed' = "merging" /\ page' = rows
      /\ IF cursor = NoCursor
         THEN cached' = [cached EXCEPT ![QueryKey] = QueryTable] /\ valid' = valid \union {QueryKey}
         ELSE cached' = cached /\ valid' = valid
  BY DEF Query, QueryKey, QueryTable, QueryRows, cacheVars
<1>2. /\ QueryTable \in Table /\ Earlier(QueryTable) /\ PageOf(QueryTable, QueryRows)
      /\ \A j \in QueryRows : QueryTable[j].version > 0
      /\ opened => \A j \in Incidents : due[j].version <= QueryTable[j].version
      /\ QueryKey \in Queries /\ (opened <=> QueryKey = "all")
  BY QueryFacts DEF QueryKey, Queries
<1>3. /\ DOMAIN rows \subseteq QueryRows /\ \A j \in DOMAIN rows : rows[j] = QueryTable[j]
      /\ Cardinality(DOMAIN rows) \in Nat /\ Cardinality(DOMAIN rows) <= LIMIT
  BY <1>2, PageLimit DEF Page
<1> HIDE DEF rows
<1>4. \A j \in DOMAIN rows : j \in Incidents /\ rows[j] \in Row /\ rows[j].version > 0
  BY <1>2, <1>3 DEF PageOf, Table
<1>5. /\ cached' \in [Queries -> Table \union {NoEntry}]
      /\ valid' \subseteq {k \in Queries : cached'[k] # NoEntry}
      /\ \A k \in Queries : cached'[k] = cached[k] \/ cached'[k] = QueryTable
      /\ "all" \in valid' => ("all" \in valid /\ cached'["all"] = cached["all"]) \/ (opened /\ cached'["all"] = QueryTable)
  <2>1. QueryTable # NoEntry
    BY <1>2, RowIsEntry
  <2> QED  BY <1>1, <1>2, <2>1 DEF FeedInv, TypeOK, Queries
<1>6. TypeOK' /\ IsFiniteSet(txs')
  <2>1. DOMAIN page' \subseteq Incidents /\ Cardinality(DOMAIN page') <= LIMIT
        /\ \A j \in DOMAIN page' : page'[j] \in Row /\ page'[j].version > 0
    BY <1>1, <1>3, <1>4
  <2> QED  BY <1>1, <1>5, <2>1 DEF FeedInv, TypeOK, serverVars, realtimeVars
<1>7. Phases'
  BY <1>1, <1>2 DEF FeedInv, Phases, Queries, realtimeVars
<1>8. Data'
  <2>1. ASSUME NEW j \in DOMAIN rows
        PROVE  NotBeyond(Key(rows, j)) /\ rows[j].version <= row[j].version
    <3>1. j \in Incidents /\ rows[j] = QueryTable[j] /\ QueryTable[j].version > 0
      BY <1>2, <1>3 DEF PageOf
    <3> QED  BY <1>2, <3>1 DEF Earlier, Key
  <2>2. ASSUME NEW k \in Queries, cached'[k] # NoEntry
        PROVE  Earlier(cached'[k])
    <3>1. cached'[k] = cached[k] \/ cached'[k] = QueryTable
      BY <1>5
    <3> QED  BY <1>2, <2>2, <3>1 DEF FeedInv, Data
  <2>3. \A k \in Queries : cached'[k] # NoEntry => Earlier(cached[k])'
    BY <1>1, <2>2 DEF Earlier, NotBeyond, Key, serverVars
  <2>4. \A j \in Incidents : "all" \in valid' => due[j].version <= cached'["all"][j].version
    BY <1>2, <1>5 DEF FeedInv, Data
  <2>5. \A j \in DOMAIN page' : ~Before(high', Key(rows, j)) /\ page'[j].version <= row'[j].version
    BY <1>1, <2>1 DEF NotBeyond, serverVars
  <2>6. \A j \in DOMAIN page' : NotBeyond(Key(page, j))'
    BY <1>1, <2>5 DEF NotBeyond, Key
  <2> QED  BY <1>1, <2>3, <2>4, <2>5, <2>6 DEF FeedInv, Data, NotBeyond, Key, serverVars
<1>9. ASSUME NEW j \in Nearby
      PROVE  /\ (Current(cursor, shown[j], j) /\ Told(cursor, shown[j], j))'
             /\ (Current(NextCursor, Has(j), j) /\ Told(NextCursor, Has(j), j))'
             /\ Pending' \/ Tells(Has(j), due[j])'
  <2> DEFINE p == IF j \in DOMAIN rows THEN rows[j] ELSE shown[j]
             c == IF DOMAIN rows = {} THEN cursor ELSE LastKey(rows)
  <2>1. p \in Row
    BY <1>4 DEF FeedInv, TypeOK, Table, Nearby
  <2>2. c \in Cursors
    <3>1. CASE DOMAIN rows = {}
      BY <3>1 DEF FeedInv, TypeOK
    <3>2. CASE DOMAIN rows # {}
      <4>1. PageOf(rows, DOMAIN rows)
        BY <1>4 DEF PageOf, Row
      <4>2. PICK k \in DOMAIN rows : LastKey(rows) = Key(rows, k)
        BY <3>2, <4>1, LastKeyIs
      <4>3. Key(rows, k) \in Cursors
        BY <1>4, KeyType DEF Row
      <4> QED  BY <3>2, <4>2, <4>3
    <3> QED  BY <3>1, <3>2
  <2>3. /\ Current(c, p, j) /\ Told(c, p, j)
        /\ opened /\ Cardinality(DOMAIN rows) < LIMIT => Tells(p, due[j])
    <3> HIDE DEF c, p
    <3>1. p = IF j \in DOMAIN rows THEN rows[j] ELSE shown[j]
      BY DEF p
    <3>2. c = IF DOMAIN rows = {} THEN cursor ELSE LastKey(rows)
      BY DEF c
    <3> QED  BY <2>1, <2>2, <3>1, <3>2, QueryAnswers DEF rows
  <2>4. Has(j)' = p /\ NextCursor' = c
    BY <1>1 DEF Has, NextCursor, LastKey, Key
  <2> HIDE DEF c, p
  <2>5. (Current(NextCursor, Has(j), j) /\ Told(NextCursor, Has(j), j))'
    BY <1>1, <2>3, <2>4 DEF Current, Told, Tells, Ahead, Key, serverVars
  <2>6. (Current(cursor, shown[j], j) /\ Told(cursor, shown[j], j))'
    BY <1>1 DEF FeedInv, Sound, Current, Told, Tells, Ahead, Key, serverVars
  <2>7. Pending' \/ Tells(Has(j), due[j])'
    BY <1>1, <1>3, <2>3, <2>4, FeedAssumption DEF Pending, Tells
  <2> QED  BY <2>5, <2>6, <2>7
<1> QED  BY <1>6, <1>7, <1>8, <1>9 DEF FeedInv, Sound, Attended

\* With the page merged, what held after it holds at the cursor.
LEMMA MergeKept ==
    ASSUME FeedInv, Merge
    PROVE  FeedInv'
<1>1. /\ UNCHANGED <<serverVars, realtimeVars, triggered, due>>
      /\ feed = "merging" /\ feed' = "waiting" /\ opened' = TRUE /\ page' = NoEntry
      /\ cursor' = NextCursor /\ fresh' = (opened /\ Cardinality(DOMAIN page) < LIMIT)
      /\ shown' = [j \in Incidents |-> Has(j)]
      /\ cached' = [k \in Queries |-> IF k = "snapshot" \/ cursor' # NoCursor THEN NoEntry ELSE cached[k]]
      /\ valid' = {k \in valid : cached'[k] # NoEntry}
  BY DEF Merge, Has, NextCursor
<1>2. DOMAIN page' = {} /\ Cardinality(DOMAIN page') = 0 /\ NextCursor' = cursor'
  BY <1>1, FS_EmptySet DEF NoEntry, NextCursor
<1>3. \A j \in Incidents : Has(j) \in Row /\ Has(j).version <= row[j].version
  BY DEF Has, FeedInv, TypeOK, Table, Data
<1>4. \A j \in Incidents : shown'[j] = Has(j) /\ Has(j)' = Has(j)
  BY <1>1, <1>2 DEF Has
<1>5. TypeOK' /\ IsFiniteSet(txs')
  <2>1. shown' \in Table /\ \A j \in Incidents : shown'[j].version <= row[j].version
    BY <1>1, <1>3 DEF Table
  <2>2. /\ cached' \in [Queries -> Table \union {NoEntry}]
        /\ valid' \subseteq {k \in Queries : cached'[k] # NoEntry}
    BY <1>1 DEF FeedInv, TypeOK
  <2>3. cursor' \in Cursors
    BY <1>1, NextCursorSafe
  <2>4. fresh' \in BOOLEAN
    BY <1>1
  <2> QED  BY <1>1, <1>2, <2>1, <2>2, <2>3, <2>4, FeedAssumption
           DEF FeedInv, TypeOK, serverVars, realtimeVars
<1>6. Phases'
  BY <1>1, <1>2 DEF FeedInv, Phases, Queries, realtimeVars
<1>7. Data'
  <2>1. \A k \in Queries : cached'[k] # NoEntry => cached'[k] = cached[k] /\ Earlier(cached[k])
    BY <1>1 DEF FeedInv, Data
  <2>2. \A k \in Queries : cached'[k] # NoEntry => Earlier(cached[k])'
    BY <1>1, <2>1 DEF Earlier, NotBeyond, Key, serverVars
  <2>3. \A j \in Incidents : "all" \in valid' => due[j].version <= cached'["all"][j].version
    BY <1>1, <2>1 DEF FeedInv, Data, Queries
  <2>4. NotBeyond(cursor)'
    BY <1>1, NextCursorSafe DEF NotBeyond, serverVars
  <2> QED  BY <1>1, <1>2, <2>2, <2>3, <2>4 DEF FeedInv, Data, NotBeyond, Key, serverVars
<1>8. Sound'
  <2> SUFFICES ASSUME NEW j \in Nearby
               PROVE  (Current(cursor, shown[j], j) /\ Told(cursor, shown[j], j))'
    BY <1>2, <1>4 DEF Sound, Nearby
  <2>1. j \in Incidents /\ Current(NextCursor, Has(j), j) /\ Told(NextCursor, Has(j), j)
    BY DEF FeedInv, Sound, Nearby
  <2>2. cursor' = NextCursor /\ shown'[j] = Has(j)
    BY <1>1, <1>4, <2>1
  <2>3. Told(cursor, shown[j], j)'
    BY <1>1, <2>1, <2>2 DEF Told, Tells, Ahead, Key, serverVars
  <2>4. CASE cursor' = NoCursor
    <3>1. Ahead(NextCursor, j)
      BY <2>1, <2>2, <2>4, AllAhead DEF FeedInv
    <3> QED  BY <1>1, <2>2, <2>3, <3>1 DEF Current, Ahead, Key, serverVars
  <2>5. CASE cursor' # NoCursor
    BY <1>1, <2>1, <2>2, <2>3, <2>5 DEF Current, Ahead, Key, serverVars
  <2> QED  BY <2>4, <2>5
<1>9. Attended'
  <2> SUFFICES ASSUME Nearby \subseteq Heard, NEW j \in Nearby, ~Pending' PROVE Tells(Has(j), due[j])'
    BY DEF Attended
  <2>1. ~Pending
    BY <1>1 DEF Pending, realtimeVars
  <2>2. j \in Incidents /\ Tells(Has(j), due[j])
    BY <2>1 DEF FeedInv, Attended, Nearby
  <2> QED  BY <1>1, <1>4, <2>2 DEF Tells
<1> QED  BY <1>5, <1>6, <1>7, <1>8, <1>9 DEF FeedInv

\* A request that fails leaves the client where it was; the page is lost.
LEMMA PageLost ==
    ASSUME FeedInv, UNCHANGED <<serverVars, opened, cursor, shown, cached, valid, due>>, page' = NoEntry
    PROVE  Data' /\ Sound'
<1>1. DOMAIN page' = {}
  BY DEF NoEntry
<1>2. \A k \in Queries : cached[k] # NoEntry => Earlier(cached[k])'
  BY DEF FeedInv, Data, Earlier, NotBeyond, Key, serverVars
<1>3. Data'
  BY <1>1, <1>2 DEF FeedInv, Data, NotBeyond, Key, serverVars
<1>4. Sound'
  BY <1>1 DEF FeedInv, Sound, Current, Told, Tells, Ahead, Has, NextCursor, Key, serverVars
<1> QED  BY <1>3, <1>4

\* A request that fails will be repeated; a closed feed promises nothing.
LEMMA LeaveKept ==
    ASSUME FeedInv, Leave \/ FetchFails
    PROVE  FeedInv'
<1>1. /\ UNCHANGED <<serverVars, events, listening, opened, cursor, shown, cached, valid, due>>
      /\ page' = NoEntry /\ fresh' = FALSE /\ triggered' \in BOOLEAN /\ message' \in BOOLEAN
      /\ \/ feed' = "closed" /\ link' = "down"
         \/ opened /\ feed' = "waiting" /\ link' = link
  BY DEF FeedInv, TypeOK, Leave, FetchFails, Close, realtimeVars, cacheVars
<1>2. DOMAIN page' = {} /\ Cardinality(DOMAIN page') = 0
  BY <1>1, FS_EmptySet DEF NoEntry
<1>3. TypeOK' /\ IsFiniteSet(txs')
  <2>1. Cardinality(DOMAIN page') <= LIMIT /\ DOMAIN page' \subseteq Incidents
    BY <1>2, FeedAssumption
  <2>2. feed' \in {"waiting", "closed"} /\ link' \in {"down", link}
    BY <1>1
  <2>3. UNCHANGED <<now, row, txs, high, overtaken, events, listening, opened, cursor, shown, cached, valid, due>>
    BY <1>1 DEF serverVars
  <2> QED  BY <1>1, <1>2, <2>1, <2>2, <2>3 DEF FeedInv, TypeOK
<1>4. Data' /\ Sound'
  BY <1>1, PageLost
<1>5. Phases' /\ Attended'
  BY <1>1, <1>2 DEF FeedInv, Phases, Attended, Pending
<1> QED  BY <1>3, <1>4, <1>5 DEF FeedInv

\* Nothing happens.
LEMMA StutterKept ==
    ASSUME FeedInv, UNCHANGED vars
    PROVE  FeedInv'
<1>1. Data' /\ Sound'
  BY FrameKept DEF vars, serverVars, clientVars, cacheVars
<1>2. TypeOK' /\ IsFiniteSet(txs')
  BY DEF FeedInv, TypeOK, vars, serverVars, realtimeVars, clientVars, cacheVars
<1>3. Phases' /\ Attended'
  BY DEF FeedInv, Phases, Attended, Pending, Tells, Has, vars, serverVars, realtimeVars, clientVars, cacheVars
<1> QED  BY <1>1, <1>2, <1>3 DEF FeedInv

-----------------------------------------------------------------------------
(* The cells around a client *)

\* The unit of a coordinate, the end of the range belonging to the last.
Inside(x, bits) == IF x < 2^bits THEN x ELSE 2^bits - 1

\* Points of the same cell are in the same larger cell.
LEMMA LargerCell ==
    ASSUME NEW x \in Int, NEW y \in Int, NEW a \in Nat \ {0}, NEW b \in Nat \ {0}, x \div a = y \div a
    PROVE  x \div (a * b) = y \div (a * b)
<1>1. \A z \in Int, c, d \in Nat \ {0} : (z \div c) \div d = z \div (c * d)
  OBVIOUS
<1>2. (x \div a) \div b = x \div (a * b)
  BY <1>1
<1>3. (y \div a) \div b = y \div (a * b)
  BY <1>1
<1> QED  BY <1>2, <1>3

\* The powers of two that bits are taken with, and how they multiply.
LEMMA Powers ==
    ASSUME NEW n \in 0 .. 9
    PROVE  /\ 2^n \in Nat \ {0} 
           /\ 2^(n + 7) = 2^7 * 2^n 
           /\ 2^(n + 8) = 2^8 * 2^n 
           /\ 2^(n + 10) = 2^10 * 2^n
<1>0. CASE n = 0  BY <1>0
<1>1. CASE n = 1  BY <1>1
<1>2. CASE n = 2  BY <1>2
<1>3. CASE n = 3  BY <1>3
<1>4. CASE n = 4  BY <1>4
<1>5. CASE n = 5  BY <1>5
<1>6. CASE n = 6  BY <1>6
<1>7. CASE n = 7  BY <1>7
<1>8. CASE n = 8  BY <1>8
<1>9. CASE n = 9  BY <1>9
<1> QED  BY <1>0, <1>1, <1>2, <1>3, <1>4, <1>5, <1>6, <1>7, <1>8, <1>9

\* Coordinates in the same cell of side 2^u have the same first n bits.
LEMMA SameBits ==
    ASSUME NEW x \in Nat, NEW y \in Nat, NEW n \in {7, 8, 10}, NEW u \in {7, 8, 10}, n + u \in {17, 18},
           Inside(x, n + u) \div 2^u = Inside(y, n + u) \div 2^u, NEW k \in 1 .. n
    PROVE  Bit(x, n + u, k) = Bit(y, n + u, k)
<1> DEFINE m == n - k
           bits == n + u
<1>1. m \in 0 .. 9 /\ bits - k = m + u /\ (u = 7 \/ u = 8 \/ u = 10) /\ (bits = 17 \/ bits = 18)
  OBVIOUS
<1> HIDE DEF m, bits
<1>2. 2^u \in Nat \ {0} /\ 2^m \in Nat \ {0} /\ 2^(m + u) = 2^u * 2^m
  <2>1. /\ 2^m \in Nat \ {0}
        /\ 2^(m + 7) = 2^7 * 2^m /\ 2^(m + 8) = 2^8 * 2^m /\ 2^(m + 10) = 2^10 * 2^m
    BY <1>1, Powers
  <2>2. CASE u = 7  BY <2>1, <2>2
  <2>3. CASE u = 8  BY <2>1, <2>3
  <2>4. CASE u = 10  BY <2>1, <2>4
  <2> QED  BY <1>1, <2>2, <2>3, <2>4
<1>3. Inside(x, bits) \in Int /\ Inside(y, bits) \in Int
  BY <1>1 DEF Inside
<1>4. Inside(x, bits) \div 2^(bits - k) = Inside(y, bits) \div 2^(bits - k)
  <2> DEFINE v == Inside(x, bits)
             w == Inside(y, bits)
             a == 2^u
             b == 2^m
  <2>1. v \div a = w \div a
    BY DEF bits
  <2>2. 2^(bits - k) = a * b
    BY <1>1, <1>2
  <2>3. v \in Int /\ w \in Int /\ a \in Nat \ {0} /\ b \in Nat \ {0}
    BY <1>2, <1>3
  <2> HIDE DEF v, w, a, b
  <2>4. v \div (a * b) = w \div (a * b)
    BY <2>1, <2>3, LargerCell
  <2> QED  BY <2>2, <2>4 DEF v, w
<1> QED  BY <1>4 DEF Bit, Inside, bits

\* A function on 1 .. n is a sequence of length n.
LEMMA SequenceOf ==
    ASSUME NEW T, NEW n \in Nat, NEW f \in [1 .. n -> T]
    PROVE  f \in Seq(T) /\ Len(f) = n
<1>1. f \in Seq(T)
  OBVIOUS
<1>2. Len(f) \in Nat /\ 1 .. Len(f) = 1 .. n
  BY <1>1
<1>3. ASSUME NEW m \in Nat, 1 .. m = 1 .. n PROVE m = n
  <2>1. (m \in 1 .. m \/ m = 0) /\ (n \in 1 .. n \/ n = 0)
    OBVIOUS
  <2> QED  BY <1>3, <2>1
<1> QED  BY <1>1, <1>2, <1>3

\* Points in the same cell have hashes that start alike ...
LEMMA SameStart ==
    ASSUME NEW a \in Points, NEW b \in Points, NEW p \in MIN_PREFIX .. PARTITION_PRECISION,
           Inside(a.lat, LatBits) \div CellSize(p).lat = Inside(b.lat, LatBits) \div CellSize(p).lat,
           Inside(a.lon, LonBits) \div CellSize(p).lon = Inside(b.lon, LonBits) \div CellSize(p).lon
    PROVE  \A i \in 1 .. 5 * p : Encode(a, p)[i] = Encode(b, STORAGE_PRECISION)[i]
<1> DEFINE h == Encode(a, p)
           g == Encode(b, STORAGE_PRECISION)
<1>1. p = 3 \/ p = 4
  BY DEF MIN_PREFIX, PARTITION_PRECISION
<1>2. a.lat \in Nat /\ a.lon \in Nat /\ b.lat \in Nat /\ b.lon \in Nat
  <2>1. \A x \in 0 .. 2^LatBits : x \in Nat
    BY DEF LatBits
  <2>2. \A x \in 0 .. 2^LonBits - 1 : x \in Nat
    BY DEF LonBits
  <2> QED  BY <2>1, <2>2 DEF Points
<1>3. \A i \in 1 .. 5 * p : i % 2 = 1 => Bit(a.lon, LonBits, (i + 1) \div 2) = Bit(b.lon, LonBits, (i + 1) \div 2)
  <2>1. CASE p = 3
    <3>1. \A k \in 1 .. 8 : Bit(a.lon, 8 + 10, k) = Bit(b.lon, 8 + 10, k)
      BY <1>2, <2>1, SameBits DEF CellSize, LonBits
    <3> QED  BY <2>1, <3>1 DEF LonBits
  <2>2. CASE p = 4
    <3>1. \A k \in 1 .. 10 : Bit(a.lon, 10 + 8, k) = Bit(b.lon, 10 + 8, k)
      BY <1>2, <2>2, SameBits DEF CellSize, LonBits
    <3> QED  BY <2>2, <3>1 DEF LonBits
  <2> QED  BY <1>1, <2>1, <2>2
<1>4. \A i \in 1 .. 5 * p : i % 2 # 1 => Bit(a.lat, LatBits, i \div 2) = Bit(b.lat, LatBits, i \div 2)
  <2>1. CASE p = 3
    <3>1. \A k \in 1 .. 7 : Bit(a.lat, 7 + 10, k) = Bit(b.lat, 7 + 10, k)
      BY <1>2, <2>1, SameBits DEF CellSize, LatBits
    <3> QED  BY <2>1, <3>1 DEF LatBits
  <2>2. CASE p = 4
    <3>1. \A k \in 1 .. 10 : Bit(a.lat, 10 + 7, k) = Bit(b.lat, 10 + 7, k)
      BY <1>2, <2>2, SameBits DEF CellSize, LatBits
    <3> QED  BY <2>2, <3>1 DEF LatBits
  <2> QED  BY <1>1, <2>1, <2>2
<1> QED
  BY <1>1, <1>3, <1>4 DEF Encode, STORAGE_PRECISION

\* ... so the shorter is a prefix of the longer.
LEMMA StartIsPrefix ==
    ASSUME NEW a, NEW b, NEW p \in MIN_PREFIX .. PARTITION_PRECISION,
           \A i \in 1 .. 5 * p : Encode(a, p)[i] = Encode(b, STORAGE_PRECISION)[i]
    PROVE  IsPrefix(Encode(a, p), Encode(b, STORAGE_PRECISION))
<1> DEFINE h == Encode(a, p)
           g == Encode(b, STORAGE_PRECISION)
           m == 5 * p
           n == 5 * STORAGE_PRECISION
           T == {h[i] : i \in 1 .. m} \union {g[i] : i \in 1 .. n}
<1>1. m \in Nat /\ n \in Nat /\ m <= n
  BY DEF STORAGE_PRECISION, MIN_PREFIX, PARTITION_PRECISION
<1>2. h \in [1 .. m -> T] /\ g \in [1 .. n -> T]
  BY DEF Encode
<1>3. \A i \in 1 .. m : h[i] = g[i]
  OBVIOUS
<1> HIDE DEF h, g, m, n, T
<1>4. h \in Seq(T) /\ Len(h) = m
  BY <1>1, <1>2, SequenceOf
<1>5. g \in Seq(T) /\ Len(g) = n
  BY <1>1, <1>2, SequenceOf
<1>6. SubSeq(h, 1, m) = SubSeq(g, 1, m)
  BY <1>1, <1>3, <1>4, <1>5, SMT
<1>7. IsPrefix(h, g)
  BY <1>1, <1>4, <1>5, <1>6, Zenon DEF IsPrefix
<1> QED  BY <1>7 DEF h, g

\* The sides of the cells of precision 3 and 4, in units.
Sides == {128, 256, 1024}

\* The loop takes a value from the cell of y.
Sampled(from, to, size, y) == \E s \in Samples(from, to, size) : s \in Int /\ s \div size = y \div size

\* The loop leaves out no cell between its ends.
LEMMA SampleInCell ==
    ASSUME NEW from \in Int, NEW to \in Int, NEW y \in from .. to, NEW size \in Sides
    PROVE  Sampled(from, to, size, y)
<1> DEFINE k == (y - from) \div size
           Sample(j) == Least(from + j * size, to)
<1>1. k \in 0 .. (to + size - from) \div size /\ k + 1 \in 0 .. (to + size - from) \div size
  BY DEF Sides
<1>2. Sample(k) \div size = y \div size \/ Sample(k + 1) \div size = y \div size
  BY DEF Least, Sides
<1>3. Sample(k) \in Int /\ Sample(k + 1) \in Int
  BY DEF Least, Sides
<1>4. Sample(k) \in Samples(from, to, size) /\ Sample(k + 1) \in Samples(from, to, size)
  BY <1>1 DEF Samples
<1> QED  BY <1>2, <1>3, <1>4 DEF Sampled

\* Cut off at the poles, a latitude stays in the cell of any real one it shared it with.
LEMMA ClampKeepsCell ==
    ASSUME NEW s \in Int, NEW y \in 0 .. 2^LatBits, NEW size \in Sides, s \div size = y \div size
    PROVE  /\ Clamp(s) \in 0 .. 2^LatBits
           /\ Inside(Clamp(s), LatBits) \div size = Inside(y, LatBits) \div size
BY DEF Clamp, Least, Inside, LatBits, Sides

\* Past the antimeridian too, longitudes stay in the same cell.
LEMMA WrapKeepsCell ==
    ASSUME NEW s \in Int, NEW y \in Int, NEW size \in Sides, s \div size = y \div size
    PROVE  /\ Wrap(s) \in 0 .. 2^LonBits - 1
           /\ Inside(Wrap(s), LonBits) \div size = Inside(Wrap(y), LonBits) \div size
<1>1. \A z \in Int : Inside(Wrap(z), LonBits) = Wrap(z) /\ Wrap(z) \in 0 .. 2^LonBits - 1
  BY DEF Wrap, Inside, LonBits
<1>2. \A z \in Int : /\ Wrap(z) \div 128 = (z \div 128) % 2048
                     /\ Wrap(z) \div 256 = (z \div 256) % 1024
                     /\ Wrap(z) \div 1024 = (z \div 1024) % 256
  BY SMT DEF Wrap, LonBits
<1>3. CASE size = 256
  <2>1. Wrap(s) \div 256 = (s \div 256) % 1024 /\ Wrap(y) \div 256 = (y \div 256) % 1024
    BY <1>2
  <2>2. Wrap(s) \div 256 = Wrap(y) \div 256
    BY <1>3, <2>1
  <2> QED  BY <1>1, <1>3, <2>2
<1>4. CASE size = 1024
  <2>1. Wrap(s) \div 1024 = (s \div 1024) % 256 /\ Wrap(y) \div 1024 = (y \div 1024) % 256
    BY <1>2
  <2>2. Wrap(s) \div 1024 = Wrap(y) \div 1024
    BY <1>4, <2>1
  <2> QED  BY <1>1, <1>4, <2>2
<1>5. CASE size = 128
  <2>1. Wrap(s) \div 128 = (s \div 128) % 2048 /\ Wrap(y) \div 128 = (y \div 128) % 2048
    BY <1>2
  <2>2. Wrap(s) \div 128 = Wrap(y) \div 128
    BY <1>5, <2>1
  <2> QED  BY <1>1, <1>5, <2>2
<1> QED  BY <1>3, <1>4, <1>5 DEF Sides

\* A cover reaches every point of its box.
LEMMA CoverHolds ==
    ASSUME NEW home \in Points, NEW span \in [lat : Nat, lon : Nat], NEW p \in MIN_PREFIX .. PARTITION_PRECISION,
           NEW place \in Points,
           NEW lat \in home.lat - span.lat .. home.lat + span.lat, lat = place.lat,
           NEW lon \in home.lon - span.lon .. home.lon + span.lon, Wrap(lon) = place.lon
    PROVE  Matches(Encode(place, STORAGE_PRECISION), Cover(home, span, p))
<1> DEFINE size == CellSize(p)
           south == home.lat - span.lat
           north == home.lat + span.lat
           west == home.lon - span.lon
           east == home.lon + span.lon
           rise == size.lat
           run == size.lon
           lats == Samples(south, north, rise)
           lons == Samples(west, east, run)
<1>1. p = 3 \/ p = 4
  BY DEF MIN_PREFIX, PARTITION_PRECISION
<1>2. rise \in Sides /\ run \in Sides
  <2>1. CASE p = 3
    BY <2>1 DEF CellSize, LatBits, LonBits, Sides
  <2>2. CASE p = 4
    BY <2>2 DEF CellSize, LatBits, LonBits, Sides
  <2> QED  BY <1>1, <2>1, <2>2
<1>3. /\ south \in Int /\ north \in Int /\ west \in Int /\ east \in Int
      /\ lat \in south .. north /\ lon \in west .. east
      /\ place.lat \in 0 .. 2^LatBits
  <2>1. \A x \in 0 .. 2^LatBits : x \in Int
    BY DEF LatBits
  <2>2. \A x \in 0 .. 2^LonBits - 1 : x \in Int
    BY DEF LonBits
  <2> QED  BY <2>1, <2>2 DEF Points
<1> HIDE DEF size, rise, run, south, north, west, east
<1>4. Sampled(south, north, rise, lat) /\ Sampled(west, east, run, lon)
  BY <1>2, <1>3, SampleInCell
<1>5. PICK s \in lats : s \in Int /\ s \div rise = lat \div rise
  BY <1>4 DEF Sampled
<1>6. PICK t \in lons : t \in Int /\ t \div run = lon \div run
  BY <1>4 DEF Sampled
<1> DEFINE corner == [lat |-> Clamp(s), lon |-> Wrap(t)]
<1>7. /\ Clamp(s) \in 0 .. 2^LatBits
      /\ Inside(Clamp(s), LatBits) \div rise = Inside(place.lat, LatBits) \div rise
  BY <1>2, <1>3, <1>5, ClampKeepsCell
<1>8. /\ Wrap(t) \in 0 .. 2^LonBits - 1
      /\ Inside(Wrap(t), LonBits) \div run = Inside(place.lon, LonBits) \div run
  <2>1. lon \in Int
    BY <1>3
  <2> QED  BY <1>2, <1>6, <2>1, WrapKeepsCell
<1>9. corner \in Points
  BY <1>7, <1>8 DEF Points
<1>10. \A i \in 1 .. 5 * p : Encode(corner, p)[i] = Encode(place, STORAGE_PRECISION)[i]
  BY <1>7, <1>8, <1>9, SameStart DEF size, rise, run
<1>11. IsPrefix(Encode(corner, p), Encode(place, STORAGE_PRECISION))
  BY <1>10, StartIsPrefix
<1>12. Encode(corner, p) \in Cover(home, span, p)
  BY DEF Cover, size, rise, run, south, north, west, east
<1> QED  BY <1>11, <1>12 DEF Matches

\* The size of an interval, and of a grid.
LEMMA CountUpTo ==
    ASSUME NEW n \in Nat
    PROVE  IsFiniteSet(0 .. n) /\ Cardinality(0 .. n) = n + 1
<1>1. 0 \in Int /\ n \in Int /\ ~(0 > n) /\ n - 0 + 1 = n + 1
  OBVIOUS
<1>2. IsFiniteSet(0 .. n) /\ Cardinality(0 .. n) = IF 0 > n THEN 0 ELSE n - 0 + 1
  BY <1>1, FS_Interval
<1> QED  BY <1>1, <1>2

LEMMA CountGrid ==
    ASSUME NEW m \in Nat, NEW n \in Nat
    PROVE  /\ IsFiniteSet((0 .. m) \X (0 .. n))
           /\ Cardinality((0 .. m) \X (0 .. n)) = (m + 1) * (n + 1)
<1> DEFINE rows == 0 .. m
           columns == 0 .. n
<1>1. IsFiniteSet(rows) /\ Cardinality(rows) = m + 1
  BY CountUpTo
<1>2. IsFiniteSet(columns) /\ Cardinality(columns) = n + 1
  BY CountUpTo
<1> HIDE DEF rows, columns
<1>3. IsFiniteSet(rows \X columns) /\ Cardinality(rows \X columns) = Cardinality(rows) * Cardinality(columns)
  BY <1>1, <1>2, FS_Product
<1> QED  BY <1>1, <1>2, <1>3 DEF rows, columns

\* The loop makes no more cells than it has rows and columns of steps.
LEMMA CoverCount ==
    ASSUME NEW home, NEW span, NEW last \in Nat, NEW right \in Nat,
           last = (home.lat + span.lat + 1024 - (home.lat - span.lat)) \div 1024,
           right = (home.lon + span.lon + 1024 - (home.lon - span.lon)) \div 1024
    PROVE  /\ IsFiniteSet(Cover(home, span, MIN_PREFIX))
           /\ Cardinality(Cover(home, span, MIN_PREFIX)) <= (last + 1) * (right + 1)
<1> DEFINE south == home.lat - span.lat
           north == home.lat + span.lat
           west == home.lon - span.lon
           east == home.lon + span.lon
           lats == Samples(south, north, 1024)
           lons == Samples(west, east, 1024)
           steps == (0 .. last) \X (0 .. right)
           Corner(lat, lon) == Encode([lat |-> Clamp(lat), lon |-> Wrap(lon)], MIN_PREFIX)
           cover == {Corner(lat, lon) : lat \in lats, lon \in lons}
           Cell(x) == Corner(Least(south + x[1] * 1024, north), Least(west + x[2] * 1024, east))
           cell == [x \in steps |-> Cell(x)]
<1>1. Cover(home, span, MIN_PREFIX) = cover
  <2>1. CellSize(MIN_PREFIX).lat = 1024 /\ CellSize(MIN_PREFIX).lon = 1024
    BY DEF CellSize, LatBits, LonBits, MIN_PREFIX
  <2> QED  BY <2>1 DEF Cover
<1>2. last = (north + 1024 - south) \div 1024 /\ right = (east + 1024 - west) \div 1024
  OBVIOUS
<1> HIDE DEF south, north, west, east, Corner
<1>3. \A c \in cover : \E x \in steps : c = Cell(x)
  <2> SUFFICES ASSUME NEW lat \in lats, NEW lon \in lons PROVE \E x \in steps : Corner(lat, lon) = Cell(x)
    OBVIOUS
  <2>1. PICK j \in 0 .. last : lat = Least(south + j * 1024, north)
    BY <1>2 DEF Samples
  <2>2. PICK k \in 0 .. right : lon = Least(west + k * 1024, east)
    BY <1>2 DEF Samples
  <2>3. <<j, k>> \in steps /\ Cell(<<j, k>>) = Corner(lat, lon)
    BY <2>1, <2>2
  <2> QED  BY <2>3
<1>4. \A x \in steps : Cell(x) \in cover
  <2> SUFFICES ASSUME NEW j \in 0 .. last, NEW k \in 0 .. right PROVE Cell(<<j, k>>) \in cover
    OBVIOUS
  <2>1. Least(south + j * 1024, north) \in lats
    BY <1>2 DEF Samples
  <2>2. Least(west + k * 1024, east) \in lons
    BY <1>2 DEF Samples
  <2> QED  BY <2>1, <2>2
<1>5. IsFiniteSet(steps) /\ Cardinality(steps) = (last + 1) * (right + 1)
  BY CountGrid
<1> HIDE DEF steps, cover, Cell
<1>6. cell \in Surjection(steps, cover)
  BY <1>3, <1>4 DEF Surjection
<1>7. IsFiniteSet(cover) /\ Cardinality(cover) <= Cardinality(steps)
  BY <1>5, <1>6, FS_Surjection
<1> QED  BY <1>1, <1>5, <1>7

\* A circle of up to 511 units (78 km) from south to north, and 16 degrees to each
\* side, has a cover the hub takes: that of the map, 50 km, up to 88 degrees north
\* or south.
THEOREM SmallCirclesFit ==
    ASSUME NEW home \in Points, NEW span \in [lat : Nat, lon : Nat], span.lat <= 511, span.lon <= 12287
    PROVE  Fits(home, span, MIN_PREFIX)
<1> DEFINE last == (home.lat + span.lat + 1024 - (home.lat - span.lat)) \div 1024
           right == (home.lon + span.lon + 1024 - (home.lon - span.lon)) \div 1024
           count == Cardinality(Cover(home, span, MIN_PREFIX))
<1>1. last \in Nat /\ right \in Nat /\ last <= 1 /\ right <= 24
  <2>1. /\ home.lat \in Int /\ home.lon \in Int /\ span.lat \in Nat /\ span.lon \in Nat
        /\ span.lat <= 511 /\ span.lon <= 12287
    <3>1. \A x \in 0 .. 2^LatBits : x \in Int
      BY SMT DEF LatBits
    <3>2. \A x \in 0 .. 2^LonBits - 1 : x \in Int
      BY SMT DEF LonBits
    <3> QED  BY <3>1, <3>2, SMT DEF Points
  <2>2. last = (2 * span.lat + 1024) \div 1024 /\ right = (2 * span.lon + 1024) \div 1024
    BY <2>1, SMT
  <2> QED  BY <2>1, <2>2, SMT
<1>2. count \in Nat /\ count <= (last + 1) * (right + 1)
  <2> HIDE DEF last, right
  <2>1. last = (home.lat + span.lat + 1024 - (home.lat - span.lat)) \div 1024
    BY SMT DEF last
  <2>2. right = (home.lon + span.lon + 1024 - (home.lon - span.lon)) \div 1024
    BY SMT DEF right
  <2>3. IsFiniteSet(Cover(home, span, MIN_PREFIX)) /\ count <= (last + 1) * (right + 1)
    BY <1>1, <2>1, <2>2, CoverCount, SMT
  <2> QED  BY <2>3, FS_CardinalityType, SMT
<1> HIDE DEF last, right, count
<1>3. last = 0 \/ last = 1
  BY <1>1, SMT
<1>4. count <= 50
  BY <1>1, <1>2, <1>3, SMT
<1> QED  BY <1>4, SMT DEF count, Fits, MAX_SUBSCRIPTIONS

\* The client hears every incident around it: geohashCellsAround leaves out no cell
\* of the circle, at its edge, at a pole or past the antimeridian.
THEOREM NearbyIsHeard ==
    ASSUME SceneOnEarth
    PROVE  Nearby \subseteq Heard
<1> SUFFICES ASSUME NEW i \in Nearby PROVE i \in Heard
  OBVIOUS
<1> DEFINE home == Scene.home
           span == Scene.span
           place == Scene.place[i]
           away == Wrap(place.lon - home.lon)
           lon == IF away <= span.lon THEN home.lon + away ELSE home.lon + away - 2^LonBits
<1>1. i \in Incidents /\ Near(i)
  BY DEF Nearby
<1>2. home \in Points /\ span \in [lat : Nat, lon : Nat] /\ place \in Points /\ Fits(home, span, MIN_PREFIX)
  BY <1>1 DEF SceneOnEarth
<1>3. \A x \in 0 .. 2^LonBits - 1 : x \in Int /\ 0 <= x /\ x < 262144
  BY DEF LonBits
<1>4. home.lon \in Int /\ 0 <= home.lon /\ place.lon \in Int /\ 0 <= place.lon /\ place.lon < 262144 /\ span.lon \in Nat
  BY <1>2, <1>3 DEF Points
<1>5. PICK q \in Int : place.lon - home.lon = 262144 * q + away /\ away \in Int /\ 0 <= away /\ away < 262144
  <2>1. \A z \in Int : z = 262144 * (z \div 262144) + (z % 262144) /\ z \div 262144 \in Int
    BY SMT
  <2>2. \A z \in Int : (z % 262144) \in Int /\ 0 <= (z % 262144) /\ (z % 262144) < 262144
    BY SMT
  <2>3. away = (place.lon - home.lon) % 262144
    BY SMT DEF Wrap, LonBits
  <2>4. place.lon - home.lon \in Int
    BY <1>4
  <2> HIDE DEF away
  <2>5. PICK d \in Int : d = place.lon - home.lon
    BY <2>4
  <2>6. d = 262144 * (d \div 262144) + away /\ d \div 262144 \in Int /\ away \in Int /\ 0 <= away /\ away < 262144
    BY <2>1, <2>2, <2>3, <2>5, SMT
  <2> QED  BY <2>5, <2>6, SMT
<1>6. place.lat \in home.lat - span.lat .. home.lat + span.lat
  BY <1>1 DEF Near
<1>7. away <= span.lon \/ 262144 - away <= span.lon
  BY <1>1, SMT DEF Near, LonBits
<1>8. lon \in home.lon - span.lon .. home.lon + span.lon
  BY <1>4, <1>5, <1>7, SMT DEF LonBits
<1>9. Wrap(lon) = place.lon
  <2>1. \A k \in Int, r \in Int : 0 <= r /\ r < 262144 => (262144 * k + r) % 262144 = r
    BY SMT
  <2>2. lon = 262144 * (- q) + place.lon \/ lon = 262144 * (- q - 1) + place.lon
    BY <1>4, <1>5, SMT DEF LonBits
  <2>3. lon % 262144 = place.lon
    BY <1>4, <2>1, <2>2, SMT
  <2> QED  BY <2>3, SMT DEF Wrap, LonBits
<1> HIDE DEF away
<1>10. \E p \in MIN_PREFIX .. PARTITION_PRECISION : Cells = Cover(home, span, p)
  BY <1>2, SMT DEF Cells, CellsAround, MIN_PREFIX, PARTITION_PRECISION
<1> HIDE DEF home, span, place, lon
<1>11. Matches(Encode(place, STORAGE_PRECISION), Cells)
  BY <1>2, <1>6, <1>8, <1>9, <1>10, CoverHolds
<1> QED  BY <1>1, <1>11 DEF Heard, place

-----------------------------------------------------------------------------
(* The theorems *)

\* Every step keeps the invariant.
LEMMA FeedInvKept ==
    ASSUME FeedInv, [Next]_vars
    PROVE  FeedInv'
<1>1. CASE \E t \in Transaction : Begin(t)
  BY <1>1, BeginKept
<1>2. CASE \E t \in txs : Commit(t)
  BY <1>2, CommitKept
<1>3. CASE LoseBroker \/ FindBroker \/ \E i \in Incidents : MissEvent(i)
  BY <1>3, BrokerKept
<1>4. CASE \E i \in Incidents, counted, sent \in BOOLEAN : Publish(i, counted, sent)
  BY <1>4, PublishKept
<1>5. CASE \E k \in Queries : Warm(k) \/ ExpireEntry(k)
  BY <1>5, CacheKept
<1>6. CASE Connect \/ Break \/ Notice \/ Receive \/ Tick
  BY <1>6, LinkKept
<1>7. CASE Subscribe
  BY <1>7, SubscribeKept
<1>8. CASE Fetch
  BY <1>8, FetchKept
<1>9. CASE Query
  BY <1>9, QueryKept
<1>10. CASE Merge
  BY <1>10, MergeKept
<1>11. CASE Leave \/ FetchFails
  BY <1>11, LeaveKept
<1>12. CASE UNCHANGED vars
  BY <1>12, StutterKept
<1>13. CASE \E k \in Queries : LoseVersion(k)
  BY <1>13, LoseVersionKept
<1> QED
  BY <1>1, <1>2, <1>3, <1>4, <1>5, <1>6, <1>7, <1>8, <1>9, <1>10, <1>11, <1>12, <1>13 DEF Next

\* Whatever happens, what is reached is well-typed, pages keep their limit, and the
\* client has no version of an incident that was not committed.
THEOREM TypeCorrect == Spec => []TypeOK
<1>1. FeedInv => TypeOK
  BY DEF FeedInv
<1> QED  BY <1>1, InitHolds, FeedInvKept, PTL DEF Spec

\* A quiet client is current: it shows every change around it that it was to be
\* told of.  That is all the hub has handled since it subscribed, but for changes
\* overtaken by another and, while the client has no cursor, for those that a failed
\* INCR or a lost version keeps behind an old entry of the cache.
THEOREM QuietClientIsCurrent == SceneOnEarth => (Spec => []QuietIsCurrent)
<1> SUFFICES ASSUME SceneOnEarth PROVE Spec => []QuietIsCurrent
  OBVIOUS
<1>1. Nearby \subseteq Heard
  BY NearbyIsHeard
<1>2. FeedInv => QuietIsCurrent
  <2> SUFFICES ASSUME FeedInv, Quiet, NEW i \in Nearby PROVE Shows(i, due[i])
    BY DEF QuietIsCurrent
  <2>1. DOMAIN page = {} /\ ~Pending
    BY DEF FeedInv, Phases, Quiet, Pending
  <2> QED  BY <1>1, <2>1 DEF FeedInv, Attended, Has, Tells, Shows
<1> QED  BY <1>2, InitHolds, FeedInvKept, PTL DEF Spec
=============================================================================
