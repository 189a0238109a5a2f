------------------------ MODULE AnalysesScreensProofs ------------------------
(***************************************************************************)
(* Proofs about MCAnalysesScreens: about its Applications page, which it   *)
(* extends, and its Analyses table and documents, which are instances.     *)
(***************************************************************************)
EXTENDS MCAnalysesScreens, SequenceTheorems, FiniteSetTheorems, WellFoundedInduction, TLAPS

-----------------------------------------------------------------------------
(* The Applications: one each *)

\* The inductive invariant: the rows are a sequence, each tells its Analysis, and no two tell
\* the same.
RowsInv ==
  /\ \E S : rows \in Seq(S)
  /\ \A i \in DOMAIN rows : "of" \in DOMAIN rows[i]
  /\ OneApplication

LEMMA InitRows == Init => RowsInv
<1> SUFFICES ASSUME Init PROVE RowsInv
  OBVIOUS
<1>1. rows \in Seq(Row)
  BY TrackingAssumption DEF Init
<1>2. \A i \in DOMAIN rows : rows[i] \in Row
  BY <1>1
<1>3. \A i \in DOMAIN rows : "of" \in DOMAIN rows[i]
  BY <1>2 DEF Row
<1>4. OneApplication
  BY TrackingAssumption DEF Init, OneApplication
<1>5. QED
  BY <1>1, <1>3, <1>4 DEF RowsInv

\* The key refuses a second row; the first of two requests that both found none wins.
LEMMA InsertRows == ASSUME RowsInv, NEW n \in DOMAIN requests, Insert(n) PROVE RowsInv'
<1> PICK S : rows \in Seq(S)
  BY DEF RowsInv
<1>1. CASE UNCHANGED rows
  BY <1>1 DEF RowsInv, OneApplication
<1>2. CASE ~Taken(requests[n].of)
  <2> DEFINE new == [of |-> requests[n].of, status |-> "DRAFT", applied |-> Never,
                     updated |-> now, events |-> <<>>]
  <2>1. new.of = requests[n].of /\ "of" \in DOMAIN new
    OBVIOUS
  <2>2. rows' = Append(rows, new)
    BY <1>2 DEF Insert
  <2> HIDE DEF new
  <2>3. /\ rows' \in Seq(S \cup {new}) /\ DOMAIN rows' = DOMAIN rows \cup {Len(rows) + 1}
        /\ rows'[Len(rows) + 1] = new /\ \A i \in DOMAIN rows : rows'[i] = rows[i]
    BY <2>2
  <2>4. \A i \in DOMAIN rows : rows[i].of # new.of
    BY <1>2, <2>1 DEF Taken, RowOf
  <2>5. QED
    BY <2>1, <2>3, <2>4 DEF RowsInv, OneApplication
<1>3. QED
  BY <1>1, <1>2 DEF Insert

\* An event leaves the Analysis of its row.
LEMMA AppendRows == ASSUME RowsInv, NEW n \in DOMAIN requests, AppendEvent(n) PROVE RowsInv'
<1> PICK S : rows \in Seq(S)
  BY DEF RowsInv
<1>1. rows' = [i \in DOMAIN rows |->
                 IF rows[i].of = requests[n].of THEN Added(rows[i], requests[n]) ELSE rows[i]]
  BY DEF AppendEvent
<1>2. \A i \in DOMAIN rows : "of" \in DOMAIN rows'[i] /\ rows'[i].of = rows[i].of
  BY <1>1 DEF Added, RowsInv
<1>3. DOMAIN rows' = DOMAIN rows
  BY <1>1
<1>4. \E T : rows' \in Seq(T)
  <2> DEFINE T == {rows'[i] : i \in DOMAIN rows}
  <2>1. Len(rows) \in Nat /\ rows' \in [1..Len(rows) -> T]
    BY <1>1
  <2> HIDE DEF T
  <2>2. rows' \in Seq(T)
    BY <2>1
  <2>3. QED
    BY <2>2
<1>5. QED
  BY <1>2, <1>3, <1>4 DEF RowsInv, OneApplication

\* No other step writes a row.
LEMMA NextRows == RowsInv /\ [Next]_vars => RowsInv'
<1> SUFFICES ASSUME RowsInv, [Next]_vars PROVE RowsInv'
  OBVIOUS
<1>1. CASE UNCHANGED rows
  BY <1>1 DEF RowsInv, OneApplication
<1>2. CASE \/ \E filter \in Filters : FilterByStatus(filter)
           \/ \E size \in PageSizes : Resize(size)
           \/ SortAgain \/ TurnPage
  BY <1>1, <1>2 DEF FilterByStatus, Resize, SortAgain, TurnPage, Shows, OnTable, server
<1>3. CASE \/ TogglePage \/ SelectAllFiltered \/ ClearSelection \/ Refresh
           \/ \E i \in Listed : OnRow(i)
  BY <1>1, <1>3 DEF TogglePage, SelectAllFiltered, ClearSelection, Refresh, OnRow, Toggle, Open,
                    Selects, OnTable, server
<1>4. CASE \/ \E to \in Transitions : BulkStatus(to) \/ PanelStatus(to)
           \/ Close \/ Suivant \/ Precedent \/ Elsewhere
  BY <1>1, <1>4 DEF BulkStatus, PanelStatus, Close, Suivant, Precedent, GoTo, Elsewhere, OnTable,
                    server
<1>5. ASSUME NEW n \in DOMAIN requests, Insert(n) \/ AppendEvent(n) PROVE RowsInv'
  BY <1>5, InsertRows, AppendRows
<1>6. ASSUME NEW n \in DOMAIN requests,
             Ask(n) \/ Stamp(n) \/ ReadRow(n) \/ Lose(n) \/ PanelAnswered(n)
      PROVE  RowsInv'
  BY <1>1, <1>6 DEF Ask, Stamp, ReadRow, Lose, PanelAnswered, server
<1>7. CASE BulkSettled \/ Refetched \/ UNCHANGED vars
  BY <1>1, <1>7 DEF BulkSettled, Refetched, vars
<1>8. QED
  BY <1>2, <1>3, <1>4, <1>5, <1>6, <1>7 DEF Next

\* However the bulk changes, the panel, another tab and the generations of documents meet, an
\* Analysis gets one Application (_get_or_create_application and the unique key).
THEOREM OneApplicationEach == Spec => []OneApplication
<1>1. Spec => []RowsInv
  BY InitRows, NextRows, PTL DEF Spec
<1>2. RowsInv => OneApplication
  BY DEF RowsInv
<1>3. QED
  BY <1>1, <1>2, PTL

-----------------------------------------------------------------------------
(* Small facts about numbers and sequences *)

\* A set of natural numbers has a least element: the library's minimum of a well-founded relation.
LEMMA LeastOf == ASSUME NEW T, T \subseteq Nat, T # {} PROVE \E x \in T : \A y \in T : x <= y
<1> DEFINE R == OpToRel(<, Nat)
<1>1. IsWellFoundedOn(R, Nat)
  BY NatLessThanWellFounded
<1>2. \A a, b \in Nat : a < b => <<a, b>> \in R
  BY DEF OpToRel
<1> HIDE DEF R
<1>3. PICK x \in T : \A y \in T : ~(<<y, x>> \in R)
  BY <1>1, WFMin
<1>4. x \in Nat /\ \A y \in T : y \in Nat
  OBVIOUS
<1>5. \A y \in T : ~(y < x)
  BY <1>2, <1>3, <1>4, Zenon
<1>6. \A y \in T : x <= y
  BY <1>4, <1>5
<1>7. QED
  BY <1>6

\* Min, of a set of natural numbers, is its least element.
LEMMA MinIsLeast ==
  ASSUME NEW T, T \subseteq Nat, T # {}
  PROVE  Min(T) \in T /\ \A y \in T : Min(T) <= y
<1>1. \E x \in T : \A y \in T : x <= y
  BY LeastOf
<1>2. QED
  BY <1>1 DEF Min

LEMMA MinIs ==
  ASSUME NEW T, T \subseteq Nat, NEW x \in T, \A y \in T : x <= y
  PROVE  Min(T) = x
<1>1. Min(T) \in T /\ \A y \in T : Min(T) <= y
  BY MinIsLeast
<1>2. Min(T) \in Nat /\ x \in Nat /\ Min(T) <= x /\ x <= Min(T)
  BY <1>1
<1>3. QED
  BY <1>2

\* Max, of a bounded set of natural numbers, is one of them.
LEMMA MaxIsOne ==
  ASSUME NEW T, T \subseteq Nat, T # {}, NEW b \in Nat, \A y \in T : y <= b
  PROVE  Max(T) \in T /\ \A y \in T : y <= Max(T)
<1> DEFINE D == {k \in Nat : \E x \in T : k = b - x}
<1>0. \A x \in T : b - x \in Nat
  OBVIOUS
<1>1. D \subseteq Nat /\ D # {}
  BY <1>0
<1>2. PICK k \in D : \A l \in D : k <= l
  <2> HIDE DEF D
  <2>1. QED
    BY <1>1, LeastOf
<1>3. PICK x \in T : k = b - x
  BY <1>2
<1>4. ASSUME NEW y \in T PROVE x >= y
  <2>1. b - y \in D
    BY <1>0
  <2>2. k <= b - y
    BY <1>2, <2>1
  <2>3. QED
    BY <1>3, <2>2
<1>5. \E z \in T : \A y \in T : z >= y
  BY <1>4
<1>6. Max(T) \in T /\ \A y \in T : Max(T) >= y
  BY <1>5 DEF Max
<1>7. QED
  BY <1>6

\* A sequence of natural numbers is bounded: the shortest unbounded part of it would not be.
LEMMA BoundOf ==
  ASSUME NEW len \in Nat, NEW f, \A i \in 1..len : f[i] \in Nat
  PROVE  \E b \in Nat : \A i \in 1..len : f[i] <= b
<1> DEFINE Bounded(n) == \E b \in Nat : \A i \in 1..n : f[i] <= b
<1> DEFINE T == {n \in 0..len : ~Bounded(n)}
<1>1. SUFFICES ASSUME ~Bounded(len) PROVE FALSE
  OBVIOUS
<1>a. T # {}
  BY <1>1
<1>2. PICK n \in T : \A m \in T : n <= m
  <2>1. T \subseteq Nat
    OBVIOUS
  <2> HIDE DEF T
  <2>2. QED
    BY <1>a, <2>1, LeastOf
<1>3. n # 0
  BY <1>2
<1>4. n - 1 \in 0..len /\ ~(n - 1 \in T) /\ n \in 1..len
  <2>1. n \in 0..len
    BY <1>2
  <2>2. n - 1 \in 0..len /\ ~(n <= n - 1) /\ n \in 1..len
    BY <1>3, <2>1
  <2> HIDE DEF T
  <2>3. QED
    BY <1>2, <2>2
<1>5. Bounded(n - 1)
  BY <1>4
<1>6. PICK b \in Nat : \A i \in 1..(n - 1) : f[i] <= b
  BY <1>5
<1>7. PICK c \in Nat : c >= b /\ c >= f[n]
  <2>1. f[n] \in Nat
    BY <1>4
  <2>2. CASE b >= f[n]
    BY <2>1, <2>2
  <2>3. CASE ~(b >= f[n])
    BY <2>1, <2>3
  <2>4. QED
    BY <2>2, <2>3
<1>8. \A i \in 1..n : f[i] <= c
  <2>1. SUFFICES ASSUME NEW i \in 1..n PROVE f[i] <= c
    OBVIOUS
  <2>2. n \in Nat /\ f[i] \in Nat
    BY <1>4
  <2>3. i \in 1..(n - 1) \/ i = n
    BY <1>4
  <2>4. QED
    BY <1>6, <1>7, <2>2, <2>3
<1>9. Bounded(n)
  BY <1>8
<1>10. QED
  BY <1>2, <1>9

\* The elements of a finite set, in some order.
LEMMA OrderOf ==
  ASSUME NEW S, IsFiniteSet(S)
  PROVE  SetToSeq(S) \in Seq(S) /\ \A k \in DOMAIN SetToSeq(S) : SetToSeq(S)[k] \in S
<1>1. Cardinality(S) \in Nat /\ ExistsBijection(1..Cardinality(S), S)
  BY FS_CardinalityType
<1>2. PICK f \in [1..Cardinality(S) -> S] : IsInjective(f)
  BY <1>1 DEF ExistsBijection, Bijection, Injection
<1>3. SetToSeq(S) \in [1..Cardinality(S) -> S]
  BY <1>2 DEF SetToSeq
<1> DEFINE n == Cardinality(S)
<1> DEFINE s == SetToSeq(S)
<1>4. n \in Nat /\ s \in [1..n -> S]
  BY <1>1, <1>3
<1> HIDE DEF n, s
<1>5. s \in Seq(S) /\ \A k \in DOMAIN s : s[k] \in S
  BY <1>4
<1>6. QED
  BY <1>5 DEF s

\* A sequence with one element replaced or taken out, or another one behind it.
LEMMA Replaced ==
  ASSUME NEW S, NEW s \in Seq(S), NEW n \in DOMAIN s, NEW v \in S
  PROVE  /\ [s EXCEPT ![n] = v] \in Seq(S)
         /\ \A m \in DOMAIN [s EXCEPT ![n] = v] :
              m \in DOMAIN s /\ [s EXCEPT ![n] = v][m] = IF m = n THEN v ELSE s[m]
  OBVIOUS

LEMMA Joined ==
  ASSUME NEW S, NEW a \in Seq(S), NEW b \in Seq(S)
  PROVE  /\ a \o b \in Seq(S)
         /\ \A m \in DOMAIN (a \o b) : \/ m \in DOMAIN a /\ (a \o b)[m] = a[m]
                                      \/ \E k \in DOMAIN b : (a \o b)[m] = b[k]
<1>1. /\ a \o b \in Seq(S) /\ Len(a \o b) = Len(a) + Len(b)
      /\ \A i \in 1..(Len(a) + Len(b)) : (a \o b)[i] = IF i <= Len(a) THEN a[i] ELSE b[i - Len(a)]
  BY ConcatProperties, Z3
<1>2. ASSUME NEW m \in DOMAIN (a \o b)
      PROVE  \/ m \in DOMAIN a /\ (a \o b)[m] = a[m]
             \/ \E k \in DOMAIN b : (a \o b)[m] = b[k]
  <2> DEFINE p == Len(a)
  <2> DEFINE q == Len(b)
  <2>1. p \in Nat /\ q \in Nat /\ DOMAIN a = 1..p /\ DOMAIN b = 1..q
    OBVIOUS
  <2>2. m \in 1..(p + q) /\ (a \o b)[m] = IF m <= p THEN a[m] ELSE b[m - p]
    BY <1>1
  <2> HIDE DEF p, q
  <2>3. (m <= p /\ m \in 1..p) \/ (~(m <= p) /\ m - p \in 1..q)
    BY <2>1, <2>2
  <2>4. QED
    BY <2>1, <2>2, <2>3
<1>3. QED
  BY <1>1, <1>2

LEMMA TakenOut ==
  ASSUME NEW S, NEW s \in Seq(S), NEW n \in DOMAIN s
  PROVE  /\ RemoveAt(s, n) \in Seq(S)
         /\ \A m \in DOMAIN RemoveAt(s, n) : \E k \in DOMAIN s : RemoveAt(s, n)[m] = s[k]
<1> DEFINE a == SubSeq(s, 1, n - 1)
<1> DEFINE b == SubSeq(s, n + 1, Len(s))
<1>1. n \in Nat /\ Len(s) \in Nat /\ n >= 1 /\ n <= Len(s)
  OBVIOUS
<1>2. a \in Seq(S) /\ Len(a) = n - 1 /\ \A i \in 1..(n - 1) : a[i] = s[i]
  BY <1>1
<1>3. b \in Seq(S) /\ Len(b) = Len(s) - n /\ \A i \in 1..(Len(s) - n) : b[i] = s[n + i]
  BY <1>1
<1>4. RemoveAt(s, n) = a \o b
  BY DEF RemoveAt
<1> HIDE DEF a, b
<1>5. a \o b \in Seq(S)
  BY <1>2, <1>3, Joined
<1>6. ASSUME NEW m \in DOMAIN (a \o b) PROVE \E k \in DOMAIN s : (a \o b)[m] = s[k]
  <2>1. CASE m \in DOMAIN a /\ (a \o b)[m] = a[m]
    <3>1. m \in 1..(n - 1) /\ m \in DOMAIN s
      BY <1>1, <1>2, <2>1
    <3>2. QED
      BY <1>2, <2>1, <3>1
  <2>2. ASSUME NEW k \in DOMAIN b, (a \o b)[m] = b[k] PROVE (a \o b)[m] = s[n + k] /\ n + k \in DOMAIN s
    <3>1. k \in 1..(Len(s) - n) /\ n + k \in DOMAIN s
      BY <1>1, <1>3
    <3>2. QED
      BY <1>3, <2>2, <3>1
  <2>3. QED
    BY <1>2, <1>3, <2>1, <2>2, Joined
<1>7. QED
  BY <1>4, <1>5, <1>6

LEMMA Lengthened ==
  ASSUME NEW S, NEW s \in Seq(S), NEW v \in S
  PROVE  /\ Append(s, v) \in Seq(S)
         /\ DOMAIN Append(s, v) = DOMAIN s \cup {Len(s) + 1}
         /\ Append(s, v)[Len(s) + 1] = v
         /\ \A m \in DOMAIN s : Append(s, v)[m] = s[m]
         /\ ~(Len(s) + 1 \in DOMAIN s)
  OBVIOUS

-----------------------------------------------------------------------------
(* The Applications page: its invariant *)

TRow == [of : Analyses, status : Statuses, applied : Nat, updated : Nat]

LEMMA SummaryOfRow ==
  ASSUME NEW r \in Row
  PROVE  Summary(r) \in TRow /\ Summary(r).of = r.of /\ Summary(r).status = r.status
<1>1. DOMAIN r = {"of", "status", "applied", "updated", "events"}
  BY DEF Row
<1>2. DOMAIN r \ {"events"} = {"of", "status", "applied", "updated"}
  BY <1>1
<1>3. Summary(r) = [k \in {"of", "status", "applied", "updated"} |-> r[k]]
  BY <1>2 DEF Summary
<1>4. Summary(r) = [of |-> r.of, status |-> r.status, applied |-> r.applied, updated |-> r.updated]
  BY <1>3
<1>5. r.of \in Analyses /\ r.status \in Statuses /\ r.applied \in Nat /\ r.updated \in Nat
  BY DEF Row
<1>6. QED
  BY <1>4, <1>5 DEF TRow

\* A row is dated by an application that had seen none before it, and every event was dated.
Dated(r) == DatedUnseen(r) /\ \A k \in DOMAIN r.events : r.events[k].date > Never
DatedRows == {r \in Row : Dated(r)}

\* A request whose event is recorded: it is in the row of its Analysis.
Recorded(q) ==
  \E i \in RowOf(q.of) : \E k \in DOMAIN rows[i].events :
    rows[i].events[k].status = q.to /\ rows[i].events[k].date = q.date

\* A copy of a row is of some earlier time: the row has grown since, it keeps the date it had, and
\* the applications that a copy without a date did not show were appended after it was read.
Outgrown(q, r) ==
  /\ q.copy.events <= Len(r.events)
  /\ q.copy.applied # Never => r.applied # Never
  /\ q.copy.applied = Never => \A m \in Applications(r) : q.copy.events < m

\* What a request has behind it: a status to give unless a generation made it, a row once it has
\* found one, a date before it adds its event, a copy to write from, and the event afterwards.
Sound(q) ==
  /\ q.via # "documents" => q.to \in Transitions
  /\ q.stage \in {"adding", "writing"} => q.via # "documents" /\ q.date > Never
  /\ q.stage \in {"found", "adding", "writing"} => RowOf(q.of) # {}
  /\ q.stage = "writing" => \A i \in RowOf(q.of) : Outgrown(q, rows[i])
  /\ q.stage = "added" => Recorded(q)

\* A row that has grown: the events it had stay in their place, and so does a date.
Grown(old, new) ==
  /\ new.of = old.of
  /\ Len(old.events) <= Len(new.events)
  /\ \A k \in DOMAIN old.events : k \in DOMAIN new.events /\ new.events[k] = old.events[k]
  /\ \A k \in DOMAIN new.events : k \in DOMAIN old.events \/ Len(old.events) < k
  /\ old.applied # Never => new.applied # Never

StoredRows == rows \in Seq(DatedRows) /\ now \in Nat \ {0}
SoundOnes == {q \in Request : Sound(q)}
SoundRequests == requests \in Seq(SoundOnes)
\* A list is of the rows of some earlier time.
ListedRows == list \in Seq(TRow) /\ \A i \in Listed : i \in DOMAIN rows /\ list[i].of = rows[i].of
OnList == selected \subseteq Listed /\ shown \in Listed \cup {Nobody}

TrackInv == RowsInv /\ StoredRows /\ SoundRequests /\ ListedRows /\ OnList

\* The clock starts after every update.
LEMMA ClockStarts == Init => now \in Nat \ {0}
<1> SUFFICES ASSUME Init PROVE now \in Nat \ {0}
  OBVIOUS
<1>1. Opening \in Seq(Row)
  BY TrackingAssumption
<1> DEFINE T == {Opening[i].updated : i \in DOMAIN Opening} \cup {0}
<1>2. Len(Opening) \in Nat /\ DOMAIN Opening = 1..Len(Opening)
  BY <1>1
<1>3. \A i \in 1..Len(Opening) : Opening[i].updated \in Nat
  <2>1. \A i \in 1..Len(Opening) : Opening[i] \in Row
    BY <1>1
  <2>2. QED
    BY <2>1 DEF Row
<1> DEFINE f == [i \in 1..Len(Opening) |-> Opening[i].updated]
<1>4. \A i \in 1..Len(Opening) : f[i] \in Nat
  BY <1>3
<1>5. PICK b \in Nat : \A i \in 1..Len(Opening) : f[i] <= b
  <2> HIDE DEF f
  <2>1. QED
    BY <1>2, <1>4, BoundOf
<1>6. T \subseteq Nat /\ T # {} /\ \A y \in T : y <= b
  BY <1>2, <1>3, <1>5
<1>7. Max(T) \in T
  <2> HIDE DEF T
  <2>1. QED
    BY <1>6, MaxIsOne
<1>8. now = Max(T) + 1
  BY DEF Init
<1> HIDE DEF T
<1>9. Max(T) \in Nat
  BY <1>6, <1>7
<1>10. QED
  BY <1>8, <1>9

LEMMA SummariesOf ==
  ASSUME NEW s \in Seq(Row)
  PROVE  /\ Summaries(s) \in Seq(TRow) /\ DOMAIN Summaries(s) = DOMAIN s
         /\ \A i \in DOMAIN s : Summaries(s)[i] = Summary(s[i]) /\ Summaries(s)[i].of = s[i].of
<1>1. DOMAIN s = 1..Len(s) /\ Len(s) \in Nat /\ \A i \in DOMAIN s : s[i] \in Row
  OBVIOUS
<1>2. Summaries(s) = [i \in 1..Len(s) |-> Summary(s[i])]
  BY <1>1 DEF Summaries
<1>3. \A i \in 1..Len(s) : Summary(s[i]) \in TRow /\ Summary(s[i]).of = s[i].of
  BY <1>1, SummaryOfRow
<1>4. QED
  BY <1>1, <1>2, <1>3

LEMMA RowsAreDated ==
  ASSUME StoredRows
  PROVE  rows \in Seq(Row) /\ \A i \in DOMAIN rows : rows[i] \in Row /\ Dated(rows[i])
<1>1. rows \in Seq(DatedRows) /\ DatedRows \subseteq Row
  BY DEF StoredRows, DatedRows
<1>2. \A i \in DOMAIN rows : rows[i] \in DatedRows
  BY <1>1
<1>3. rows \in Seq(Row)
  BY <1>1, SeqMonotonic
<1>4. QED
  BY <1>2, <1>3 DEF DatedRows

LEMMA InitTracks == Init => TrackInv
<1> SUFFICES ASSUME Init PROVE TrackInv
  OBVIOUS
<1>1. rows \in Seq(Row) /\ rows = Opening /\ requests = <<>> /\ list = Summaries(rows)
  BY TrackingAssumption DEF Init
<1>2. StoredRows
  <2>1. \A i \in DOMAIN rows : rows[i] \in Row /\ Dated(rows[i])
    BY <1>1, TrackingAssumption DEF Dated
  <2>2. Len(rows) \in Nat /\ rows \in [1..Len(rows) -> DatedRows]
    BY <1>1, <2>1 DEF DatedRows
  <2>3. rows \in Seq(DatedRows)
    BY <2>2
  <2>4. QED
    BY <2>3, ClockStarts DEF StoredRows
<1>3. SoundRequests
  BY <1>1 DEF SoundRequests
<1>4. ListedRows
  BY <1>1, SummariesOf DEF ListedRows, Listed
<1>5. OnList
  BY DEF Init, OnList
<1>6. QED
  BY <1>2, <1>3, <1>4, <1>5, InitRows DEF TrackInv

-----------------------------------------------------------------------------
(* The Applications page: its steps keep the invariant *)

\* What the invariant says of a row, a listed row and a request.
LEMMA TrackTypes ==
  ASSUME TrackInv
  PROVE  /\ \A i \in DOMAIN rows : rows[i] \in Row /\ rows[i].of \in Analyses
         /\ \A i \in Listed : list[i] \in TRow /\ list[i].of \in Analyses
         /\ \A n \in DOMAIN requests :
              /\ requests[n] \in Request /\ Sound(requests[n])
              /\ requests[n].of \in Analyses /\ requests[n].to \in Statuses
         /\ now \in Nat \ {0} /\ now \in Nat /\ now + 1 \in Nat \ {0} /\ now > Never
<1>1. \A i \in DOMAIN rows : rows[i] \in Row
  BY RowsAreDated DEF TrackInv
<1>2. \A i \in Listed : list[i] \in TRow
  BY DEF TrackInv, ListedRows, Listed
<1>3. \A n \in DOMAIN requests : requests[n] \in Request /\ Sound(requests[n])
  <2>1. \A n \in DOMAIN requests : requests[n] \in SoundOnes
    BY DEF TrackInv, SoundRequests
  <2>2. QED
    BY <2>1 DEF SoundOnes
<1>4. now \in Nat \ {0} /\ now \in Nat /\ now + 1 \in Nat \ {0} /\ now > Never
  BY DEF TrackInv, StoredRows, Never
<1>5. QED
  BY <1>1, <1>2, <1>3, <1>4 DEF Row, TRow, Request

\* A copy that a row has outgrown stays so as the row grows.
LEMMA OutgrownStill ==
  ASSUME NEW q \in Request, NEW old \in Row, NEW new \in Row, Outgrown(q, old), Grown(old, new)
  PROVE  Outgrown(q, new)
<1>1. /\ q.copy.events \in Nat /\ Len(old.events) \in Nat /\ Len(new.events) \in Nat
      /\ \A k \in DOMAIN new.events : k \in Nat
  BY DEF Request, Row
<1>2. \A m \in Applications(new) : m \in Applications(old) \/ Len(old.events) < m
  BY DEF Grown, Applications
<1>3. ASSUME q.copy.applied = Never, NEW m \in Applications(new) PROVE q.copy.events < m
  <2>1. m \in Nat /\ q.copy.events <= Len(old.events)
    BY <1>1 DEF Applications, Outgrown
  <2>2. CASE m \in Applications(old)
    BY <1>3, <2>2 DEF Outgrown
  <2>3. CASE Len(old.events) < m
    BY <1>1, <2>1, <2>3
  <2>4. QED
    BY <1>2, <2>2, <2>3
<1>4. QED
  BY <1>1, <1>3 DEF Outgrown, Grown

\* The rows a request finds, and the events they keep, are found again as the rows grow; the rows
\* there are more of are of other Analyses.
RowsGrow ==
  /\ \A i \in DOMAIN rows : i \in DOMAIN rows' /\ rows'[i] \in Row /\ Grown(rows[i], rows'[i])
  /\ \A i \in DOMAIN rows' \ DOMAIN rows : RowOf(rows'[i].of) = {}

LEMMA SoundKept == ASSUME TrackInv, NEW q \in Request, Sound(q), RowsGrow PROVE Sound(q)'
<1>1. \A i \in RowOf(q.of) : i \in RowOf(q.of)'
  BY DEF RowOf, RowsGrow, Grown
<1>2. Recorded(q) => Recorded(q)'
  <2>1. ASSUME NEW i \in RowOf(q.of), NEW k \in DOMAIN rows[i].events
        PROVE  k \in DOMAIN rows'[i].events /\ rows'[i].events[k] = rows[i].events[k]
    BY DEF RowOf, RowsGrow, Grown
  <2>2. QED
    BY <1>1, <2>1 DEF Recorded
<1>3. ASSUME q.stage = "writing", NEW i \in RowOf(q.of)' PROVE Outgrown(q, rows'[i])
  <2>1. i \in DOMAIN rows
    BY <1>3 DEF Sound, RowOf, RowsGrow
  <2>2. rows[i] \in Row /\ rows'[i] \in Row /\ Grown(rows[i], rows'[i])
    BY <2>1, RowsAreDated DEF TrackInv, RowsGrow
  <2>3. i \in RowOf(q.of)
    BY <2>1, <2>2 DEF RowOf, Grown
  <2>4. Outgrown(q, rows[i])
    BY <1>3, <2>3 DEF Sound
  <2>5. QED
    BY <2>2, <2>4, OutgrownStill
<1>4. QED
  BY <1>1, <1>2, <1>3 DEF Sound

LEMMA SoundStay == ASSUME TrackInv, RowsGrow PROVE SoundOnes \subseteq SoundOnes'
<1>1. ASSUME NEW q \in Request, Sound(q) PROVE Sound(q)'
  BY <1>1, SoundKept
<1>2. ASSUME NEW q \in SoundOnes PROVE q \in SoundOnes'
  <2>1. q \in Request /\ Sound(q)
    BY <1>2 DEF SoundOnes
  <2>2. Sound(q)'
    BY <1>1, <2>1
  <2>3. QED
    BY <2>1, <2>2 DEF SoundOnes
<1>3. QED
  BY <1>2

\* While no row is written, the requests that were sound are.
LEMMA SoundUnwritten ==
  ASSUME TrackInv, UNCHANGED rows
  PROVE  SoundOnes \subseteq SoundOnes' /\ requests \in Seq(SoundOnes')
<1>1. SoundOnes \subseteq SoundOnes'
  <2>1. rows' = rows /\ \A i \in DOMAIN rows : rows[i] \in Row
    BY RowsAreDated DEF TrackInv
  <2>2. RowsGrow
    <3>1. ASSUME NEW i \in DOMAIN rows PROVE Grown(rows[i], rows[i])
      BY <2>1 DEF Grown, Row
    <3>2. QED
      BY <2>1, <3>1 DEF RowsGrow
  <2>3. QED
    BY <2>2, SoundStay
<1>2. requests \in Seq(SoundOnes)
  BY DEF TrackInv, SoundRequests
<1>3. QED
  BY <1>1, <1>2, SeqMonotonic

\* A step that writes neither a row nor the list has the requests and the screen to keep.
LEMMA RowsUnwritten ==
  ASSUME TrackInv, UNCHANGED <<rows, list>>, now' \in Nat \ {0}, SoundRequests', OnList'
  PROVE  TrackInv'
<1>1. StoredRows'
  BY DEF TrackInv, StoredRows
<1>2. ListedRows'
  BY DEF TrackInv, ListedRows, Listed
<1>3. RowsInv'
  BY DEF TrackInv, RowsInv, OneApplication
<1>4. QED
  BY <1>1, <1>2, <1>3 DEF TrackInv

LEMMA ScreenOnly ==
  ASSUME TrackInv, UNCHANGED <<rows, list, now, requests>>, OnList'
  PROVE  TrackInv'
<1>1. now' \in Nat \ {0}
  BY DEF TrackInv, StoredRows
<1>2. SoundRequests'
  BY SoundUnwritten DEF SoundRequests
<1>3. QED
  BY <1>1, <1>2, RowsUnwritten

LEMMA ScreenKept ==
  ASSUME TrackInv, UNCHANGED <<list, selected, shown>>
  PROVE  OnList'
  BY DEF TrackInv, OnList, Listed

\* How a sound request is seen to be one, now and after a step.
LEMMA SoundNow == ASSUME NEW q \in Request, Sound(q) PROVE q \in SoundOnes
  BY DEF SoundOnes

LEMMA SoundNext == ASSUME NEW q \in Request, Sound(q)' PROVE q \in SoundOnes'
  BY DEF SoundOnes

\* Rows shown, filtered or opened are listed.
LEMMA RowsAreListed == Rows \subseteq Listed /\ Filtered \subseteq Listed /\ \A k : At(k) \subseteq Listed
  BY DEF Rows, Filtered, At

LEMMA ShowsTracks == ASSUME TrackInv, NEW patch, Shows(patch) PROVE TrackInv'
<1>1. UNCHANGED <<rows, list, now, requests, selected, shown>>
  BY DEF Shows, OnTable, server, quickView
<1>2. QED
  BY <1>1, ScreenKept, ScreenOnly

LEMMA SelectsTracks == ASSUME TrackInv, NEW ids, ids \subseteq Listed, Selects(ids) PROVE TrackInv'
<1>1. UNCHANGED <<rows, list, now, requests, shown>> /\ selected' = ids
  BY DEF Selects, OnTable, server, quickView
<1>2. OnList'
  BY <1>1 DEF TrackInv, OnList, Listed
<1>3. QED
  BY <1>1, <1>2, ScreenOnly

LEMMA TogglesTrack ==
  ASSUME TrackInv,
         TogglePage \/ SelectAllFiltered \/ ClearSelection \/ Refresh \/ \E i \in Listed : OnRow(i)
  PROVE  TrackInv'
<1>0. selected \subseteq Listed
  BY DEF TrackInv, OnList
<1>1. CASE TogglePage
  BY <1>0, <1>1, RowsAreListed, SelectsTracks DEF TogglePage
<1>2. CASE SelectAllFiltered
  BY <1>2, RowsAreListed, SelectsTracks DEF SelectAllFiltered
<1>3. CASE ClearSelection \/ Refresh
  <2>1. UNCHANGED <<rows, list, now, requests, shown>> /\ selected' \subseteq Listed
    BY <1>0, <1>3 DEF ClearSelection, Refresh, OnTable, server, quickView
  <2>2. OnList'
    BY <2>1 DEF TrackInv, OnList, Listed
  <2>3. QED
    BY <2>1, <2>2, ScreenOnly
<1>4. ASSUME NEW i \in Listed, Toggle(i) PROVE TrackInv'
  <2>1. (selected \ {i}) \cup ({i} \ selected) \subseteq Listed
    BY <1>0
  <2>2. QED
    BY <1>4, <2>1, SelectsTracks DEF Toggle
<1>5. ASSUME NEW i \in Listed, Open(i) PROVE TrackInv'
  <2>1. UNCHANGED <<rows, list, now, requests, selected>> /\ shown' = i
    BY <1>5 DEF Open, Opened, server
  <2>2. OnList'
    BY <2>1 DEF TrackInv, OnList, Listed
  <2>3. QED
    BY <2>1, <2>2, ScreenOnly
<1>6. QED
  BY <1>1, <1>2, <1>3, <1>4, <1>5 DEF OnRow

LEMMA StepsTrack == ASSUME TrackInv, Close \/ Suivant \/ Precedent PROVE TrackInv'
<1>1. CASE Close
  <2>1. UNCHANGED <<rows, list, now, requests, selected>> /\ shown' = Nobody
    BY <1>1 DEF Close, server
  <2>2. OnList'
    BY <2>1 DEF TrackInv, OnList, Listed
  <2>3. QED
    BY <2>1, <2>2, ScreenOnly
<1>2. ASSUME NEW k, GoTo(k) PROVE TrackInv'
  <2>1. UNCHANGED <<rows, list, now, requests, selected>> /\ shown' \in Listed
    BY <1>2, RowsAreListed DEF GoTo, Opened, server
  <2>2. OnList'
    BY <2>1 DEF TrackInv, OnList, Listed
  <2>3. QED
    BY <2>1, <2>2, ScreenOnly
<1>3. QED
  BY <1>1, <1>2 DEF Suivant, Precedent

\* One request more.
LEMMA AskedTracks ==
  ASSUME TrackInv, UNCHANGED <<rows, list, selected, shown>>, now' \in Nat \ {0},
         NEW q \in Request, Sound(q), requests' = Append(requests, q)
  PROVE  TrackInv'
<1>1. q \in SoundOnes
  BY SoundNow
<1>2. SoundOnes \subseteq SoundOnes' /\ requests \in Seq(SoundOnes')
  BY SoundUnwritten
<1>3. requests' \in Seq(SoundOnes')
  BY <1>1, <1>2, Lengthened
<1>4. SoundRequests'
  BY <1>3 DEF SoundRequests
<1>5. QED
  BY <1>4, ScreenKept, RowsUnwritten

\* A request that is asking, for an Analysis that has or has not a row.
LEMMA AskedIsSound ==
  ASSUME NEW via \in {"panel", "bulk", "elsewhere", "documents"}, NEW a \in Analyses,
         NEW to \in Statuses, via # "documents" => to \in Transitions
  PROVE  Asked(via, a, to) \in Request /\ Sound(Asked(via, a, to))
<1>1. Asked(via, a, to) \in Request
  BY DEF Asked, Request, Unread, Never, Statuses
<1>2. /\ Asked(via, a, to).via = via /\ Asked(via, a, to).to = to
      /\ Asked(via, a, to).stage = "asking"
  BY DEF Asked
<1>3. QED
  BY <1>1, <1>2 DEF Sound

LEMMA ElsewhereTracks == ASSUME TrackInv, Elsewhere PROVE TrackInv'
<1>1. UNCHANGED <<rows, list, selected, shown>> /\ now' \in Nat \ {0}
  BY TrackTypes DEF Elsewhere, quickView
<1>2. PICK a \in Contested :
        \/ requests' = Append(requests, Asked("documents", a, "DRAFT"))
        \/ \E to \in Transitions : requests' = Append(requests, Asked("elsewhere", a, to))
  BY DEF Elsewhere
<1>3. a \in Analyses /\ "DRAFT" \in Statuses /\ Transitions \subseteq Statuses
  BY TrackingAssumption DEF Statuses, Transitions
<1>4. Asked("documents", a, "DRAFT") \in Request /\ Sound(Asked("documents", a, "DRAFT"))
  BY <1>3, AskedIsSound
<1>5. \A to \in Transitions : Asked("elsewhere", a, to) \in Request /\ Sound(Asked("elsewhere", a, to))
  BY <1>3, AskedIsSound
<1>6. CASE requests' = Append(requests, Asked("documents", a, "DRAFT"))
  BY <1>1, <1>4, <1>6, AskedTracks
<1>7. ASSUME NEW to \in Transitions, requests' = Append(requests, Asked("elsewhere", a, to)) PROVE TrackInv'
  BY <1>1, <1>5, <1>7, AskedTracks
<1>8. QED
  BY <1>2, <1>6, <1>7

\* The panel's own: its row is listed, so the Analysis has one.
LEMMA PanelTracks == ASSUME TrackInv, NEW to \in Transitions, PanelStatus(to) PROVE TrackInv'
<1> DEFINE a == list[shown].of
<1> DEFINE r == Asked("panel", a, to)
<1> DEFINE q == [r EXCEPT !.stage = "adding", !.date = now]
<1>1. UNCHANGED <<rows, list, selected, shown>> /\ now' \in Nat \ {0} /\ requests' = Append(requests, q)
  BY TrackTypes DEF PanelStatus, quickView
<1>2. shown \in Listed
  BY DEF PanelStatus, TrackInv, OnList
<1>3. a \in Analyses /\ RowOf(a) # {}
  BY <1>2, TrackTypes DEF TrackInv, ListedRows, RowOf
<1> HIDE DEF a
<1>4. to \in Statuses /\ "panel" \in {"panel", "bulk", "elsewhere", "documents"}
  BY DEF Transitions
<1>5. r \in Request
  BY <1>3, <1>4, AskedIsSound
<1>6. r.via = "panel" /\ r.of = a /\ r.to = to
  BY DEF Asked
<1> HIDE DEF r
<1>7. q \in Request /\ q.via = "panel" /\ q.of = a /\ q.to = to /\ q.stage = "adding" /\ q.date = now
  <2>1. now \in Nat
    BY TrackTypes
  <2>2. QED
    BY <1>5, <1>6, <2>1 DEF Request
<1> HIDE DEF q
<1>8. Sound(q)
  BY <1>3, <1>7, TrackTypes DEF Sound
<1>9. QED
  BY <1>1, <1>7, <1>8, AskedTracks

\* A bulk change: one request per selected row.
LEMMA BulkTracks == ASSUME TrackInv, NEW to \in Transitions, BulkStatus(to) PROVE TrackInv'
<1> DEFINE chosen == SetToSeq(selected)
<1> DEFINE asked == [k \in DOMAIN chosen |-> Asked("bulk", list[chosen[k]].of, to)]
<1>1. UNCHANGED <<rows, list, now, selected, shown>> /\ requests' = requests \o asked
  BY DEF BulkStatus, OnTable, server, quickView
<1>2. IsFiniteSet(selected)
  <2>1. Len(list) \in Nat /\ selected \subseteq 1..Len(list)
    BY DEF TrackInv, OnList, ListedRows, Listed
  <2>2. IsFiniteSet(1..Len(list))
    BY <2>1, FS_Interval
  <2>3. QED
    BY <2>1, <2>2, FS_Subset
<1>3. chosen \in Seq(selected) /\ \A k \in DOMAIN chosen : chosen[k] \in selected
  BY <1>2, OrderOf
<1>4. \A k \in DOMAIN chosen : list[chosen[k]].of \in Analyses
  BY <1>3, TrackTypes DEF TrackInv, OnList
<1> HIDE DEF chosen
<1>5. to \in Statuses
  BY DEF Transitions
<1>6. \A k \in DOMAIN chosen : asked[k] \in SoundOnes
  <2>1. \A k \in DOMAIN chosen : Asked("bulk", list[chosen[k]].of, to) \in Request
                              /\ Sound(Asked("bulk", list[chosen[k]].of, to))
    BY <1>4, <1>5, AskedIsSound
  <2>2. QED
    BY <2>1 DEF SoundOnes
<1>7. asked \in Seq(SoundOnes)
  <2>1. Len(chosen) \in Nat /\ DOMAIN chosen = 1..Len(chosen)
    BY <1>3
  <2>2. QED
    BY <1>6, <2>1
<1> HIDE DEF asked
<1>8. SoundOnes \subseteq SoundOnes' /\ requests \in Seq(SoundOnes')
  BY <1>1, SoundUnwritten
<1>9. asked \in Seq(SoundOnes')
  BY <1>7, <1>8, SeqMonotonic
<1>10. SoundRequests'
  BY <1>1, <1>8, <1>9, Joined DEF SoundRequests
<1>11. now' \in Nat \ {0}
  BY <1>1, TrackTypes
<1>12. QED
  BY <1>1, <1>10, <1>11, ScreenKept, RowsUnwritten

\* A request moves while no row is written.
LEMMA MovedTracks ==
  ASSUME TrackInv, UNCHANGED <<rows, list, selected, shown>>, now' \in Nat \ {0},
         NEW n \in DOMAIN requests, NEW q \in Request, Sound(q),
         requests' = [requests EXCEPT ![n] = q]
  PROVE  TrackInv'
<1>1. SoundOnes \subseteq SoundOnes' /\ requests \in Seq(SoundOnes')
  BY SoundUnwritten
<1>2. q \in SoundOnes'
  BY <1>1, SoundNow
<1>3. SoundRequests'
  BY <1>1, <1>2, Replaced DEF SoundRequests
<1>4. QED
  BY <1>3, ScreenKept, RowsUnwritten

LEMMA DoneTracks ==
  ASSUME TrackInv, UNCHANGED <<rows, list, selected, shown>>, now' \in Nat \ {0},
         NEW n \in DOMAIN requests, Done(n)
  PROVE  TrackInv'
<1>1. requests \in Seq(SoundOnes')
  BY SoundUnwritten
<1>2. SoundRequests'
  BY <1>1, TakenOut DEF SoundRequests, Done
<1>3. QED
  BY <1>2, ScreenKept, RowsUnwritten

\* It asks for the row, and finds it or does not.
LEMMA AskTracks == ASSUME TrackInv, NEW n \in DOMAIN requests, Ask(n) PROVE TrackInv'
<1> DEFINE stage == IF RowOf(requests[n].of) = {} THEN "inserting" ELSE "found"
<1> DEFINE q == [requests[n] EXCEPT !.stage = stage, !.copy = Unread]
<1>1. UNCHANGED <<rows, list, selected, shown>> /\ now' \in Nat \ {0}
  BY TrackTypes DEF Ask, server, screen
<1>3. requests[n] \in Request /\ Sound(requests[n])
  BY TrackTypes
<1>2. requests' = [requests EXCEPT ![n] = q]
  BY <1>3 DEF Ask, Move, Request
<1>4. /\ q \in Request /\ q.via = requests[n].via /\ q.of = requests[n].of /\ q.to = requests[n].to
      /\ q.stage = stage
  BY <1>3 DEF Request, Unread, Never, Statuses
<1> HIDE DEF q
<1>5. Sound(q)
  BY <1>3, <1>4 DEF Sound
<1>6. QED
  BY <1>1, <1>2, <1>4, <1>5, MovedTracks

\* It is dated as it sends its event.
LEMMA StampTracks == ASSUME TrackInv, NEW n \in DOMAIN requests, Stamp(n) PROVE TrackInv'
<1>1. UNCHANGED <<rows, list, selected, shown>> /\ now' \in Nat \ {0}
  BY TrackTypes DEF Stamp, screen
<1>2. CASE Done(n)
  BY <1>1, <1>2, DoneTracks
<1>3. CASE requests[n].via # "documents" /\ requests' = [requests EXCEPT ![n].stage = "adding", ![n].date = now]
  <2> DEFINE q == [requests[n] EXCEPT !.stage = "adding", !.date = now]
  <2>1. requests[n] \in Request /\ Sound(requests[n]) /\ requests[n].stage = "found" /\ now \in Nat
    BY TrackTypes DEF Stamp
  <2>2. requests' = [requests EXCEPT ![n] = q]
    BY <1>3, <2>1 DEF Request
  <2>3. /\ q \in Request /\ q.via = requests[n].via /\ q.of = requests[n].of /\ q.to = requests[n].to
        /\ q.stage = "adding" /\ q.date = now
    BY <2>1 DEF Request
  <2> HIDE DEF q
  <2>4. Sound(q)
    BY <1>3, <2>1, <2>3, TrackTypes DEF Sound
  <2>5. QED
    BY <1>1, <2>2, <2>3, <2>4, MovedTracks
<1>4. QED
  BY <1>2, <1>3 DEF Stamp

\* It reads the row: its copy is what the row holds.
LEMMA ReadTracks == ASSUME TrackInv, NEW n \in DOMAIN requests, ReadRow(n) PROVE TrackInv'
<1>1. UNCHANGED <<rows, list, selected, shown>> /\ now' \in Nat \ {0}
  BY TrackTypes DEF ReadRow, server, screen
<1>2. requests[n] \in Request /\ Sound(requests[n]) /\ requests[n].stage = "adding"
  BY TrackTypes DEF ReadRow
<1> PICK i \in RowOf(requests[n].of) :
      requests' = [requests EXCEPT ![n].stage = "writing",
                                   ![n].copy = [status |-> rows[i].status,
                                                applied |-> rows[i].applied,
                                                events |-> Len(rows[i].events)]]
  BY DEF ReadRow
<1> DEFINE c == [status |-> rows[i].status, applied |-> rows[i].applied, events |-> Len(rows[i].events)]
<1> DEFINE q == [requests[n] EXCEPT !.stage = "writing", !.copy = c]
<1>3. i \in DOMAIN rows /\ rows[i].of = requests[n].of /\ rows[i] \in Row /\ Dated(rows[i])
  BY RowsAreDated DEF RowOf, TrackInv
<1>4. /\ c \in [status : Statuses, applied : Nat, events : Nat]
      /\ c.applied = rows[i].applied /\ c.events = Len(rows[i].events)
  BY <1>3 DEF Row
<1>5. requests' = [requests EXCEPT ![n] = q]
  BY <1>2 DEF Request
<1> HIDE DEF c
<1>6. /\ q \in Request /\ q.via = requests[n].via /\ q.of = requests[n].of /\ q.to = requests[n].to
      /\ q.stage = "writing" /\ q.date = requests[n].date /\ q.copy = c
  BY <1>2, <1>4 DEF Request
<1> HIDE DEF q
<1>7. Outgrown(q, rows[i])
  <2>1. Len(rows[i].events) \in Nat
    BY <1>3 DEF Row
  <2>2. rows[i].applied = Never => Applications(rows[i]) = {}
    <3>1. \A k \in Applications(rows[i]) : rows[i].events[k].date > Never
      BY <1>3 DEF Dated, Applications
    <3>2. \A k \in Applications(rows[i]) : rows[i].events[k].date # Never
      BY <3>1 DEF Never
    <3>3. QED
      BY <1>3, <3>2 DEF Dated, DatedUnseen
  <2>3. QED
    BY <1>4, <1>6, <2>1, <2>2 DEF Outgrown
<1>8. RowOf(q.of) = {i}
  BY <1>3, <1>6 DEF RowOf, TrackInv, RowsInv, OneApplication
<1>9. Sound(q)
  BY <1>2, <1>6, <1>7, <1>8 DEF Sound
<1>10. QED
  BY <1>1, <1>5, <1>6, <1>9, MovedTracks

\* It is lost.
LEMMA LoseTracks == ASSUME TrackInv, NEW n \in DOMAIN requests, Lose(n) PROVE TrackInv'
<1> DEFINE q == [requests[n] EXCEPT !.stage = "failed", !.copy = Unread]
<1>1. UNCHANGED <<rows, list, selected, shown>> /\ now' \in Nat \ {0}
  BY TrackTypes DEF Lose, screen
<1>2. requests[n] \in Request /\ Sound(requests[n])
  BY TrackTypes
<1>3. requests' = [requests EXCEPT ![n] = q]
  BY <1>2 DEF Lose, Move, Request
<1>4. /\ q \in Request /\ q.via = requests[n].via /\ q.to = requests[n].to /\ q.stage = "failed"
  BY <1>2 DEF Request, Unread, Never, Statuses
<1> HIDE DEF q
<1>5. Sound(q)
  BY <1>2, <1>4 DEF Sound
<1>6. QED
  BY <1>1, <1>3, <1>4, <1>5, MovedTracks

LEMMA AnswersTrack ==
  ASSUME TrackInv, BulkSettled \/ \E n \in DOMAIN requests : PanelAnswered(n)
  PROVE  TrackInv'
<1>1. UNCHANGED <<rows, list, selected, shown>> /\ now' \in Nat \ {0}
  BY TrackTypes DEF BulkSettled, PanelAnswered, quickView
<1>2. ASSUME NEW n \in DOMAIN requests, PanelAnswered(n) PROVE TrackInv'
  BY <1>1, <1>2, DoneTracks DEF PanelAnswered
<1>3. CASE BulkSettled
  <2> DEFINE T == DOMAIN requests \ Pending("bulk")
  <2> DEFINE others == SetToSeq(T)
  <2>1. requests' = [k \in DOMAIN others |-> requests[others[k]]]
    BY <1>3 DEF BulkSettled
  <2>2. requests \in Seq(SoundOnes')
    BY <1>1, SoundUnwritten
  <2>3. IsFiniteSet(T)
    <3>1. Len(requests) \in Nat /\ T \subseteq 1..Len(requests)
      BY <2>2
    <3> HIDE DEF T
    <3>2. IsFiniteSet(1..Len(requests))
      BY <3>1, FS_Interval
    <3>3. QED
      BY <3>1, <3>2, FS_Subset
  <2>4. others \in Seq(T) /\ \A k \in DOMAIN others : others[k] \in T
    BY <2>3, OrderOf
  <2>5. T \subseteq DOMAIN requests
    OBVIOUS
  <2> HIDE DEF T, others
  <2>6. Len(others) \in Nat /\ DOMAIN others = 1..Len(others)
    BY <2>4
  <2>7. \A k \in 1..Len(others) : requests[others[k]] \in SoundOnes'
    BY <2>2, <2>4, <2>5, <2>6
  <2>8. requests' \in Seq(SoundOnes')
    BY <2>1, <2>6, <2>7
  <2>9. QED
    BY <1>1, <2>8, ScreenKept, RowsUnwritten DEF SoundRequests
<1>4. QED
  BY <1>2, <1>3

LEMMA RefetchTracks == ASSUME TrackInv, Refetched PROVE TrackInv'
<1>1. UNCHANGED <<rows, now, requests, selected, shown>> /\ list' = Summaries(rows)
  BY DEF Refetched, quickView
<1>2. rows \in Seq(Row)
  BY RowsAreDated DEF TrackInv
<1>3. StoredRows'
  BY <1>1 DEF TrackInv, StoredRows
<1>4. SoundRequests'
  BY <1>1, SoundUnwritten DEF SoundRequests
<1>5. list' \in Seq(TRow) /\ DOMAIN list' = DOMAIN rows /\ \A i \in DOMAIN rows : list'[i].of = rows[i].of
  BY <1>1, <1>2, SummariesOf
<1>6. ListedRows'
  BY <1>1, <1>5 DEF ListedRows, Listed
<1>7. OnList'
  BY <1>1, <1>5 DEF TrackInv, ListedRows, OnList, Listed
<1>8. RowsInv'
  BY <1>1 DEF TrackInv, RowsInv, OneApplication
<1>9. QED
  BY <1>3, <1>4, <1>6, <1>7, <1>8 DEF TrackInv

\* An event appended to a row: it is dated still by an application that had seen none before it.
LEMMA AddedRow ==
  ASSUME NEW r \in Row, Dated(r), NEW q \in Request, q.to \in Transitions, q.date > Never,
         Outgrown(q, r), now \in Nat
  PROVE  /\ Added(r, q) \in Row /\ Dated(Added(r, q)) /\ Grown(r, Added(r, q))
         /\ \E k \in DOMAIN Added(r, q).events :
              Added(r, q).events[k].status = q.to /\ Added(r, q).events[k].date = q.date
<1> DEFINE new == [status |-> q.to, date |-> q.date, read |-> q.copy.events]
<1> DEFINE e == r.events
<1> DEFINE f == Append(e, new)
<1> DEFINE s == IF q.to = q.copy.status THEN r.status ELSE q.to
<1> DEFINE d == IF q.to = "APPLIED" /\ q.copy.applied = Never THEN q.date ELSE r.applied
<1> DEFINE a == [r EXCEPT !.status = s, !.applied = d, !.updated = now, !.events = f]
<1>0. q.copy.events \in Nat /\ q.date \in Nat /\ q.to \in Statuses
  BY DEF Request
<1>1. new \in Event /\ new.status = q.to /\ new.date = q.date /\ new.read = q.copy.events
  BY <1>0 DEF Event
<1>2. e \in Seq(Event) /\ r.applied \in Nat /\ d \in Nat /\ s \in Statuses
  BY <1>0 DEF Row
<1>3. Added(r, q) = a
  BY DEF Added, Appended
<1> HIDE DEF new, e
<1>4. /\ f \in Seq(Event) /\ DOMAIN f = DOMAIN e \cup {Len(e) + 1} /\ f[Len(e) + 1] = new
      /\ \A k \in DOMAIN e : f[k] = e[k] /\ k \in Nat /\ k <= Len(e)
      /\ ~(Len(e) + 1 \in DOMAIN e) /\ Len(e) \in Nat /\ Len(f) = Len(e) + 1
  BY <1>1, <1>2, Lengthened
<1> HIDE DEF f, d, s
<1>5. a \in Row /\ a.of = r.of /\ a.applied = d /\ a.events = f
  BY <1>2, <1>4 DEF Row
<1> HIDE DEF a
<1> DEFINE old == Applications(r)
<1> DEFINE all == Applications(a)
<1>6. old = {k \in DOMAIN e : e[k].status = "APPLIED"} /\ all = {k \in DOMAIN f : f[k].status = "APPLIED"}
  BY <1>5 DEF Applications, e
<1>7. /\ old \subseteq DOMAIN e /\ \A k \in old : k \in Nat /\ k <= Len(e) /\ k \in all
      /\ all = IF q.to = "APPLIED" THEN old \cup {Len(e) + 1} ELSE old
  BY <1>1, <1>4, <1>6
<1>8. IF old = {} THEN r.applied = Never
      ELSE \E k \in old : (\A m \in old : m < k => e[k].read < m) /\ r.applied = e[k].date
  BY DEF Dated, DatedUnseen, SawNone, e
<1>9. \A k \in DOMAIN f : f[k].date > Never
  BY <1>1, <1>4 DEF Dated, e
<1> HIDE DEF old, all
\* The row keeps the date of an application it had.
<1>10. ASSUME old # {}, d = r.applied PROVE DatedUnseen(a)
  <2> PICK k \in old : (\A m \in old : m < k => e[k].read < m) /\ r.applied = e[k].date
    BY <1>8, <1>10
  <2>1. k \in all /\ f[k] = e[k] /\ k <= Len(e) /\ k \in Nat
    BY <1>4, <1>7
  <2>2. ASSUME NEW m \in all, m < k PROVE f[k].read < m
    <3>1. m \in old
      BY <1>4, <1>7, <2>1, <2>2
    <3>2. QED
      BY <2>1, <2>2, <3>1
  <2>3. QED
    BY <1>5, <1>10, <2>1, <2>2 DEF DatedUnseen, SawNone, all
\* The new event dates it: its request had seen none of those the row has.
<1>11. ASSUME q.to = "APPLIED", q.copy.applied = Never PROVE DatedUnseen(a)
  <2>1. Len(e) + 1 \in all /\ d = q.date
    BY <1>7, <1>11 DEF d
  <2>2. ASSUME NEW m \in all, m < Len(e) + 1 PROVE new.read < m
    <3>1. m \in old
      BY <1>4, <1>7, <2>2
    <3>2. QED
      BY <1>1, <1>11, <3>1 DEF Outgrown, old
  <2>3. QED
    BY <1>1, <1>4, <1>5, <2>1, <2>2 DEF DatedUnseen, SawNone, all
<1>12. DatedUnseen(a)
  <2>1. CASE q.to # "APPLIED" /\ old = {}
    <3>1. all = {} /\ d = Never
      BY <1>7, <1>8, <2>1 DEF d
    <3>2. QED
      BY <1>5, <3>1 DEF DatedUnseen, all
  <2>2. CASE q.to # "APPLIED" /\ old # {}
    BY <1>10, <2>2 DEF d
  <2>3. CASE q.to = "APPLIED" /\ q.copy.applied # Never
    <3>1. r.applied # Never
      BY <2>3 DEF Outgrown
    <3>2. old # {} /\ d = r.applied
      BY <1>8, <2>3, <3>1 DEF d
    <3>3. QED
      BY <1>10, <3>2
  <2>4. QED
    BY <1>11, <2>1, <2>2, <2>3
<1>13. Grown(r, a)
  <2>1. r.applied # Never => d # Never
    BY DEF d, Never
  <2>2. Len(e) <= Len(f) /\ \A k \in DOMAIN f : k \in DOMAIN e \/ Len(e) < k
    BY <1>4
  <2>3. \A k \in DOMAIN e : k \in DOMAIN f /\ f[k] = e[k]
    BY <1>4
  <2>4. a.of = r.of /\ a.events = f /\ (r.applied # Never => a.applied # Never)
    BY <1>5, <2>1
  <2> HIDE DEF old, all
  <2>5. QED
    BY <2>2, <2>3, <2>4, Zenon DEF Grown, e
<1>14. QED
  BY <1>1, <1>3, <1>4, <1>5, <1>9, <1>12, <1>13 DEF Dated

\* A row inserted for its Analysis: the requests, one of them moved, are sound of the rows there are.
LEMMA InsertTracks == ASSUME TrackInv, NEW n \in DOMAIN requests, Insert(n) PROVE TrackInv'
<1> PICK a : a = requests[n].of
  OBVIOUS
<1>0. /\ requests[n] \in Request /\ Sound(requests[n]) /\ a \in Analyses
      /\ now \in Nat \ {0} /\ now \in Nat /\ now + 1 \in Nat \ {0}
  BY TrackTypes
<1>1. CASE Taken(a)
  <2>1. UNCHANGED <<rows, list, selected, shown>> /\ now' \in Nat \ {0}
    BY <1>0, <1>1 DEF Insert, screen
  <2>2. CASE Done(n)
    BY <2>1, <2>2, DoneTracks
  <2>3. CASE Move(n, "failed")
    <3> DEFINE q == [requests[n] EXCEPT !.stage = "failed", !.copy = Unread]
    <3>1. requests' = [requests EXCEPT ![n] = q]
      BY <1>0, <2>3 DEF Move, Request
    <3>2. q \in Request /\ q.via = requests[n].via /\ q.to = requests[n].to /\ q.stage = "failed"
      BY <1>0 DEF Request, Unread, Never, Statuses
    <3> HIDE DEF q
    <3>3. Sound(q)
      BY <1>0, <3>2 DEF Sound
    <3>4. QED
      BY <2>1, <3>1, <3>2, <3>3, MovedTracks
  <2>4. QED
    BY <1>1, <2>2, <2>3 DEF Insert
<1>2. CASE ~Taken(a)
  <2> PICK r : r = [of |-> a, status |-> "DRAFT", applied |-> Never, updated |-> now, events |-> <<>>]
    OBVIOUS
  <2> PICK q : q = [requests[n] EXCEPT !.stage = "found", !.copy = Unread]
    OBVIOUS
  <2>1. /\ rows' = Append(rows, r) /\ now' = now + 1 /\ requests' = [requests EXCEPT ![n] = q]
        /\ UNCHANGED <<list, selected, shown>>
    BY <1>0, <1>2 DEF Insert, Move, screen, Request
  <2>2. r \in Row /\ r.of = a /\ r.events = <<>> /\ r.applied = Never
    BY <1>0 DEF Row, Statuses, Never
  <2>3. Dated(r)
    <3>1. DOMAIN r.events = {}
      BY <2>2
    <3>2. Applications(r) = {}
      BY <3>1 DEF Applications
    <3>3. QED
      BY <2>2, <3>1, <3>2 DEF Dated, DatedUnseen
  <2>4. /\ q \in Request /\ q.via = requests[n].via /\ q.of = a /\ q.to = requests[n].to
        /\ q.stage = "found"
    BY <1>0 DEF Request, Unread, Never, Statuses
  <2>5. rows \in Seq(DatedRows) /\ r \in DatedRows
    BY <2>2, <2>3 DEF TrackInv, StoredRows, DatedRows
  <2>6. /\ rows' \in Seq(DatedRows) /\ DOMAIN rows' = DOMAIN rows \cup {Len(rows) + 1}
        /\ rows'[Len(rows) + 1] = r /\ \A i \in DOMAIN rows : rows'[i] = rows[i]
    BY <2>1, <2>5, Lengthened
  <2>7. StoredRows'
    BY <1>0, <2>1, <2>6 DEF StoredRows
  <2>8. SoundOnes \subseteq SoundOnes'
    <3>1. \A i \in DOMAIN rows : rows[i] \in Row /\ rows'[i] = rows[i]
      BY <2>6, RowsAreDated DEF TrackInv
    <3>2. \A i \in DOMAIN rows : Grown(rows[i], rows'[i])
      BY <3>1 DEF Grown, Row
    <3>3. \A i \in DOMAIN rows' \ DOMAIN rows : RowOf(rows'[i].of) = {}
      BY <1>2, <2>2, <2>6 DEF Taken
    <3>4. QED
      BY <2>6, <3>1, <3>2, <3>3, SoundStay DEF RowsGrow
  <2>9. Sound(q)'
    <3>1. Len(rows) + 1 \in RowOf(a)'
      BY <2>2, <2>6 DEF RowOf
    <3>2. q.via # "documents" => q.to \in Transitions
      BY <1>0, <2>4 DEF Sound
    <3>3. QED
      BY <2>4, <3>1, <3>2 DEF Sound
  <2>10. q \in SoundOnes'
    BY <2>4, <2>9, SoundNext
  <2>11. requests \in Seq(SoundOnes')
    BY <2>8, SeqMonotonic DEF TrackInv, SoundRequests
  <2>12. SoundRequests'
    BY <2>1, <2>10, <2>11, Replaced DEF SoundRequests
  <2>13. ListedRows'
    BY <2>1, <2>6 DEF TrackInv, ListedRows, Listed
  <2>14. OnList'
    BY <2>1, ScreenKept
  <2>15. RowsInv'
    BY InsertRows DEF TrackInv
  <2>16. QED
    BY <2>7, <2>12, <2>13, <2>14, <2>15 DEF TrackInv
<1>3. QED
  BY <1>1, <1>2

\* An event appended to the row of its Analysis: that row has it, no row loses one.
LEMMA AppendTracks == ASSUME TrackInv, NEW n \in DOMAIN requests, AppendEvent(n) PROVE TrackInv'
<1> PICK a : a = requests[n].of
  OBVIOUS
<1> PICK w : w = requests[n]
  OBVIOUS
<1> PICK q : q = [w EXCEPT !.stage = "added", !.copy = Unread]
  OBVIOUS
<1>0. /\ w \in Request /\ Sound(w) /\ a \in Analyses /\ w.of = a /\ w.stage = "writing"
      /\ now \in Nat \ {0} /\ now \in Nat /\ now + 1 \in Nat \ {0}
  BY TrackTypes DEF AppendEvent
<1>1. /\ rows' = [i \in DOMAIN rows |-> IF rows[i].of = a THEN Added(rows[i], w) ELSE rows[i]]
      /\ now' = now + 1 /\ UNCHANGED <<list, selected, shown>>
      /\ Done(n) \/ requests' = [requests EXCEPT ![n] = q]
  BY <1>0 DEF AppendEvent, Move, screen, Request
<1>2. /\ w.to \in Transitions /\ w.date > Never /\ RowOf(a) # {}
      /\ \A i \in RowOf(a) : Outgrown(w, rows[i])
  BY <1>0 DEF Sound
<1>3. /\ q \in Request /\ q.via = w.via /\ q.of = a /\ q.to = w.to /\ q.date = w.date
      /\ q.stage = "added"
  BY <1>0 DEF Request, Unread, Never, Statuses
<1>4. rows \in Seq(Row) /\ \A i \in DOMAIN rows : rows[i] \in Row /\ Dated(rows[i])
  BY RowsAreDated DEF TrackInv
<1>5. DOMAIN rows' = DOMAIN rows
  BY <1>1
<1>6. ASSUME NEW i \in DOMAIN rows
      PROVE  /\ rows'[i] \in Row /\ Dated(rows'[i]) /\ Grown(rows[i], rows'[i])
             /\ rows[i].of = a => \E k \in DOMAIN rows'[i].events :
                                    /\ rows'[i].events[k].status = w.to
                                    /\ rows'[i].events[k].date = w.date
  <2>1. CASE rows[i].of = a
    <3>1. rows'[i] = Added(rows[i], w)
      BY <1>1, <2>1
    <3>2. rows[i] \in Row /\ Dated(rows[i]) /\ Outgrown(w, rows[i])
      BY <1>2, <1>4, <2>1 DEF RowOf
    <3>3. QED
      BY <1>0, <1>2, <3>1, <3>2, AddedRow
  <2>2. CASE rows[i].of # a
    <3>1. rows'[i] = rows[i] /\ rows[i] \in Row
      BY <1>1, <1>4, <2>2
    <3>2. Grown(rows[i], rows[i])
      BY <3>1 DEF Grown, Row
    <3>3. QED
      BY <1>4, <2>2, <3>1, <3>2
  <2>3. QED
    BY <2>1, <2>2
<1>7. StoredRows'
  <2>1. Len(rows) \in Nat /\ DOMAIN rows = 1..Len(rows)
    BY <1>4
  <2>2. \A i \in 1..Len(rows) : rows'[i] \in DatedRows
    BY <1>6, <2>1 DEF DatedRows
  <2>3. rows' \in Seq(DatedRows)
    BY <1>1, <2>1, <2>2
  <2>4. QED
    BY <1>0, <1>1, <2>3 DEF StoredRows
<1>8. SoundOnes \subseteq SoundOnes'
  <2>1. RowsGrow
    BY <1>5, <1>6 DEF RowsGrow
  <2>2. QED
    BY <2>1, SoundStay
<1>9. requests \in Seq(SoundOnes')
  BY <1>8, SeqMonotonic DEF TrackInv, SoundRequests
<1>10. q \in SoundOnes'
  <2>1. PICK i \in DOMAIN rows : rows[i].of = a
    BY <1>2 DEF RowOf
  <2>2. rows'[i].of = a
    BY <1>6, <2>1 DEF Grown
  <2>3. Recorded(q)'
    BY <1>3, <1>5, <1>6, <2>1, <2>2 DEF Recorded, RowOf
  <2>4. Sound(q)'
    BY <1>2, <1>3, <2>3 DEF Sound
  <2>5. QED
    BY <1>3, <2>4, SoundNext
<1>11. SoundRequests'
  <2>1. CASE Done(n)
    BY <1>9, <2>1, TakenOut DEF SoundRequests, Done
  <2>2. CASE requests' = [requests EXCEPT ![n] = q]
    BY <1>9, <1>10, <2>2, Replaced DEF SoundRequests
  <2>3. QED
    BY <1>1, <2>1, <2>2
<1>12. ListedRows'
  <2>1. \A i \in DOMAIN rows : rows'[i].of = rows[i].of
    BY <1>6 DEF Grown
  <2>2. QED
    BY <1>1, <1>5, <2>1 DEF TrackInv, ListedRows, Listed
<1>13. OnList'
  BY <1>1, ScreenKept
<1>14. RowsInv'
  BY AppendRows DEF TrackInv
<1>15. QED
  BY <1>7, <1>11, <1>12, <1>13, <1>14 DEF TrackInv

LEMMA NextTracks == TrackInv /\ [Next]_vars => TrackInv'
<1> SUFFICES ASSUME TrackInv, [Next]_vars PROVE TrackInv'
  OBVIOUS
<1>1. CASE \/ \E filter \in Filters : FilterByStatus(filter)
           \/ \E size \in PageSizes : Resize(size)
           \/ SortAgain \/ TurnPage
  BY <1>1, ShowsTracks DEF FilterByStatus, Resize, SortAgain, TurnPage
<1>2. CASE \/ TogglePage \/ SelectAllFiltered \/ ClearSelection \/ Refresh
           \/ \E i \in Listed : OnRow(i)
  BY <1>2, TogglesTrack
<1>3. ASSUME NEW to \in Transitions, BulkStatus(to) \/ PanelStatus(to) PROVE TrackInv'
  BY <1>3, BulkTracks, PanelTracks
<1>4. CASE Close \/ Suivant \/ Precedent
  BY <1>4, StepsTrack
<1>5. CASE Elsewhere
  BY <1>5, ElsewhereTracks
<1>6. ASSUME NEW n \in DOMAIN requests,
             \/ Ask(n) \/ Insert(n) \/ Stamp(n) \/ ReadRow(n) \/ AppendEvent(n)
             \/ Lose(n) \/ PanelAnswered(n)
      PROVE  TrackInv'
  BY <1>6, AskTracks, InsertTracks, StampTracks, ReadTracks, AppendTracks, LoseTracks, AnswersTrack
<1>7. CASE BulkSettled \/ Refetched
  BY <1>7, AnswersTrack, RefetchTracks
<1>8. CASE UNCHANGED vars
  <2>1. UNCHANGED <<rows, list, now, requests, selected, shown>>
    BY <1>8 DEF vars
  <2>2. QED
    BY <2>1, ScreenKept, ScreenOnly
<1>9. QED
  BY <1>1, <1>2, <1>3, <1>4, <1>5, <1>6, <1>7, <1>8 DEF Next

LEMMA TracksAlways == Spec => []TrackInv
  BY InitTracks, NextTracks, PTL DEF Spec

\* Whatever is recorded, undone and recorded again, by this page or another, a row is dated by an
\* application it records, whose request saw no earlier one; a request that overlaps the first one
\* may move the date, one that follows it may not (add_status_event).
THEOREM AppliedIsDated == Spec => []AppliedDated
<1>1. TrackInv => AppliedDated
  BY RowsAreDated DEF TrackInv, Dated, AppliedDated
<1>2. QED
  BY <1>1, TracksAlways, PTL

\* A bulk change that settles without an error has its event in the row of every Analysis it asked
\* for, whichever other requests came between (useBulkAddStatusEvent).
THEOREM BulkIsTrue == Spec => BulkTellsFailures
<1> DEFINE Told == BulkSettled /\ ~bulkError' =>
                     \A n \in Pending("bulk") : \E i \in RowOf(requests[n].of) :
                       \E k \in DOMAIN rows[i].events :
                         /\ rows[i].events[k].status = requests[n].to
                         /\ rows[i].events[k].date = requests[n].date
<1>1. TrackInv => Told
  <2> SUFFICES ASSUME TrackInv, BulkSettled, ~bulkError', NEW n \in Pending("bulk")
               PROVE  Recorded(requests[n])
    BY DEF Recorded
  <2>1. n \in DOMAIN requests /\ requests[n].stage \in {"added", "failed"}
    BY DEF BulkSettled, Pending
  <2>2. requests[n].stage = "added"
    BY <2>1 DEF BulkSettled, SomeFailed
  <2>3. QED
    BY <2>1, <2>2, TrackTypes DEF Sound
<1>2. Spec => [][Told]_vars
  BY <1>1, TracksAlways, PTL DEF Spec
<1>3. QED
  BY <1>2, PTL DEF BulkTellsFailures

-----------------------------------------------------------------------------
(* The Applications page: what it was told of *)

\* A step that writes neither the rows nor the list, and tells of nothing unless it refetches.
LEMMA ToldUnwritten ==
  ASSUME ListCatchesUp, UNCHANGED <<rows, list>>, stale' \/ UNCHANGED <<stale, untold>>
  PROVE  ListCatchesUp'
  BY DEF ListCatchesUp, Listed

LEMMA NextTold == TrackInv /\ ListCatchesUp /\ [Next]_vars => ListCatchesUp'
<1> SUFFICES ASSUME TrackInv, ListCatchesUp, [Next]_vars PROVE ListCatchesUp'
  OBVIOUS
<1>1. CASE UNCHANGED <<rows, list>> /\ (stale' \/ UNCHANGED <<stale, untold>>)
  BY <1>1, ToldUnwritten
<1>2. CASE \/ \E filter \in Filters : FilterByStatus(filter)
           \/ \E size \in PageSizes : Resize(size)
           \/ SortAgain \/ TurnPage
  BY <1>1, <1>2 DEF FilterByStatus, Resize, SortAgain, TurnPage, Shows, OnTable, server
<1>3. CASE \/ TogglePage \/ SelectAllFiltered \/ ClearSelection \/ Refresh
           \/ \E i \in Listed : OnRow(i)
  BY <1>1, <1>3 DEF TogglePage, SelectAllFiltered, ClearSelection, Refresh, OnRow, Toggle, Open,
                    Selects, OnTable, server
<1>4. CASE \/ \E to \in Transitions : BulkStatus(to) \/ PanelStatus(to)
           \/ Close \/ Suivant \/ Precedent \/ Elsewhere
  BY <1>1, <1>4 DEF BulkStatus, PanelStatus, Close, Suivant, Precedent, GoTo, Elsewhere, OnTable,
                    server
<1>5. ASSUME NEW n \in DOMAIN requests,
             Ask(n) \/ Stamp(n) \/ ReadRow(n) \/ Lose(n) \/ PanelAnswered(n)
      PROVE  ListCatchesUp'
  <2>1. CASE Ask(n) \/ Stamp(n) \/ ReadRow(n) \/ Lose(n)
    BY <1>1, <2>1 DEF Ask, Stamp, ReadRow, Lose, server, screen
  <2>2. CASE PanelAnswered(n) /\ requests[n].stage = "added"
    BY <1>1, <2>2 DEF PanelAnswered
  <2>3. CASE PanelAnswered(n) /\ requests[n].stage # "added"
    <3>1. UNCHANGED <<rows, list, untold>> /\ (stale' <=> stale)
      BY <2>3 DEF PanelAnswered
    <3>2. QED
      BY <3>1 DEF ListCatchesUp, Listed
  <2>4. QED
    BY <1>5, <2>1, <2>2, <2>3
<1>6. CASE BulkSettled \/ UNCHANGED vars
  BY <1>1, <1>6 DEF BulkSettled, vars
<1>7. ASSUME NEW n \in DOMAIN requests, Insert(n) PROVE ListCatchesUp'
  <2>1. CASE UNCHANGED <<rows, untold>>
    BY <1>1, <1>7, <2>1 DEF Insert, screen
  <2>2. CASE ~Taken(requests[n].of)
    <3> DEFINE new == [of |-> requests[n].of, status |-> "DRAFT", applied |-> Never,
                       updated |-> now, events |-> <<>>]
    <3>1. /\ rows' = Append(rows, new) /\ untold' = untold \cup {requests[n].of}
          /\ UNCHANGED <<list, stale>>
      BY <1>7, <2>2 DEF Insert, screen
    <3>2. new.of = requests[n].of
      OBVIOUS
    <3> HIDE DEF new
    <3>3. /\ DOMAIN rows' = DOMAIN rows \cup {Len(rows) + 1} /\ rows'[Len(rows) + 1] = new
          /\ \A i \in DOMAIN rows : rows'[i] = rows[i]
      BY <3>1, RowsAreDated DEF TrackInv
    <3>4. QED
      BY <3>1, <3>2, <3>3 DEF ListCatchesUp, Listed
  <2>3. QED
    BY <1>7, <2>1, <2>2 DEF Insert
<1>8. ASSUME NEW n \in DOMAIN requests, AppendEvent(n) PROVE ListCatchesUp'
  <2>1. /\ rows' = [i \in DOMAIN rows |->
                      IF rows[i].of = requests[n].of THEN Added(rows[i], requests[n]) ELSE rows[i]]
        /\ untold' = untold \cup {requests[n].of} /\ UNCHANGED <<list, stale>>
    BY <1>8 DEF AppendEvent, screen
  <2>2. ASSUME NEW i \in DOMAIN rows, rows'[i].of # requests[n].of PROVE rows'[i] = rows[i]
    <3>1. rows[i].of = requests[n].of =>
            rows'[i] = Added(rows[i], requests[n])
      BY <2>1
    <3>2. Added(rows[i], requests[n]).of = rows[i].of
      BY TrackTypes DEF Added, Row
    <3>3. QED
      BY <2>1, <2>2, <3>1, <3>2
  <2>3. QED
    BY <2>1, <2>2 DEF ListCatchesUp, Listed
<1>9. CASE Refetched
  <2>1. list' = Summaries(rows) /\ UNCHANGED rows
    BY <1>9 DEF Refetched
  <2>2. \A i \in DOMAIN rows : i \in DOMAIN list' /\ list'[i] = Summary(rows[i])
    BY <2>1, SummariesOf, RowsAreDated DEF TrackInv
  <2>3. QED
    BY <2>1, <2>2 DEF ListCatchesUp, Listed
<1>10. QED
  BY <1>2, <1>3, <1>4, <1>5, <1>6, <1>7, <1>8, <1>9 DEF Next

LEMMA InitTold == Init => ListCatchesUp
  BY SummariesOf, TrackingAssumption DEF Init, ListCatchesUp, Listed

-----------------------------------------------------------------------------
(* The Analyses table: what it was told of *)

\* What the table shows of a row that nobody changed behind its back.  Refetching waits for nothing:
\* a request under way makes the list stale again when it is answered.
Told == ~tStale => \A a \in Table!Ids \ unheard : tList[a] = row[a]

LEMMA TableTold == Told /\ [Table!Next]_Table!vars => Told'
<1> SUFFICES ASSUME Told, [Table!Next]_Table!vars PROVE Told'
  OBVIOUS
<1>1. CASE UNCHANGED <<row, tList, tStale, unheard>>
  BY <1>1 DEF Told
<1>2. CASE tStale'
  BY <1>2 DEF Told
<1>3. CASE \/ \E filter \in Table!Filters : Table!FilterByStatus(filter)
           \/ \E cv \in {"all"} \cup Table!Labels : Table!FilterByCv(cv)
           \/ \E size \in PageSizes : Table!Resize(size)
           \/ Table!SortAgain \/ Table!ClearFilters \/ Table!TurnPage
  BY <1>1, <1>3 DEF Table!FilterByStatus, Table!FilterByCv, Table!Resize, Table!SortAgain,
    Table!ClearFilters, Table!TurnPage, Table!OnTable, Table!DropsSelection, Table!KeepsSelection
<1>4. CASE Table!TogglePage \/ Table!SelectAllFiltered \/ Table!ClearSelection
  BY <1>1, <1>4 DEF Table!TogglePage, Table!SelectAllFiltered, Table!ClearSelection, Table!OnTable,
    Table!Selects
<1>5. CASE Table!Refresh \/ Table!PanelAnswered \/ Table!BulkAnswered
  BY <1>2, <1>5 DEF Table!Refresh, Table!PanelAnswered, Table!BulkAnswered
<1>6. CASE Table!Reload
  BY <1>6 DEF Table!Reload, Told
<1>7. CASE \E to \in Table!Transitions : Table!BulkStatus(to) \/ Table!PanelStatus(to)
  BY <1>1, <1>7 DEF Table!BulkStatus, Table!PanelStatus, Table!OnTable, Table!data
<1>8. ASSUME NEW a \in Table!Ids, Table!OnRow(a) PROVE Told'
  BY <1>1, <1>8 DEF Table!OnRow, Table!Toggle, Table!Open, Table!OnTable, Table!Selects, Table!data
<1>9. ASSUME NEW a \in Table!Ids, Table!AnalysisEnds(a) PROVE Told'
  <2>1. /\ UNCHANGED <<tList, tStale>> /\ unheard' = unheard \cup {a}
        /\ row' = [row EXCEPT ![a].status = "COMPLETED"]
    BY <1>9 DEF Table!AnalysisEnds
  <2>2. \A b : b # a => row'[b] = row[b]
    BY <2>1
  <2>3. QED
    BY <2>1, <2>2 DEF Told
<1>10. CASE Table!Close \/ Table!Suivant \/ Table!Precedent \/ Table!Relaunch
  BY <1>1, <1>10 DEF Table!Close, Table!Suivant, Table!Precedent, Table!GoTo, Table!Relaunch, Table!data
<1>11. CASE Table!RelaunchAnswered
  <2> DEFINE new == Table!Min(Table!NewRows)
  <2>1. CASE tStale'
    BY <1>2, <2>1
  <2>2. CASE ~tStale'
    <3>1. /\ row' = [row EXCEPT ![new].status = "RUNNING"]
          /\ UNCHANGED <<tList, tStale>> /\ unheard' = unheard \cup {new}
      BY <1>11, <2>2 DEF Table!RelaunchAnswered
    <3> HIDE DEF new
    <3>2. \A b : b # new => row'[b] = row[b]
      BY <3>1
    <3>3. QED
      BY <3>1, <3>2 DEF Told
  <2>3. QED
    BY <2>1, <2>2
<1>12. CASE Table!PanelFails
  <2>1. UNCHANGED <<tList, tStale>>
    BY <1>12 DEF Table!PanelFails
  <2>2. CASE row' = Table!Applied(panel.ids, panel.to) /\ unheard' = unheard \cup panel.ids
    <3>1. \A b \in Table!Ids : ~(b \in panel.ids) => row'[b] = row[b]
      BY <2>2 DEF Table!Applied
    <3>2. QED
      BY <2>1, <2>2, <3>1 DEF Told
  <2>3. CASE UNCHANGED <<row, unheard>>
    BY <1>1, <2>1, <2>3
  <2>4. QED
    BY <1>12, <2>2, <2>3 DEF Table!PanelFails
<1>13. CASE Table!Refetched
  BY <1>13 DEF Table!Refetched, Told
<1>14. CASE UNCHANGED Table!vars
  BY <1>1, <1>14 DEF Table!vars
<1>15. QED
  BY <1>3, <1>4, <1>5, <1>6, <1>7, <1>8, <1>9, <1>10, <1>11, <1>12, <1>13, <1>14 DEF Table!Next

\* What was asked of this page, or answered to it, is what it shows when nothing is being fetched:
\* of the Applications page, whose list misses only what it was not told of, and of the Analyses
\* table, bulk changes, panel changes and relaunches included.
THEOREM CachesOfInstance == SpecParts => []CachesCatchUp
<1> DEFINE Caches == TrackInv /\ ListCatchesUp /\ Told
<1>1. InitParts => Caches
  BY InitTracks, InitTold DEF InitParts, Table!Init, Told
<1>2. Caches /\ [NextParts]_parts => Caches'
  <2>1. [NextParts]_parts => [Next]_vars /\ [Table!Next]_Table!vars
    BY DEF NextParts, OfTracking, OfTable, OfDocuments, parts, table, documents, vars, Table!vars
  <2>2. QED
    BY <2>1, NextTracks, NextTold, TableTold
<1>3. Caches => CachesCatchUp
  BY DEF Told, CachesCatchUp, Table!ListCatchesUp
<1>4. QED
  BY <1>1, <1>2, <1>3, PTL DEF SpecParts

-----------------------------------------------------------------------------
(* The documents: what the list knows of them *)

Shaped(d) == DOMAIN d = {"of", "type", "status", "by"}
ShapedDocs == (\E S : docs \in Seq(S)) /\ \A i \in DOMAIN docs : Shaped(docs[i])
TypedRuns == runs \in Seq(Panel!Run)
KnownDocs == ShapedDocs /\ TypedRuns /\ Panel!ListKnowsDocuments

\* The instance's own copies of what the library defines.
LEMMA SameCardinality ==
  ASSUME NEW S
  PROVE  Panel!Cardinality(S) = Cardinality(S) /\ Table!Cardinality(S) = Cardinality(S)
         /\ Panel!IsFiniteSet(S) = IsFiniteSet(S)
  BY DEF Panel!Cardinality, Table!Cardinality, Cardinality, Panel!IsFiniteSet, IsFiniteSet

LEMMA SequenceOf == ASSUME NEW T, NEW n \in Nat, NEW f \in [1..n -> T] PROVE f \in Seq(T)
  OBVIOUS

\* A document made, at the end of the others.
LEMMA MadeDoc ==
  ASSUME ShapedDocs, NEW a, NEW t, docs' = Append(docs, Panel!NewDoc(a, t))
  PROVE  /\ ShapedDocs' /\ Len(docs') = Len(docs) + 1
         /\ DOMAIN docs' = DOMAIN docs \cup {Len(docs')}
         /\ \A i \in DOMAIN docs : docs'[i] = docs[i]
<1> PICK S : docs \in Seq(S)
  BY DEF ShapedDocs
<1> PICK d : d = Panel!NewDoc(a, t)
  OBVIOUS
<1>1. Shaped(d)
  BY DEF Shaped, Panel!NewDoc
<1>2. /\ docs' \in Seq(S \cup {d}) /\ DOMAIN docs' = DOMAIN docs \cup {Len(docs) + 1}
      /\ docs'[Len(docs) + 1] = d /\ \A i \in DOMAIN docs : docs'[i] = docs[i]
      /\ Len(docs') = Len(docs) + 1
  OBVIOUS
<1>3. \A i \in DOMAIN docs' : Shaped(docs'[i])
  BY <1>1, <1>2 DEF ShapedDocs
<1>4. ShapedDocs'
  BY <1>2, <1>3 DEF ShapedDocs
<1>5. QED
  BY <1>2, <1>4

LEMMA ManyMade ==
  ASSUME ShapedDocs, NEW T, NEW s \in Seq(T), \A k \in DOMAIN s : Shaped(s[k]), docs' = docs \o s
  PROVE  ShapedDocs' /\ \A m \in DOMAIN docs : m \in DOMAIN docs' /\ docs'[m] = docs[m]
<1> PICK S : docs \in Seq(S)
  BY DEF ShapedDocs
<1> DEFINE U == S \cup T
<1>1. docs \in Seq(U) /\ s \in Seq(U)
  BY SeqMonotonic
<1> HIDE DEF U
<1>2. /\ docs' \in Seq(U)
      /\ \A m \in DOMAIN docs' : \/ m \in DOMAIN docs /\ docs'[m] = docs[m]
                               \/ \E k \in DOMAIN s : docs'[m] = s[k]
  BY <1>1, Joined
<1>3. /\ Len(docs') = Len(docs) + Len(s)
      /\ \A m \in 1..(Len(docs) + Len(s)) :
           docs'[m] = IF m <= Len(docs) THEN docs[m] ELSE s[m - Len(docs)]
  BY <1>1, ConcatProperties
<1>4. Len(docs) \in Nat /\ Len(s) \in Nat /\ DOMAIN docs = 1..Len(docs) /\ DOMAIN docs' = 1..Len(docs')
  BY <1>1, <1>2
<1>5. \A m \in DOMAIN docs : m \in DOMAIN docs' /\ docs'[m] = docs[m]
  BY <1>3, <1>4
<1>6. \A m \in DOMAIN docs' : Shaped(docs'[m])
  BY <1>2 DEF ShapedDocs
<1>7. QED
  BY <1>2, <1>5, <1>6 DEF ShapedDocs

\* The list misses no more documents than it did, but those the page is not told of.
LEMMA DocsKnown ==
  ASSUME Panel!ListKnowsDocuments, UNCHANGED pList, pStale' \/ UNCHANGED pStale,
         pUntold \subseteq pUntold',
         \A i \in DOMAIN docs' :
           \/ i \in pUntold'
           \/ i \in DOMAIN docs /\ docs'[i].of = docs[i].of /\ docs'[i].type = docs[i].type
              /\ (docs'[i].by = Panel!NoDoc => docs[i].by = Panel!NoDoc)
  PROVE  Panel!ListKnowsDocuments'
<1>1. CASE pStale'
  BY <1>1 DEF Panel!ListKnowsDocuments
<1>2. CASE UNCHANGED pStale
  <2>1. \A a, t : Panel!Current(a, t)' \subseteq Panel!Current(a, t) \cup pUntold'
    BY DEF Panel!Current
  <2>2. QED
    BY <1>2, <2>1 DEF Panel!ListKnowsDocuments
<1>3. QED
  BY <1>1, <1>2

LEMMA DocsUnwritten ==
  ASSUME KnownDocs, UNCHANGED <<docs, pList, pUntold>>, pStale' \/ UNCHANGED pStale, TypedRuns'
  PROVE  KnownDocs'
<1>1. ShapedDocs'
  BY DEF KnownDocs, ShapedDocs
<1>2. QED
  BY <1>1, DocsKnown DEF KnownDocs

\* A request served makes a document this page is not told of by the list.
LEMMA ServedKnown ==
  ASSUME KnownDocs, UNCHANGED <<pList, pStale, runs>>,
         \/ UNCHANGED <<docs, pUntold>>
         \/ \E a, t : docs' = Append(docs, Panel!NewDoc(a, t)) /\ pUntold' = pUntold \cup {Len(docs')}
  PROVE  KnownDocs'
<1>0. TypedRuns'
  BY DEF KnownDocs, TypedRuns
<1>1. CASE UNCHANGED <<docs, pUntold>>
  BY <1>0, <1>1, DocsUnwritten
<1>2. ASSUME NEW a, NEW t, docs' = Append(docs, Panel!NewDoc(a, t)), pUntold' = pUntold \cup {Len(docs')}
      PROVE  KnownDocs'
  <2>1. ShapedDocs' /\ DOMAIN docs' = DOMAIN docs \cup {Len(docs')} /\ \A i \in DOMAIN docs : docs'[i] = docs[i]
    BY <1>2, MadeDoc DEF KnownDocs
  <2>2. QED
    BY <1>0, <1>2, <2>1, DocsKnown DEF KnownDocs
<1>3. QED
  BY <1>1, <1>2

LEMMA AtTheEnd ==
  ASSUME NEW T, NEW s \in Seq(T), NEW d
  PROVE  /\ Append(s, d) \in Seq(T \cup {d}) /\ DOMAIN Append(s, d) = DOMAIN s \cup {Len(s) + 1}
         /\ Append(s, d)[Len(s) + 1] = d /\ \A k \in DOMAIN s : Append(s, d)[k] = s[k]
         /\ Len(Append(s, d)) = Len(s) + 1
  OBVIOUS

\* Regenerating one supersedes it first.
LEMMA SupersededKnown ==
  ASSUME KnownDocs, UNCHANGED <<pList, pStale, runs>>, NEW i,
         \/ docs' = Panel!Regenerated(i) /\ pUntold' = pUntold \cup {Len(docs')}
         \/ UNCHANGED <<docs, pUntold>>
  PROVE  KnownDocs'
<1>1. CASE UNCHANGED <<docs, pUntold>>
  BY <1>1, ServedKnown
<1>2. CASE docs' = Panel!Regenerated(i) /\ pUntold' = pUntold \cup {Len(docs')}
  <2> PICK S : docs \in Seq(S)
    BY DEF KnownDocs, ShapedDocs
  <2> PICK old : old = [docs EXCEPT ![i].by = Len(docs) + 1]
    OBVIOUS
  <2> PICK d : d = Panel!NewDoc(docs[i].of, docs[i].type)
    OBVIOUS
  <2>1. docs' = Append(old, d) /\ pUntold' = pUntold \cup {Len(docs')} /\ UNCHANGED <<pList, pStale, runs>>
    BY <1>2 DEF Panel!Regenerated
  <2>2. Len(docs) \in Nat /\ DOMAIN old = 1..Len(docs) /\ DOMAIN docs = 1..Len(docs)
    OBVIOUS
  <2>3. \A k \in DOMAIN docs :
          /\ Shaped(old[k]) /\ old[k].of = docs[k].of /\ old[k].type = docs[k].type
          /\ (old[k].by = Panel!NoDoc => docs[k].by = Panel!NoDoc)
    BY <2>2 DEF KnownDocs, ShapedDocs, Shaped, Panel!NoDoc
  <2>4. Shaped(d)
    BY DEF Shaped, Panel!NewDoc
  <2> DEFINE T == {old[k] : k \in 1..Len(docs)}
  <2>5. old \in Seq(T)
    <3>1. old = [k \in 1..Len(docs) |-> old[k]]
      BY <2>2
    <3>2. \A k \in 1..Len(docs) : old[k] \in T
      OBVIOUS
    <3> HIDE DEF T
    <3>3. old \in [1..Len(docs) -> T]
      BY <3>1, <3>2
    <3>4. QED
      BY <2>2, <3>3, SequenceOf
  <2> HIDE DEF T
  <2>6. /\ docs' \in Seq(T \cup {d}) /\ DOMAIN docs' = DOMAIN docs \cup {Len(docs) + 1}
        /\ docs'[Len(docs) + 1] = d /\ \A k \in DOMAIN docs : docs'[k] = old[k]
        /\ Len(docs') = Len(docs) + 1
    <3>1. docs' = Append(old, d)
      BY <2>1
    <3>2. Len(old) = Len(docs)
      BY <2>2, <2>5
    <3>3. /\ Append(old, d) \in Seq(T \cup {d}) /\ DOMAIN Append(old, d) = DOMAIN old \cup {Len(old) + 1}
          /\ Append(old, d)[Len(old) + 1] = d /\ \A k \in DOMAIN old : Append(old, d)[k] = old[k]
          /\ Len(Append(old, d)) = Len(old) + 1
      BY <2>5, AtTheEnd
    <3>4. QED
      BY <2>2, <3>1, <3>2, <3>3, Zenon
  <2>7. \A k \in DOMAIN docs' : Shaped(docs'[k])
    BY <2>3, <2>4, <2>6
  <2>8. ShapedDocs'
    BY <2>6, <2>7 DEF ShapedDocs
  <2>9. \A k \in DOMAIN docs' :
          \/ k \in pUntold'
          \/ k \in DOMAIN docs /\ docs'[k].of = docs[k].of /\ docs'[k].type = docs[k].type
             /\ (docs'[k].by = Panel!NoDoc => docs[k].by = Panel!NoDoc)
    BY <2>1, <2>3, <2>6
  <2>10. QED
    BY <2>1, <2>8, <2>9, DocsKnown DEF KnownDocs, TypedRuns
<1>3. QED
  BY <1>1, <1>2

\* Its answer may be heard or not.
LEMMA RegeneratedKnown ==
  ASSUME KnownDocs,
         \/ \E t \in Types : Panel!RegenerateAnswered(t)
         \/ \E i \in Panel!Ids : Panel!LateRegenerated(i)
  PROVE  KnownDocs'
<1>1. ASSUME NEW t \in Types, Panel!RegenerateAnswered(t) PROVE KnownDocs'
  BY <1>1, SupersededKnown DEF Panel!RegenerateAnswered, Panel!bulk
<1>2. ASSUME NEW i \in Panel!Ids, Panel!LateRegenerated(i) PROVE KnownDocs'
  BY <1>2, SupersededKnown DEF Panel!LateRegenerated, Panel!bulk
<1>3. QED
  BY <1>1, <1>2

\* A run that ends makes its documents; the page hears of the last run only.
LEMMA BulkKnown == ASSUME KnownDocs, NEW n \in DOMAIN runs, Panel!BulkAnswered(n) PROVE KnownDocs'
<1>1. runs[n].targets \subseteq PanelAnalyses /\ runs' = [runs EXCEPT ![n].open = FALSE]
  <2>1. runs[n] \in Panel!Run
    BY DEF KnownDocs, TypedRuns
  <2>2. QED
    BY <2>1 DEF Panel!BulkAnswered, Panel!Run
<1>2. TypedRuns'
  <2>1. \A r \in Panel!Run : [r EXCEPT !.open = FALSE] \in Panel!Run
    BY DEF Panel!Run
  <2>2. QED
    BY <1>1, <2>1 DEF KnownDocs, TypedRuns
<1>3. PICK made \in SUBSET runs[n].targets :
        \E order \in [1..Panel!Cardinality(made) -> made] :
          docs' = docs \o [k \in DOMAIN order |-> Panel!NewDoc(order[k], runs[n].type)]
  BY DEF Panel!BulkAnswered
<1>4. PICK order \in [1..Cardinality(made) -> made] :
        docs' = docs \o [k \in DOMAIN order |-> Panel!NewDoc(order[k], runs[n].type)]
  BY <1>3, SameCardinality
<1> PICK made2 : made2 = [k \in DOMAIN order |-> Panel!NewDoc(order[k], runs[n].type)]
  OBVIOUS
<1>5. Cardinality(made) \in Nat
  <2>1. IsFiniteSet(PanelAnalyses) /\ made \subseteq PanelAnalyses
    BY <1>1, <1>3, PartsAssumption, SameCardinality DEF Panel!PanelAssumption
  <2>2. IsFiniteSet(made)
    BY <2>1, FS_Subset
  <2>3. QED
    BY <2>2, FS_CardinalityType
<1> DEFINE T == {made2[k] : k \in 1..Cardinality(made)}
<1>6. made2 \in Seq(T) /\ DOMAIN made2 = 1..Cardinality(made) /\ \A k \in DOMAIN made2 : Shaped(made2[k])
  <2>1. DOMAIN made2 = 1..Cardinality(made) /\ \A k \in 1..Cardinality(made) : made2[k] \in T
    BY <1>4
  <2>2. made2 \in [1..Cardinality(made) -> T]
    BY <1>4, <2>1
  <2>3. \A k \in DOMAIN made2 : Shaped(made2[k])
    BY DEF Shaped, Panel!NewDoc
  <2> HIDE DEF T
  <2>4. QED
    BY <1>5, <2>1, <2>2, <2>3
<1> HIDE DEF T
<1>9. docs' = docs \o made2
  BY <1>4
<1>10. ShapedDocs' /\ \A m \in DOMAIN docs : m \in DOMAIN docs' /\ docs'[m] = docs[m]
  BY <1>6, <1>9, ManyMade DEF KnownDocs
<1>11. CASE n = Len(runs)
  <2>1. pStale'
    BY <1>11 DEF Panel!BulkAnswered
  <2>2. QED
    BY <1>2, <1>10, <2>1 DEF KnownDocs, Panel!ListKnowsDocuments
<1>12. CASE n # Len(runs)
  <2>1. pUntold' = pUntold \cup (DOMAIN docs' \ DOMAIN docs) /\ UNCHANGED <<pList, pStale>>
    BY <1>12 DEF Panel!BulkAnswered
  <2>2. QED
    BY <1>2, <1>10, <2>1, DocsKnown DEF KnownDocs
<1>13. QED
  BY <1>11, <1>12

\* A bulk run sent: the rows it targets are Analyses.
LEMMA SentKnown == ASSUME KnownDocs, Panel!BulkRun PROVE KnownDocs'
<1> PICK r : r = [type |-> confirming, targets |-> Panel!Targets(confirming), open |-> TRUE]
  OBVIOUS
<1>1. runs' = Append(runs, r) /\ UNCHANGED <<docs, pList, pStale, pUntold>> /\ confirming \in Types
  BY DEF Panel!BulkRun, Panel!table
<1>2. r \in Panel!Run
  BY <1>1 DEF Panel!Run, Panel!Targets
<1>3. TypedRuns'
  BY <1>1, <1>2, Lengthened DEF KnownDocs, TypedRuns
<1>4. QED
  BY <1>1, <1>3, DocsUnwritten

\* A document ends: it stays of its Analysis, its type and its place.
LEMMA EndsKnown == ASSUME KnownDocs, NEW i, Panel!DocumentEnds(i) PROVE KnownDocs'
<1> PICK S : docs \in Seq(S)
  BY DEF KnownDocs, ShapedDocs
<1>1. PICK end : docs' = [docs EXCEPT ![i].status = end]
  BY DEF Panel!DocumentEnds
<1>2. UNCHANGED <<pList, pStale, pUntold, runs>>
  BY DEF Panel!DocumentEnds, Panel!table, Panel!bulk
<1>3. Len(docs) \in Nat /\ DOMAIN docs = 1..Len(docs) /\ DOMAIN docs' = DOMAIN docs
  BY <1>1
<1>4. \A k \in DOMAIN docs :
        /\ Shaped(docs'[k]) /\ docs'[k].of = docs[k].of /\ docs'[k].type = docs[k].type
        /\ docs'[k].by = docs[k].by
  BY <1>1 DEF KnownDocs, ShapedDocs, Shaped
<1>5. ShapedDocs'
  <2> DEFINE T == {docs'[k] : k \in DOMAIN docs}
  <2>1. docs' = [k \in 1..Len(docs) |-> docs'[k]] /\ \A k \in 1..Len(docs) : docs'[k] \in T
    BY <1>1, <1>3
  <2> HIDE DEF T
  <2>2. docs' \in [1..Len(docs) -> T]
    BY <2>1
  <2>3. docs' \in Seq(T)
    BY <1>3, <2>2, SequenceOf
  <2>4. QED
    BY <1>3, <1>4, <2>3 DEF ShapedDocs
<1>6. QED
  BY <1>2, <1>3, <1>4, <1>5, DocsKnown DEF KnownDocs, TypedRuns

\* What the Analyses list read: nothing of an Analysis and a type only when there is nothing.
LEMMA RefetchKnown == ASSUME KnownDocs, Panel!Refetched PROVE KnownDocs'
<1>1. pList' \in Panel!Summaries /\ UNCHANGED <<docs, runs>>
  BY DEF Panel!Refetched, Panel!bulk
<1>2. ASSUME NEW a \in PanelAnalyses, NEW t \in Types, pList'[a][t] = Panel!Nothing
      PROVE  Panel!Current(a, t) = {}
  BY <1>1, <1>2 DEF Panel!Summaries, Panel!Nothing
<1>3. \A a, t : Panel!Current(a, t)' = Panel!Current(a, t)
  BY <1>1 DEF Panel!Current
<1>4. Panel!ListKnowsDocuments'
  BY <1>2, <1>3 DEF Panel!ListKnowsDocuments
<1>5. QED
  BY <1>1, <1>4 DEF KnownDocs, ShapedDocs, TypedRuns

LEMMA NextKnown == KnownDocs /\ [Panel!Next]_documents => KnownDocs'
<1> SUFFICES ASSUME KnownDocs, [Panel!Next]_documents PROVE KnownDocs'
  OBVIOUS
<1>0. UNCHANGED runs => TypedRuns'
  BY DEF KnownDocs, TypedRuns
<1>1. CASE UNCHANGED <<docs, pList, pUntold, runs>> /\ (pStale' \/ UNCHANGED pStale)
  BY <1>0, <1>1, DocsUnwritten
<1>2. CASE \E a \in PanelAnalyses : Panel!Open(a) \/ Panel!Step(a)
  BY <1>1, <1>2 DEF Panel!Open, Panel!Step, Panel!table, Panel!bulk
<1>3. CASE Panel!Close \/ Panel!ExistingFetched
  BY <1>1, <1>3 DEF Panel!Close, Panel!ExistingFetched, Panel!table, Panel!bulk
<1>4. ASSUME NEW t \in Types, Panel!Generate(t) \/ Panel!Regenerate(t) PROVE KnownDocs'
  BY <1>1, <1>4 DEF Panel!Generate, Panel!Regenerate, Panel!table, Panel!bulk
<1>5. ASSUME NEW t \in Types, Panel!CreateAnswered(t) PROVE KnownDocs'
  BY <1>5, ServedKnown DEF Panel!CreateAnswered, Panel!bulk
<1>6. ASSUME NEW t \in Types, Panel!CreateFails(t) PROVE KnownDocs'
  BY <1>6, ServedKnown DEF Panel!CreateFails, Panel!bulk
<1>7. ASSUME NEW a \in PanelAnalyses, NEW t \in Types, Panel!LateServed(a, t) PROVE KnownDocs'
  BY <1>7, ServedKnown DEF Panel!LateServed, Panel!bulk
<1>8. CASE \/ \E t \in Types : Panel!RegenerateAnswered(t)
           \/ \E i \in Panel!Ids : Panel!LateRegenerated(i)
  BY <1>8, RegeneratedKnown
<1>9. CASE (\E c \in Types \cup {"relaunch"} : Panel!Confirm(c)) \/ Panel!Cancel \/ Panel!BulkRelaunch
  BY <1>1, <1>9 DEF Panel!Confirm, Panel!Cancel, Panel!BulkRelaunch, Panel!table
<1>10. CASE Panel!BulkRelaunched
  BY <1>1, <1>10 DEF Panel!BulkRelaunched
<1>11. CASE Panel!BulkRun \/ Panel!Refetched
  BY <1>11, SentKnown, RefetchKnown
<1>12. ASSUME NEW n \in DOMAIN runs, Panel!BulkAnswered(n) PROVE KnownDocs'
  BY <1>12, BulkKnown
<1>13. ASSUME NEW i \in DOMAIN docs, Panel!Polled(i) \/ Panel!DocumentEnds(i) PROVE KnownDocs'
  <2>1. CASE Panel!Polled(i)
    BY <1>1, <2>1 DEF Panel!Polled, Panel!table, Panel!bulk
  <2>2. QED
    BY <1>13, <2>1, EndsKnown
<1>14. CASE UNCHANGED documents
  BY <1>1, <1>14 DEF documents
<1>15. QED
  BY <1>2, <1>3, <1>4, <1>5, <1>6, <1>7, <1>8, <1>9, <1>10, <1>11, <1>12, <1>13, <1>14
  DEF Panel!Next

\* The document columns say "nothing" of an Analysis only when no document was asked for it, or none
\* that the page was told of: a second click never offers to pay again for the rows just queued,
\* whichever run, panel or generation served them (the invalidations of use-generated-documents).
THEOREM DocumentsOfInstance == SpecParts => []ListKnowsDocuments
<1>1. InitParts => KnownDocs
  <2> SUFFICES ASSUME InitParts PROVE KnownDocs
    OBVIOUS
  <2>1. docs = <<>> /\ runs = <<>>
    BY DEF InitParts, Panel!Init
  <2>2. ShapedDocs
    <3>1. docs \in Seq({}) /\ DOMAIN docs = {}
      BY <2>1
    <3>2. QED
      BY <3>1 DEF ShapedDocs
  <2>3. TypedRuns
    BY <2>1 DEF TypedRuns
  <2>4. \A a, t : Panel!Current(a, t) = {}
    BY <2>1 DEF Panel!Current
  <2>5. QED
    BY <2>2, <2>3, <2>4 DEF KnownDocs, Panel!ListKnowsDocuments
<1>2. [NextParts]_parts => [Panel!Next]_documents
  BY DEF NextParts, OfTracking, OfTable, OfDocuments, parts
<1>3. KnownDocs => ListKnowsDocuments
  BY DEF KnownDocs, ListKnowsDocuments
<1>4. QED
  BY <1>1, <1>2, <1>3, NextKnown, PTL DEF SpecParts

-----------------------------------------------------------------------------
(* The Analyses table: its order, its ranks and its pages *)

\* Division, by the size of a page.
LEMMA DivOf ==
  ASSUME NEW i \in Nat, NEW s \in Nat \ {0}
  PROVE  i \div s \in Nat /\ s * (i \div s) <= i /\ i < s * (i \div s) + s
  OBVIOUS

LEMMA LessTimes == ASSUME NEW s \in Nat \ {0}, NEW q \in Nat, NEW r \in Nat, s * q < s * r PROVE q < r
  OBVIOUS

\* The page of a row is one of those there are.
LEMMA PageIsThere ==
  ASSUME NEW i \in Nat, NEW n \in Nat, i < n, NEW s \in Nat \ {0}
  PROVE  (i \div s) + 1 <= (n + s - 1) \div s
<1> DEFINE q == i \div s
<1> DEFINE m == n + s - 1
<1> DEFINE r == m \div s
<1>1. m \in Nat
  OBVIOUS
<1>2. q \in Nat /\ s * q <= i
  BY DivOf
<1>3. r \in Nat /\ m < s * r + s
  <2> HIDE DEF m
  <2>1. QED
    BY <1>1, DivOf
<1> HIDE DEF q, r
<1>4. s * q \in Nat /\ s * r \in Nat
  BY <1>2, <1>3
<1> DEFINE sq == s * q
<1> DEFINE sr == s * r
<1>5. sq \in Nat /\ sr \in Nat /\ sq <= i /\ n + s - 1 < sr + s
  BY <1>2, <1>3, <1>4
<1> HIDE DEF sq, sr
<1>6. sq < sr
  BY <1>5
<1>7. q < r
  BY <1>2, <1>3, <1>6, LessTimes DEF sq, sr
<1>8. q + 1 <= r
  BY <1>2, <1>3, <1>7
<1>9. QED
  BY <1>8 DEF q, r

LEMMA SameExtremes == ASSUME NEW S PROVE Table!Min(S) = Min(S) /\ Table!Max(S) = Max(S)
  BY DEF Table!Min, Min, Table!Max, Max

\* Whichever page is asked for, the one shown exists; one that exists is the one shown.
LEMMA ShownIfThere ==
  ASSUME NEW p \in Nat, NEW n \in Nat, NEW s \in Nat \ {0}, p <= (n + s - 1) \div s
  PROVE  Table!ShownPage(p, n, s) = p
<1> DEFINE x == (n + s - 1) \div s
<1>1. x \in Nat
  <2>1. n + s - 1 \in Nat
    OBVIOUS
  <2>2. QED
    BY <2>1, DivOf
<1>2. PICK b \in Nat : 1 <= b /\ x <= b
  <2> HIDE DEF x
  <2>1. x + 1 \in Nat /\ 1 <= x + 1 /\ x <= x + 1
    BY <1>1
  <2>2. QED
    BY <2>1
<1> DEFINE T == {1, x}
<1> DEFINE c == Max(T)
<1>3. c \in T /\ \A y \in T : y <= c
  <2>1. T \subseteq Nat /\ T # {} /\ \A y \in T : y <= b
    BY <1>1, <1>2
  <2> HIDE DEF T
  <2>2. QED
    BY <2>1, MaxIsOne
<1>4. c \in Nat /\ x <= c
  BY <1>1, <1>3
<1>5. p <= c
  <2> HIDE DEF c
  <2>1. p <= x
    OBVIOUS
  <2> HIDE DEF x
  <2>2. QED
    BY <1>1, <1>4, <2>1
<1>6. Table!ShownPage(p, n, s) = Min({p, c})
  BY SameExtremes DEF Table!ShownPage, Table!PageCount
<1> HIDE DEF c
<1>7. Min({p, c}) = p
  <2> DEFINE P == {p, c}
  <2>1. P \subseteq Nat /\ p \in P /\ \A y \in P : p <= y
    BY <1>4, <1>5
  <2> HIDE DEF P
  <2>2. Min(P) = p
    BY <2>1, MinIs
  <2>3. QED
    BY <2>2 DEF P
<1>8. QED
  BY <1>6, <1>7

\* The order of the table is a strict, total one.
LEMMA TableOrder ==
  ASSUME NEW a \in Table!Ids, NEW b \in Table!Ids, NEW c \in Table!Ids
  PROVE  /\ ~Table!Before(a, a)
         /\ Table!Before(a, b) /\ Table!Before(b, c) => Table!Before(a, c)
         /\ a # b => Table!Before(a, b) \/ Table!Before(b, a)
<1>1. a \in Nat /\ b \in Nat /\ c \in Nat
  BY DEF Table!Ids
<1>2. PostedAt[a] \in Nat /\ PostedAt[b] \in Nat /\ PostedAt[c] \in Nat
  BY PartsAssumption DEF Table!TableAssumption
<1>3. QED
  BY <1>1, <1>2 DEF Table!Before

\* The rows before one of a set are fewer than the set's.
LEMMA FiniteIds == ASSUME NEW S \in SUBSET Table!Ids PROVE IsFiniteSet(S) /\ Cardinality(S) \in Nat
<1>1. IsFiniteSet(Table!Ids)
  BY FS_Interval, PartsAssumption DEF Table!Ids, Table!TableAssumption
<1>2. IsFiniteSet(S)
  BY <1>1, FS_Subset
<1>3. QED
  BY <1>2, FS_CardinalityType

LEMMA FewerOf ==
  ASSUME NEW S \in SUBSET Table!Ids, NEW T \in SUBSET S, NEW x \in S, x \notin T
  PROVE  Cardinality(T) < Cardinality(S)
<1>1. IsFiniteSet(S) /\ Cardinality(S) \in Nat /\ Cardinality(T) \in Nat
  BY FiniteIds
<1>2. Cardinality(T) <= Cardinality(S) /\ (Cardinality(S) = Cardinality(T) => S = T)
  BY <1>1, FS_Subset
<1>3. QED
  BY <1>1, <1>2

LEMMA RankIsThere ==
  ASSUME NEW a \in Table!Filtered
  PROVE  /\ Table!Index(a) \in Nat /\ Cardinality(Table!Filtered) \in Nat
         /\ Table!Index(a) < Cardinality(Table!Filtered)
<1> DEFINE P == {b \in Table!Filtered : Table!Before(b, a)}
<1>1. Table!Filtered \subseteq Table!Ids /\ a \in Table!Ids
  BY DEF Table!Filtered, Table!Listed
<1>2. Table!Index(a) = Cardinality(P)
  BY SameCardinality DEF Table!Index, Table!Rank
<1>3. P \subseteq Table!Filtered /\ ~(a \in P)
  BY <1>1, TableOrder
<1> HIDE DEF P
<1>4. QED
  BY <1>1, <1>2, <1>3, FiniteIds, FewerOf

-----------------------------------------------------------------------------
(* The Analyses table: its invariant *)

UrlFields == {"status", "cv", "direction", "page", "size"}
UrlOK == DOMAIN tUrl = UrlFields /\ tUrl.size \in PageSizes

\* The rows there are.  A row never goes: a refused or lost request leaves it as it is.
Present == {a \in Table!Ids : row[a].status # "ABSENT"}
RowsOK ==
  /\ DOMAIN row = Table!Ids /\ \A a \in Table!Ids : "status" \in DOMAIN row[a]
  /\ Table!Listed \subseteq Present
  /\ slate \subseteq Present

\* The slot the arrows go on from: the rank, in the list of that time, of the row shown then.
Anchored == tShown \in slate => tAnchor = Cardinality({b \in slate : Table!Before(b, tShown)})

TableInv == UrlOK /\ RowsOK /\ Anchored

LEMMA OrderUnchanged ==
  ASSUME tUrl'.direction = tUrl.direction
  PROVE  \A a, b : Table!Before(a, b)' <=> Table!Before(a, b)
  BY DEF Table!Before

\* The table's own steps: nothing is shown, so nothing is anchored.
LEMMA UrlKept ==
  ASSUME TableInv, UNCHANGED <<row, tList, tShown, tAnchor, slate>>, UrlOK',
         tShown = Table!None \/ UNCHANGED tUrl
  PROVE  TableInv'
<1>1. RowsOK'
  BY DEF TableInv, RowsOK, Present, Table!Listed
<1>2. CASE tShown = Table!None
  <2>1. ~(tShown' \in slate')
    BY <1>2, PartsAssumption DEF TableInv, RowsOK, Present, Table!Ids, Table!None, Table!TableAssumption
  <2>2. QED
    BY <1>1, <2>1 DEF TableInv, Anchored
<1>3. CASE UNCHANGED tUrl
  <2>1. Anchored'
    BY <1>3 DEF TableInv, Anchored, Table!Before
  <2>2. QED
    BY <1>1, <2>1 DEF TableInv
<1>4. QED
  BY <1>2, <1>3

LEMMA AllKept ==
  ASSUME TableInv, UNCHANGED <<row, tList, tUrl, tShown, tAnchor, slate>>
  PROVE  TableInv'
<1>1. UrlOK'
  BY DEF TableInv, UrlOK
<1>2. QED
  BY <1>1, UrlKept

\* A patch keeps the fields; only a size names a size.
LEMMA PatchedOK ==
  ASSUME TableInv, NEW patch, tUrl' = Table!Patched(patch),
         "size" \in DOMAIN patch => patch.size \in PageSizes
  PROVE  UrlOK' /\ ("direction" \notin DOMAIN patch => tUrl'.direction = tUrl.direction)
         /\ ("page" \in DOMAIN patch => tUrl'.page = patch.page)
  BY DEF TableInv, UrlOK, UrlFields, Table!Patched

LEMMA OnTableKept ==
  ASSUME TableInv, Table!OnTable, UrlOK'
  PROVE  TableInv'
<1>1. UNCHANGED <<row, tList, tShown, tAnchor, slate>> /\ tShown = Table!None
  BY DEF Table!OnTable, Table!panelState
<1>2. QED
  BY <1>1, UrlKept

LEMMA TableUrlSteps ==
  ASSUME TableInv,
         \/ \E filter \in Table!Filters : Table!FilterByStatus(filter)
         \/ \E cv \in {"all"} \cup Table!Labels : Table!FilterByCv(cv)
         \/ \E size \in PageSizes : Table!Resize(size)
         \/ Table!SortAgain \/ Table!ClearFilters \/ Table!TurnPage
  PROVE  TableInv'
<1>1. ASSUME NEW patch, Table!OnTable, tUrl' = Table!Patched(patch),
             "size" \in DOMAIN patch => patch.size \in PageSizes
      PROVE  TableInv'
  BY <1>1, PatchedOK, OnTableKept
<1>2. ASSUME NEW filter, Table!FilterByStatus(filter) PROVE TableInv'
  BY <1>1, <1>2 DEF Table!FilterByStatus, Table!DropsSelection, Table!requests
<1>3. ASSUME NEW cv, Table!FilterByCv(cv) PROVE TableInv'
  BY <1>1, <1>3 DEF Table!FilterByCv, Table!KeepsSelection, Table!requests
<1>4. ASSUME NEW size \in PageSizes, Table!Resize(size) PROVE TableInv'
  BY <1>1, <1>4 DEF Table!Resize, Table!KeepsSelection, Table!requests
<1>5. CASE Table!SortAgain
  BY <1>1, <1>5 DEF Table!SortAgain, Table!DropsSelection, Table!requests
<1>6. CASE Table!ClearFilters
  BY <1>1, <1>6 DEF Table!ClearFilters, Table!DropsSelection, Table!requests
<1>7. CASE Table!TurnPage
  <2>1. PICK page : tUrl' = Table!Patched([page |-> page])
    BY <1>7 DEF Table!TurnPage
  <2>2. Table!OnTable
    BY <1>7 DEF Table!TurnPage, Table!KeepsSelection, Table!requests
  <2>3. QED
    BY <1>1, <2>1, <2>2
<1>8. QED
  BY <1>2, <1>3, <1>4, <1>5, <1>6, <1>7

\* A row that is there has its status still, and a row that is not is there only once one is made.
LEMMA RowsMoved ==
  ASSUME TableInv, UNCHANGED <<tList, slate>>,
         DOMAIN row' = Table!Ids,
         \A a \in Table!Ids : /\ "status" \in DOMAIN row'[a]
                              /\ row[a].status # "ABSENT" => row'[a].status # "ABSENT"
  PROVE  RowsOK'
  BY DEF TableInv, RowsOK, Present, Table!Listed

\* Changes of Tracking statuses, whichever rows they name.
LEMMA AppliedKeeps ==
  ASSUME TableInv, NEW ids, NEW to, row' = Table!Applied(ids, to),
         UNCHANGED <<tList, tUrl, tShown, tAnchor, slate>>
  PROVE  TableInv'
<1>1. DOMAIN row' = Table!Ids
  BY DEF Table!Applied
<1>2. \A a \in Table!Ids : "status" \in DOMAIN row'[a] /\ row'[a].status = row[a].status
  BY DEF Table!Applied, TableInv, RowsOK
<1>3. RowsOK'
  BY <1>1, <1>2, RowsMoved
<1>4. UrlOK'
  BY DEF TableInv, UrlOK
<1>5. Anchored'
  BY DEF TableInv, Anchored, Table!Before
<1>6. QED
  BY <1>3, <1>4, <1>5 DEF TableInv

LEMMA TableAnswers ==
  ASSUME TableInv, Table!BulkAnswered \/ Table!PanelAnswered \/ Table!PanelFails
  PROVE  TableInv'
<1>1. UNCHANGED <<tList, tUrl, tShown, tAnchor, slate>>
  BY DEF Table!BulkAnswered, Table!PanelAnswered, Table!PanelFails, Table!panelState
<1>2. UNCHANGED row \/ \E ids, to : row' = Table!Applied(ids, to)
  BY DEF Table!BulkAnswered, Table!PanelAnswered, Table!PanelFails
<1>3. QED
  BY <1>1, <1>2, AppliedKeeps, AllKept

LEMMA EndKeeps == ASSUME TableInv, NEW a \in Table!Ids, Table!AnalysisEnds(a) PROVE TableInv'
<1>1. /\ UNCHANGED <<tList, tUrl, tShown, tAnchor, slate>>
      /\ row[a].status = "RUNNING" /\ row' = [row EXCEPT ![a].status = "COMPLETED"]
  BY DEF Table!AnalysisEnds, Table!panelState, Table!requests
<1>2. /\ DOMAIN row' = Table!Ids
      /\ \A b \in Table!Ids : /\ "status" \in DOMAIN row'[b]
                              /\ row'[b].status = IF b = a THEN "COMPLETED" ELSE row[b].status
  BY <1>1 DEF TableInv, RowsOK
<1>3. RowsOK'
  BY <1>1, <1>2, RowsMoved
<1>4. UrlOK' /\ Anchored'
  BY <1>1 DEF TableInv, UrlOK, Anchored, Table!Before
<1>5. QED
  BY <1>3, <1>4 DEF TableInv

\* The row a relaunch makes: it is new, so the slate the arrows go on from has not got it.
LEMMA RelaunchKeeps == ASSUME TableInv, Table!RelaunchAnswered PROVE TableInv'
<1> PICK new : new = Table!Min(Table!NewRows)
  OBVIOUS
<1>1. /\ UNCHANGED <<tList, tUrl, tAnchor, slate>>
      /\ row' = [row EXCEPT ![new].status = "RUNNING"]
      /\ tShown' = new \/ UNCHANGED tShown
  BY DEF Table!RelaunchAnswered
<1>2. Table!NewRows # {}
  BY DEF Table!RelaunchAnswered
<1>3. new \in Table!NewRows
  <2> DEFINE T == Table!NewRows
  <2>1. T \subseteq Nat /\ T # {}
    BY <1>2 DEF Table!NewRows, Table!Ids
  <2> HIDE DEF T
  <2>2. Min(T) \in T
    BY <2>1, MinIsLeast
  <2>3. QED
    BY <2>2, SameExtremes DEF T
<1>4. new \in Table!Ids /\ row[new].status = "ABSENT" /\ ~(new \in slate)
  BY <1>3 DEF Table!NewRows, TableInv, RowsOK, Present
<1>5. /\ DOMAIN row' = Table!Ids
      /\ \A b \in Table!Ids : /\ "status" \in DOMAIN row'[b]
                              /\ row'[b].status = IF b = new THEN "RUNNING" ELSE row[b].status
  BY <1>1, <1>4 DEF TableInv, RowsOK
<1>6. RowsOK'
  BY <1>1, <1>5, RowsMoved
<1>7. UrlOK'
  BY <1>1 DEF TableInv, UrlOK
<1>8. Anchored'
  <2>1. CASE tShown' = new
    BY <1>1, <1>4, <2>1 DEF Anchored
  <2>2. CASE UNCHANGED tShown
    BY <1>1, <2>2 DEF TableInv, Anchored, Table!Before
  <2>3. QED
    BY <1>1, <2>1, <2>2
<1>9. QED
  BY <1>6, <1>7, <1>8 DEF TableInv

\* A reload: a page size that is in the URL is one of those offered.
LEMMA ReloadKeeps == ASSUME TableInv, Table!Reload PROVE TableInv'
<1>1. /\ tUrl' = Table!Parse(Table!ToParams(tUrl)) /\ tList' = row /\ UNCHANGED row
      /\ slate' = {}
  BY DEF Table!Reload
<1>2. UrlOK'
  <2>1. Table!DefaultTable.size \in PageSizes /\ DOMAIN Table!DefaultTable = UrlFields
    <3>1. Min(PageSizes) \in PageSizes
      <4>1. PageSizes \subseteq Nat /\ PageSizes # {}
        BY PartsAssumption DEF Table!TableAssumption
      <4>2. QED
        BY <4>1, MinIsLeast
    <3>2. QED
      BY <3>1, SameExtremes DEF Table!DefaultTable, UrlFields
  <2>2. DOMAIN tUrl' = UrlFields
    BY <1>1, <2>1 DEF Table!Parse
  <2>3. tUrl'.size = IF "size" \notin DOMAIN Table!ToParams(tUrl) THEN Table!DefaultTable.size
                     ELSE IF Table!ToParams(tUrl).size \notin PageSizes THEN Table!DefaultTable.size
                     ELSE Table!ToParams(tUrl).size
    BY <1>1, <2>1 DEF Table!Parse, UrlFields
  <2>4. QED
    BY <2>1, <2>2, <2>3 DEF UrlOK
<1>3. RowsOK'
  BY <1>1 DEF TableInv, RowsOK, Present, Table!Listed
<1>4. Anchored'
  BY <1>1 DEF Anchored
<1>5. QED
  BY <1>2, <1>3, <1>4 DEF TableInv

\* What is filtered is listed, and what is listed is there.
LEMMA FilteredIsPresent == ASSUME TableInv PROVE Table!Filtered \subseteq Present
  BY DEF TableInv, RowsOK, Table!Filtered

\* Opening a row, or stepping to it, anchors it in the list as it is then.
LEMMA OpenedAnchors ==
  ASSUME TableInv, NEW a \in Table!Filtered, Table!Opened(a, Table!Index(a)),
         UNCHANGED <<row, tList>>, UrlOK', tUrl'.direction = tUrl.direction
  PROVE  TableInv'
<1>1. RowsOK'
  <2>1. slate' \subseteq Present
    BY FilteredIsPresent DEF Table!Opened
  <2>2. QED
    BY <2>1 DEF TableInv, RowsOK, Present, Table!Listed
<1>2. Anchored'
  <2>1. tShown' = a /\ slate' = Table!Filtered
        /\ tAnchor' = Cardinality({b \in Table!Filtered : Table!Before(b, a)})
    BY SameCardinality DEF Table!Opened, Table!Index, Table!Rank
  <2>2. \A b : Table!Before(b, a)' <=> Table!Before(b, a)
    BY OrderUnchanged
  <2>3. {b \in Table!Filtered : Table!Before(b, a)'} = {b \in Table!Filtered : Table!Before(b, a)}
    BY <2>2
  <2>4. QED
    BY <2>1, <2>3 DEF Anchored, Table!Before
<1>3. QED
  BY <1>1, <1>2 DEF TableInv

LEMMA OpenKeeps == ASSUME TableInv, NEW a, Table!Open(a) PROVE TableInv'
<1>1. a \in Table!Filtered /\ Table!Opened(a, Table!Index(a))
  BY DEF Table!Open, Table!Rows
<1>2. UNCHANGED <<row, tList, tUrl>>
  BY DEF Table!Open, Table!data, Table!requests
<1>3. UrlOK'
  BY <1>2 DEF TableInv, UrlOK
<1>4. QED
  BY <1>1, <1>2, <1>3, OpenedAnchors

\* An arrow: where it goes, and how it turns the page.
LEMMA GoneTo ==
  ASSUME TableInv, NEW i, Table!GoTo(i)
  PROVE  /\ \E a \in Table!Filtered : Table!Index(a) = i /\ Table!Opened(a, i)
         /\ UNCHANGED <<row, tList>>
         /\ UrlOK' /\ tUrl'.direction = tUrl.direction /\ tUrl'.size = tUrl.size
         /\ tUrl'.status = tUrl.status /\ tUrl'.cv = tUrl.cv
         /\ \/ tUrl' = tUrl /\ Table!PageAt(i, tUrl.size) = Table!Page
            \/ tUrl'.page = Table!PageAt(i, tUrl.size)
<1>1. UNCHANGED <<row, tList>> /\ tUrl' = Table!TurnedTo(i)
  BY DEF Table!GoTo, Table!data, Table!requests
<1>2. \E a \in Table!Filtered : Table!Index(a) = i /\ Table!Opened(a, i)
  BY DEF Table!GoTo, Table!At
<1>3. CASE Table!PageAt(i, tUrl.size) = Table!Page
  <2>1. tUrl' = tUrl
    BY <1>1, <1>3 DEF Table!TurnedTo
  <2>2. UrlOK'
    BY <2>1 DEF TableInv, UrlOK
  <2>3. QED
    BY <1>1, <1>2, <1>3, <2>1, <2>2
<1>4. CASE Table!PageAt(i, tUrl.size) # Table!Page
  <2> PICK patch : patch = [page |-> Table!PageAt(i, tUrl.size)]
    OBVIOUS
  <2>1. tUrl' = Table!Patched(patch) /\ DOMAIN patch = {"page"} /\ patch.page = Table!PageAt(i, tUrl.size)
    BY <1>1, <1>4 DEF Table!TurnedTo
  <2>2. UrlOK' /\ tUrl'.page = patch.page
    BY <2>1, PatchedOK
  <2>3. \A k \in UrlFields \ {"page"} : tUrl'[k] = tUrl[k]
    BY <2>1 DEF Table!Patched, TableInv, UrlOK
  <2>4. QED
    BY <1>1, <1>2, <2>1, <2>2, <2>3 DEF UrlFields
<1>5. QED
  BY <1>3, <1>4

LEMMA NextTable == TableInv /\ [Table!Next]_Table!vars => TableInv'
<1> SUFFICES ASSUME TableInv, [Table!Next]_Table!vars PROVE TableInv'
  OBVIOUS
<1>1. CASE UNCHANGED <<row, tList, tUrl, tShown, tAnchor, slate>>
  BY <1>1, AllKept
<1>2. CASE \/ \E filter \in Table!Filters : Table!FilterByStatus(filter)
           \/ \E cv \in {"all"} \cup Table!Labels : Table!FilterByCv(cv)
           \/ \E size \in PageSizes : Table!Resize(size)
           \/ Table!SortAgain \/ Table!ClearFilters \/ Table!TurnPage
  BY <1>2, TableUrlSteps
<1>3. CASE Table!TogglePage \/ Table!SelectAllFiltered \/ Table!ClearSelection \/ Table!Refresh
  BY <1>1, <1>3 DEF Table!TogglePage, Table!SelectAllFiltered, Table!ClearSelection, Table!Refresh,
    Table!OnTable, Table!Selects, Table!panelState, Table!requests
<1>4. CASE Table!Reload
  BY <1>4, ReloadKeeps
<1>5. CASE \E to \in Table!Transitions : Table!BulkStatus(to) \/ Table!PanelStatus(to)
  BY <1>1, <1>5 DEF Table!BulkStatus, Table!PanelStatus, Table!OnTable, Table!data, Table!panelState
<1>6. ASSUME NEW a \in Table!Ids, Table!OnRow(a) PROVE TableInv'
  <2>1. CASE Table!Toggle(a)
    BY <1>1, <2>1 DEF Table!Toggle, Table!OnTable, Table!Selects, Table!panelState, Table!requests
  <2>2. CASE Table!Open(a)
    BY <2>2, OpenKeeps
  <2>3. QED
    BY <1>6, <2>1, <2>2 DEF Table!OnRow
<1>7. ASSUME NEW a \in Table!Ids, Table!AnalysisEnds(a) PROVE TableInv'
  BY <1>7, EndKeeps
<1>8. CASE Table!Close
  <2>1. UNCHANGED <<row, tList, tUrl, tAnchor, slate>> /\ tShown' = Table!None
    BY <1>8 DEF Table!Close, Table!data
  <2>2. ~(tShown' \in slate')
    BY <2>1, PartsAssumption DEF TableInv, RowsOK, Present, Table!Ids, Table!None, Table!TableAssumption
  <2>3. QED
    BY <2>1, <2>2 DEF TableInv, UrlOK, RowsOK, Anchored, Present, Table!Listed
<1>9. ASSUME NEW i, Table!GoTo(i) PROVE TableInv'
  BY <1>9, GoneTo, OpenedAnchors
<1>10. CASE Table!Relaunch
  BY <1>1, <1>10 DEF Table!Relaunch, Table!data, Table!panelState
<1>11. CASE Table!RelaunchAnswered
  BY <1>11, RelaunchKeeps
<1>12. CASE Table!BulkAnswered \/ Table!PanelAnswered \/ Table!PanelFails
  BY <1>12, TableAnswers
<1>13. CASE Table!Refetched
  <2>1. UNCHANGED <<row, tUrl, tShown, tAnchor, slate>> /\ tList' = row
    BY <1>13 DEF Table!Refetched, Table!panelState, Table!requests
  <2>2. RowsOK'
    BY <2>1 DEF TableInv, RowsOK, Present, Table!Listed
  <2>3. QED
    BY <2>1, <2>2 DEF TableInv, UrlOK, Anchored, Table!Before
<1>14. CASE UNCHANGED Table!vars
  BY <1>1, <1>14 DEF Table!vars
<1>15. QED
  BY <1>2, <1>3, <1>4, <1>5, <1>6, <1>7, <1>8, <1>9, <1>10, <1>11, <1>12, <1>13, <1>14
  DEF Table!Next, Table!Suivant, Table!Precedent

LEMMA InitTable == InitParts => TableInv
<1> SUFFICES ASSUME InitParts PROVE TableInv
  OBVIOUS
<1>1. /\ row \in [Table!Ids -> Table!Row] /\ tList = row /\ tUrl = Table!DefaultTable
      /\ slate = {}
  BY DEF InitParts, Table!Init
<1>2. Min(PageSizes) \in PageSizes
  <2>1. PageSizes \subseteq Nat /\ PageSizes # {}
    BY PartsAssumption DEF Table!TableAssumption
  <2>2. QED
    BY <2>1, MinIsLeast
<1>3. UrlOK
  BY <1>1, <1>2, SameExtremes DEF UrlOK, UrlFields, Table!DefaultTable
<1>4. RowsOK
  BY <1>1 DEF RowsOK, Present, Table!Listed, Table!Row
<1>5. QED
  BY <1>1, <1>3, <1>4 DEF TableInv, Anchored

LEMMA TableAlways == SpecParts => []TableInv /\ [][Table!Next]_Table!vars
<1>1. [NextParts]_parts => [Table!Next]_Table!vars
  BY DEF NextParts, OfTracking, OfTable, OfDocuments, parts, table, Table!vars
<1>2. QED
  BY <1>1, InitTable, NextTable, PTL DEF SpecParts

\* "The list and the panel never disagree": after an arrow, wherever the list moved to meanwhile, the
\* Analysis in the Quick view is on the page behind it (goToAnalysisAt flips it).
THEOREM StepOfInstance == SpecParts => StepShowsItsRow
<1> DEFINE Shown == tShown # Table!None /\ tShown' # Table!None /\ tAnchor' # tAnchor
                      => tShown' \in Table!Rows'
<1>1. ASSUME TableInv, NEW i, Table!GoTo(i) PROVE tShown' \in Table!Rows'
  <2>1. PICK a \in Table!Filtered : Table!Index(a) = i /\ tShown' = a
    BY <1>1, GoneTo DEF Table!Opened
  <2>2. /\ UNCHANGED tList /\ tUrl'.direction = tUrl.direction /\ tUrl'.size = tUrl.size
        /\ tUrl'.status = tUrl.status /\ tUrl'.cv = tUrl.cv
        /\ \/ tUrl' = tUrl /\ Table!PageAt(i, tUrl.size) = Table!Page
           \/ tUrl'.page = Table!PageAt(i, tUrl.size)
    BY <1>1, GoneTo
  <2>3. Table!Filtered' = Table!Filtered
    BY <2>2 DEF Table!Filtered, Table!Listed, Table!Matches
  <2>4. Table!Index(a)' = i
    <3>1. \A b : Table!Before(b, a)' <=> Table!Before(b, a)
      BY <2>2, OrderUnchanged
    <3>2. {b \in Table!Filtered : Table!Before(b, a)'} = {b \in Table!Filtered : Table!Before(b, a)}
      BY <3>1
    <3>3. QED
      BY <2>1, <2>3, <3>2 DEF Table!Index, Table!Rank
  <2> PICK n : n = Table!Cardinality(Table!Filtered)
    OBVIOUS
  <2> PICK s : s = tUrl.size
    OBVIOUS
  <2>5. i \in Nat /\ n \in Nat /\ i < n /\ s \in Nat \ {0}
    BY <1>1, <2>1, RankIsThere, SameCardinality, PartsAssumption DEF TableInv, UrlOK, Table!TableAssumption
  <2>6. i \div s \in Nat /\ (i \div s) + 1 \in Nat /\ (i \div s) + 1 <= (n + s - 1) \div s
    <3>1. (i \div s) + 1 <= (n + s - 1) \div s
      BY <2>5, PageIsThere
    <3>2. i \div s \in Nat
      BY <2>5, DivOf
    <3>3. (i \div s) + 1 \in Nat
      BY <3>2
    <3>4. QED
      BY <3>1, <3>2, <3>3
  <2>7. Table!Page' = Table!ShownPage(tUrl'.page, n, s)
    BY <2>2, <2>3 DEF Table!Page
  <2>8. Table!PageAt(i, s) = (i \div s) + 1
    BY DEF Table!PageAt
  <2>9. Table!Page' = Table!PageAt(i, s)
    <3>1. CASE tUrl' = tUrl /\ Table!PageAt(i, s) = Table!Page
      BY <2>7, <3>1 DEF Table!Page
    <3>2. CASE tUrl'.page = Table!PageAt(i, s)
      BY <2>5, <2>6, <2>7, <2>8, <3>2, ShownIfThere
    <3>3. QED
      BY <2>2, <3>1, <3>2
  <2>10. a \in Table!Rows'
    BY <2>2, <2>3, <2>4, <2>9 DEF Table!Rows
  <2>11. QED
    BY <2>1, <2>10
<1>2. TableInv /\ [Table!Next]_Table!vars => Shown
  <2> SUFFICES ASSUME TableInv, [Table!Next]_Table!vars, tShown # Table!None,
                      tShown' # Table!None, tAnchor' # tAnchor
               PROVE  tShown' \in Table!Rows'
    OBVIOUS
  <2>1. CASE Table!Suivant \/ Table!Precedent
    BY <1>1, <2>1 DEF Table!Suivant, Table!Precedent
  <2>2. ~Table!OnTable /\ \A a : ~Table!Open(a)
    BY DEF Table!OnTable, Table!Open
  <2>3. CASE \/ \E filter \in Table!Filters : Table!FilterByStatus(filter)
             \/ \E cv \in {"all"} \cup Table!Labels : Table!FilterByCv(cv)
             \/ \E size \in PageSizes : Table!Resize(size)
             \/ Table!SortAgain \/ Table!ClearFilters \/ Table!TurnPage
    BY <2>2, <2>3 DEF Table!FilterByStatus, Table!FilterByCv, Table!Resize, Table!SortAgain,
      Table!ClearFilters, Table!TurnPage
  <2>4. CASE \/ Table!TogglePage \/ Table!SelectAllFiltered \/ Table!ClearSelection \/ Table!Refresh
             \/ \E a \in Table!Ids : Table!OnRow(a)
    BY <2>2, <2>4 DEF Table!TogglePage, Table!SelectAllFiltered, Table!ClearSelection, Table!Refresh,
      Table!OnRow, Table!Toggle
  <2>5. CASE \/ Table!Reload \/ Table!Close \/ Table!Relaunch
             \/ \E to \in Table!Transitions : Table!BulkStatus(to) \/ Table!PanelStatus(to)
    BY <2>2, <2>5 DEF Table!Reload, Table!Close, Table!Relaunch, Table!BulkStatus, Table!PanelStatus,
      Table!panelState
  <2>6. CASE \/ Table!RelaunchAnswered \/ Table!BulkAnswered \/ Table!PanelAnswered \/ Table!PanelFails
             \/ Table!Refetched \/ \E a \in Table!Ids : Table!AnalysisEnds(a)
    BY <2>6 DEF Table!RelaunchAnswered, Table!BulkAnswered, Table!PanelAnswered, Table!PanelFails,
      Table!Refetched, Table!AnalysisEnds, Table!panelState
  <2>7. CASE UNCHANGED Table!vars
    BY <2>7 DEF Table!vars
  <2>8. QED
    BY <2>1, <2>3, <2>4, <2>5, <2>6, <2>7 DEF Table!Next
<1>3. SpecParts => [][Shown]_Table!vars
  BY <1>2, TableAlways, PTL
<1>4. QED
  BY <1>3, PTL DEF StepShowsItsRow, Table!StepShowsItsRow

\* When the panel's own change took its row out of the list, and nothing else moved, Next shows the
\* row that followed it: no Analysis is skipped (nextIndex goes on from the slot left).
THEOREM NextOfInstance == SpecParts => SuivantSkipsNothing
<1> DEFINE Follows == /\ Table!Suivant
                      /\ Table!Filtered = slate \ {tShown}
                      /\ tShown \in slate
                      => \A b \in Table!Filtered :
                           Table!Before(tShown, b) => b = tShown' \/ Table!Before(tShown', b)
<1>1. TableInv => Follows
  <2> SUFFICES ASSUME TableInv, Table!Suivant, Table!Filtered = slate \ {tShown}, tShown \in slate,
                      NEW b \in Table!Filtered, Table!Before(tShown, b)
               PROVE  b = tShown' \/ Table!Before(tShown', b)
    OBVIOUS
  <2>1. Table!GoTo(tAnchor)
    BY DEF Table!Suivant, Table!NextIndex, Table!InList
  <2>2. PICK a \in Table!Filtered : Table!Index(a) = tAnchor /\ tShown' = a
    BY <2>1, GoneTo DEF Table!Opened
  <2> PICK F : F = Table!Filtered
    OBVIOUS
  <2> PICK x : x = tShown
    OBVIOUS
  <2> DEFINE P(c) == {d \in F : Table!Before(d, c)}
  <2>3. slate \subseteq Table!Ids /\ F \subseteq Table!Ids /\ x \in Table!Ids
    BY DEF TableInv, RowsOK, Present
  <2>4. Cardinality(P(a)) = tAnchor
    BY <2>2, SameCardinality DEF Table!Index, Table!Rank
  <2>5. Cardinality(P(x)) = tAnchor
    <3>1. {d \in slate : Table!Before(d, x)} = P(x)
      BY <2>3, TableOrder
    <3>2. QED
      BY <3>1 DEF TableInv, Anchored
  <2>6. SUFFICES ASSUME b # a, ~Table!Before(a, b) PROVE FALSE
    BY <2>2
  <2>7. Table!Before(b, a)
    BY <2>2, <2>3, <2>6, TableOrder
  <2>8. P(x) \subseteq P(a)
    <3>1. ASSUME NEW d \in F, Table!Before(d, x) PROVE Table!Before(d, a)
      <4>1. Table!Before(d, b)
        BY <2>3, <3>1, TableOrder
      <4>2. QED
        BY <2>2, <2>3, <2>7, <4>1, TableOrder
    <3>2. QED
      BY <3>1
  <2>9. b \in P(a) /\ ~(b \in P(x))
    <3>1. ~Table!Before(b, x)
      BY <2>3, TableOrder
    <3>2. QED
      BY <2>7, <3>1
  <2>10. P(a) \subseteq Table!Ids
    BY <2>3
  <2>11. Cardinality(P(x)) < Cardinality(P(a)) /\ Cardinality(P(a)) \in Nat
    <3> HIDE DEF P
    <3>1. QED
      BY <2>8, <2>9, <2>10, FewerOf, FiniteIds
  <2>12. QED
    BY <2>4, <2>5, <2>11
<1>2. SpecParts => [][Follows]_Table!vars
  BY <1>1, TableAlways, PTL
<1>3. QED
  BY <1>2, PTL DEF SuivantSkipsNothing, Table!SuivantSkipsNothing
=============================================================================
