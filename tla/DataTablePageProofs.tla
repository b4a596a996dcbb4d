------------------------ MODULE DataTablePageProofs ------------------------
(***************************************************************************)
(* The tables of the pages: that the index arrays stay true to the rows,   *)
(* that details stay with their rows, that no page is blank, that the      *)
(* newest answer of a server is the one shown, that what is displayed is   *)
(* the search, and that a reload shows the same.                           *)
(*                                                                         *)
(* PageInv carries the first three, with what they rest on: the soundness  *)
(* of the rows (Base) and a place that begins with a row (Started).        *)
(* It is proved function by function: whatever _fnFilter, _fnSort and the  *)
(* API leave is sound (Base), and _fnDraw makes it good (Good).  AskInv    *)
(* adds the numbers and the parameters of the requests, ListInv what is    *)
(* displayed of the master and the texts remembered for a search.          *)
(* SavedInv adds that the rows are in one order, and that the cookie tells *)
(* what the page shows, which is what a reload finds again.                *)
(***************************************************************************)
EXTENDS DataTablePage, SequenceTheorems, FunctionTheorems, FiniteSetTheorems, TLAPS

-----------------------------------------------------------------------------
(***************************************************************************)
(* The elements of a finite set in an order: each comes in its turn.       *)
(***************************************************************************)
Earlier(I, R, i) == {j \in I : <<j, i>> \in R}

Ordered(I, R) ==
  /\ IsFiniteSet(I)
  /\ \A i \in I : <<i, i>> \notin R
  /\ \A i, j \in I : i = j \/ <<i, j>> \in R \/ <<j, i>> \in R
  /\ \A i, j, k \in I : <<i, j>> \in R /\ <<j, k>> \in R => <<i, k>> \in R

LEMMA EarlierCounts ==
  ASSUME NEW I, NEW R, Ordered(I, R), NEW i \in I
  PROVE  /\ IsFiniteSet(Earlier(I, R, i)) /\ Cardinality(Earlier(I, R, i)) \in 0 .. Cardinality(I) - 1
         /\ \A j \in I : <<i, j>> \in R => Cardinality(Earlier(I, R, i)) < Cardinality(Earlier(I, R, j))
<1>1. /\ IsFiniteSet(I) /\ Cardinality(I) \in Nat
      /\ \A j \in I : /\ Earlier(I, R, j) \in SUBSET I /\ IsFiniteSet(Earlier(I, R, j))
                      /\ Cardinality(Earlier(I, R, j)) \in Nat
  BY FS_CardinalityType, FS_Subset DEF Ordered, Earlier
<1>2. i \notin Earlier(I, R, i)
  BY DEF Ordered, Earlier
<1>3. Cardinality(Earlier(I, R, i)) < Cardinality(I)
  <2>1. Cardinality(Earlier(I, R, i)) <= Cardinality(I)
    BY <1>1, FS_Subset
  <2>2. Cardinality(Earlier(I, R, i)) # Cardinality(I)
    BY <1>1, <1>2, FS_Subset
  <2> QED BY <1>1, <2>1, <2>2
<1>4. ASSUME NEW j \in I, <<i, j>> \in R
      PROVE  Cardinality(Earlier(I, R, i)) < Cardinality(Earlier(I, R, j))
  <2>1. Earlier(I, R, i) \in SUBSET Earlier(I, R, j)
    BY <1>4 DEF Ordered, Earlier
  <2>2. i \in Earlier(I, R, j)
    BY <1>4 DEF Earlier
  <2>3. Cardinality(Earlier(I, R, i)) <= Cardinality(Earlier(I, R, j))
    BY <1>1, <2>1, FS_Subset
  <2>4. Cardinality(Earlier(I, R, i)) # Cardinality(Earlier(I, R, j))
    BY <1>1, <1>2, <2>1, <2>2, FS_Subset
  <2> QED BY <1>1, <2>3, <2>4
<1> QED BY <1>1, <1>3, <1>4

LEMMA EachPlace ==
  ASSUME NEW I, NEW R, Ordered(I, R), NEW k \in 1 .. Cardinality(I)
  PROVE  \E i \in I : Cardinality(Earlier(I, R, i)) = k - 1
<1> DEFINE n == Cardinality(I)
           f == [i \in I |-> Cardinality(Earlier(I, R, i))]
<1>1. IsFiniteSet(I) /\ n \in Nat
  BY FS_CardinalityType DEF Ordered
<1>2. \A i \in I : Cardinality(Earlier(I, R, i)) \in 0 .. n - 1
  BY EarlierCounts
<1>3. f \in Injection(I, 0 .. n - 1)
  <2>1. f \in [I -> 0 .. n - 1]
    BY <1>2
  <2>2. ASSUME NEW a \in I, NEW b \in I, a # b
        PROVE  f[a] # f[b]
    <3>1. <<a, b>> \in R \/ <<b, a>> \in R
      BY <2>2 DEF Ordered
    <3>2. <<a, b>> \in R => f[a] < f[b]
      BY EarlierCounts
    <3>3. <<b, a>> \in R => f[b] < f[a]
      BY EarlierCounts
    <3>4. f[a] \in Int /\ f[b] \in Int
      BY <1>2
    <3> HIDE DEF f
    <3> QED BY <3>1, <3>2, <3>3, <3>4
  <2> DEFINE T == 0 .. n - 1
  <2>3. f \in [I -> T]
    BY <2>1
  <2>4. \A a, b \in I : f[a] = f[b] => a = b
    BY <2>2
  <2> HIDE DEF f, T
  <2>5. f \in Injection(I, T)
    BY <2>3, <2>4, Fun_IsInj
  <2> QED BY <2>5 DEF T
<1>4. IsFiniteSet(0 .. n - 1) /\ Cardinality(0 .. n - 1) = n
  <2> HIDE DEF n
  <2>1. n - 1 \in Int /\ 0 \in Int /\ (0 > n - 1 => n = 0) /\ (n - 1) - 0 + 1 = n
    BY <1>1
  <2> QED BY <2>1, FS_Interval
<1> HIDE DEF f
<1>5. f \in Surjection(I, 0 .. n - 1)
  BY <1>3, <1>4, FS_Injection
<1>6. k - 1 \in 0 .. n - 1
  BY <1>1
<1>7. PICK i \in I : f[i] = k - 1
  BY <1>5, <1>6 DEF Surjection
<1> QED BY <1>7 DEF f

LEMMA OnePlace ==
  ASSUME NEW I, NEW R, Ordered(I, R), NEW i \in I, NEW j \in I,
         Cardinality(Earlier(I, R, i)) <= Cardinality(Earlier(I, R, j))
  PROVE  i = j \/ <<i, j>> \in R
<1>1. /\ Cardinality(Earlier(I, R, i)) \in 0 .. Cardinality(I) - 1
      /\ Cardinality(Earlier(I, R, j)) \in 0 .. Cardinality(I) - 1
      /\ <<j, i>> \in R => Cardinality(Earlier(I, R, j)) < Cardinality(Earlier(I, R, i))
  BY EarlierCounts
<1> DEFINE a == Cardinality(Earlier(I, R, i))
           b == Cardinality(Earlier(I, R, j))
<1>2. a \in Int /\ b \in Int /\ a <= b /\ (<<j, i>> \in R => b < a)
  BY <1>1
<1> HIDE DEF a, b
<1>3. <<j, i>> \notin R
  BY <1>2
<1> QED BY <1>3 DEF Ordered

(* The k-th element of a set in an order.                                  *)
InTurn(I, R, k) == CHOOSE i \in I : Cardinality(Earlier(I, R, i)) = k - 1

(* Each element of a finite set comes in its turn.                         *)
Enumerated(I, R) ==
  /\ Cardinality(I) \in Nat
  /\ \A k \in 1 .. Cardinality(I) : InTurn(I, R, k) \in I
  /\ \A k, l \in 1 .. Cardinality(I) : k < l => <<InTurn(I, R, k), InTurn(I, R, l)>> \in R
  /\ \A i \in I : \E k \in 1 .. Cardinality(I) : InTurn(I, R, k) = i

LEMMA EachInTurn ==
  ASSUME NEW I, NEW R, Ordered(I, R)
  PROVE  Enumerated(I, R)
<1> DEFINE N == Cardinality(I)
           c(i) == Cardinality(Earlier(I, R, i))
<1>1. N \in Nat
  BY FS_CardinalityType DEF Ordered
<1>2. ASSUME NEW k \in 1 .. N
      PROVE  InTurn(I, R, k) \in I /\ c(InTurn(I, R, k)) = k - 1
  <2>1. \E i \in I : Cardinality(Earlier(I, R, i)) = k - 1
    BY EachPlace
  <2> QED BY <2>1, Zenon DEF InTurn
<1>3. ASSUME NEW k \in 1 .. N, NEW l \in 1 .. N, k < l
      PROVE  <<InTurn(I, R, k), InTurn(I, R, l)>> \in R
  <2> DEFINE x == InTurn(I, R, k)
             y == InTurn(I, R, l)
  <2>1. x \in I /\ y \in I /\ c(x) = k - 1 /\ c(y) = l - 1
    BY <1>2
  <2>2. c(x) <= c(y) /\ c(x) # c(y)
    BY <1>1, <1>3, <2>1
  <2> HIDE DEF x, y
  <2>3. x = y \/ <<x, y>> \in R
    BY <2>1, <2>2, OnePlace
  <2> QED BY <2>2, <2>3 DEF x, y
<1>4. ASSUME NEW i \in I
      PROVE  \E k \in 1 .. N : InTurn(I, R, k) = i
  <2> DEFINE m == c(i)
             x == InTurn(I, R, m + 1)
  <2>1. m \in 0 .. N - 1
    BY EarlierCounts
  <2> HIDE DEF m
  <2>2. m + 1 \in 1 .. N /\ (m + 1) - 1 = m
    BY <1>1, <2>1
  <2>3. x \in I /\ c(x) = m
    BY <1>2, <2>2
  <2> HIDE DEF x
  <2>4. c(x) <= c(i) /\ c(i) <= c(x)
    BY <2>1, <2>3 DEF m
  <2>5. (x = i \/ <<x, i>> \in R) /\ (i = x \/ <<i, x>> \in R)
    BY <2>3, <2>4, OnePlace
  <2>6. x = i
    BY <2>3, <2>5 DEF Ordered
  <2> QED BY <2>2, <2>6 DEF x
<1> QED BY <1>1, <1>2, <1>3, <1>4 DEF Enumerated

(* The places of a sequence, in their own order.                           *)
Smaller == {p \in Nat \X Nat : p[1] < p[2]}

Increasing(places) ==
  /\ Cardinality(places) \in Nat
  /\ \A k \in 1 .. Cardinality(places) : Place(places, k) \in places
  /\ \A k, l \in 1 .. Cardinality(places) : k < l => Place(places, k) < Place(places, l)
  /\ \A i \in places : \E k \in 1 .. Cardinality(places) : Place(places, k) = i

LEMMA PlacesIncreasing ==
  ASSUME NEW n \in Nat, NEW places \in SUBSET (1 .. n)
  PROVE  Increasing(places)
<1>1. IsFiniteSet(places)
  <2> DEFINE U == 1 .. n
  <2>1. IsFiniteSet(U)
    BY FS_Interval
  <2>2. places \in SUBSET U
    OBVIOUS
  <2> HIDE DEF U
  <2> QED BY <2>1, <2>2, FS_Subset
<1>2. \A i, j \in places : <<i, j>> \in Smaller <=> i < j
  BY DEF Smaller
<1>3. Ordered(places, Smaller)
  <2>1. \A i \in places : i \in Nat
    OBVIOUS
  <2> QED BY <1>1, <1>2, <2>1 DEF Ordered
<1>4. \A k : Place(places, k) = InTurn(places, Smaller, k)
  <2>1. \A i \in places : Earlier(places, Smaller, i) = {j \in places : j < i}
    BY <1>2 DEF Earlier
  <2> QED BY <2>1, Zenon DEF Place, InTurn
<1>5. Enumerated(places, Smaller)
  BY <1>3, EachInTurn
<1> QED BY <1>2, <1>4, <1>5 DEF Enumerated, Increasing

(* A sequence of the items at some places.                                 *)
Selects(y, items, places) ==
  /\ Increasing(places)
  /\ Len(y) = Cardinality(places) /\ DOMAIN y = 1 .. Cardinality(places)
  /\ \A k \in 1 .. Cardinality(places) : y[k] = items[Place(places, k)]

LEMMA ItemsSelected ==
  ASSUME NEW S, NEW items \in Seq(S), NEW places \in SUBSET DOMAIN items
  PROVE  ItemsAt(items, places) \in Seq(S) /\ Selects(ItemsAt(items, places), items, places)
<1> DEFINE n == Len(items)
           c == Cardinality(places)
           y == ItemsAt(items, places)
<1>1. n \in Nat /\ places \in SUBSET (1 .. n) /\ \A i \in 1 .. n : items[i] \in S
  OBVIOUS
<1>2. Increasing(places)
  BY <1>1, PlacesIncreasing
<1>3. c \in Nat /\ \A k \in 1 .. c : Place(places, k) \in places
  BY <1>2 DEF Increasing
<1>4. y = [k \in 1 .. c |-> items[Place(places, k)]]
  BY DEF ItemsAt
<1> HIDE DEF n, c, y
<1>5. y \in [1 .. c -> S]
  BY <1>1, <1>3, <1>4
<1>6. y \in Seq(S) /\ Len(y) = c /\ DOMAIN y = 1 .. c
  BY <1>3, <1>5
<1>7. \A k \in 1 .. c : y[k] = items[Place(places, k)]
  BY <1>4
<1> QED BY <1>2, <1>6, <1>7 DEF Selects, c, y

(* Every place chosen is the place of one item, and no two the same.       *)
LEMMA SelectedOnce ==
  ASSUME NEW S, NEW items \in Seq(S), NEW places \in SUBSET DOMAIN items,
         \A i, j \in DOMAIN items : items[i] = items[j] => i = j
  PROVE  /\ \A k, l \in DOMAIN ItemsAt(items, places) :
              ItemsAt(items, places)[k] = ItemsAt(items, places)[l] => k = l
         /\ ToSet(ItemsAt(items, places)) = {items[i] : i \in places}
<1> DEFINE c == Cardinality(places)
           y == ItemsAt(items, places)
<1>1. Selects(y, items, places)
  BY ItemsSelected
<1> HIDE DEF y
<1>2. /\ c \in Nat /\ DOMAIN y = 1 .. c
      /\ \A k \in 1 .. c : y[k] = items[Place(places, k)] /\ Place(places, k) \in places
      /\ \A k, l \in 1 .. c : k < l => Place(places, k) < Place(places, l)
      /\ \A i \in places : \E k \in 1 .. c : Place(places, k) = i
  BY <1>1 DEF Selects, Increasing
<1> HIDE DEF c
<1>3. \A i \in places : i \in Nat /\ i \in DOMAIN items
  OBVIOUS
<1>4. ASSUME NEW k \in DOMAIN y, NEW l \in DOMAIN y, y[k] = y[l]
      PROVE  k = l
  <2>1. Place(places, k) = Place(places, l)
    BY <1>2, <1>3, <1>4
  <2>2. ~(k < l) /\ ~(l < k)
    BY <1>2, <1>3, <1>4, <2>1
  <2> QED BY <1>2, <1>4, <2>2
<1>5. ToSet(y) \subseteq {items[i] : i \in places}
  BY <1>2 DEF ToSet
<1>6. {items[i] : i \in places} \subseteq ToSet(y)
  <2> SUFFICES ASSUME NEW i \in places
               PROVE  items[i] \in ToSet(y)
    OBVIOUS
  <2>1. PICK k \in 1 .. c : Place(places, k) = i
    BY <1>2
  <2> QED BY <1>2, <2>1 DEF ToSet
<1> QED BY <1>4, <1>5, <1>6 DEF y

-----------------------------------------------------------------------------
Fields ==
  {"f", "aoData", "aiDisplayMaster", "aiDisplay", "asDataSearch", "sSearch", "sColumn",
   "aaSorting", "start", "initStart", "ajaxStart", "end", "length", "body", "open", "cookie",
   "loading", "iDraw", "requests", "recordsDisplay", "answer", "loose", "unsorted", "stale",
   "adrift"}

IsSettings(s) == DOMAIN s = Fields /\ s = [x \in Fields |-> s[x]]

(* Of two settings objects the second has the fields of the first, but for *)
(* some that may have changed.                                             *)
Leaves(s, r, changed) == IsSettings(s) /\ IsSettings(r) /\ \A x \in Fields \ changed : r[x] = s[x]

LEMMA CalculateEndLeaves ==
  ASSUME NEW s, IsSettings(s)
  PROVE  Leaves(s, CalculateEnd(s), {"end"})
BY DEF Leaves, IsSettings, CalculateEnd

LEMMA SaveStateLeaves ==
  ASSUME NEW s, IsSettings(s)
  PROVE  Leaves(s, SaveState(s), {"cookie"})
BY DEF Leaves, IsSettings, SaveState, Fields

LEMMA TakeInitStartLeaves ==
  ASSUME NEW s, IsSettings(s)
  PROVE  Leaves(s, TakeInitStart(s), {"start", "initStart", "end"})
<1> DEFINE t == [s EXCEPT !.start = InitStart(s), !.initStart = -1]
<1>1. Leaves(s, t, {"start", "initStart"})
  BY DEF Leaves, IsSettings, Fields
<1>2. Leaves(t, CalculateEnd(t), {"end"})
  BY <1>1, CalculateEndLeaves DEF Leaves
<1> HIDE DEF t
<1>3. TakeInitStart(s) = s \/ TakeInitStart(s) = CalculateEnd(t)
  BY DEF TakeInitStart, t
<1> QED BY <1>1, <1>2, <1>3 DEF Leaves

LEMMA CreateTrsLeaves ==
  ASSUME NEW s, IsSettings(s), NEW I
  PROVE  Leaves(s, CreateTrs(s, I), {"aoData"})
BY DEF Leaves, IsSettings, CreateTrs

LEMMA InsertRowsLeaves ==
  ASSUME NEW s, IsSettings(s)
  PROVE  Leaves(s, InsertRows(s), {"body", "aoData", "cookie"})
<1> DEFINE t == [s EXCEPT !.body = BodyOf(s)]
           u == CreateTrs(t, ToSet(Page(s)))
<1>1. Leaves(s, t, {"body"})
  BY DEF Leaves, IsSettings
<1>2. Leaves(t, u, {"aoData"})
  BY <1>1, CreateTrsLeaves DEF Leaves
<1>3. Leaves(u, SaveState(u), {"cookie"})
  BY <1>2, SaveStateLeaves DEF Leaves
<1> HIDE DEF t, u
<1>4. InsertRows(s) = s \/ InsertRows(s) = SaveState(u)
  BY DEF InsertRows, t, u
<1> QED BY <1>1, <1>2, <1>3, <1>4 DEF Leaves

LEMMA AjaxUpdateLeaves ==
  ASSUME NEW s, IsSettings(s)
  PROVE  Leaves(s, AjaxUpdate(s), {"iDraw", "requests"})
BY DEF Leaves, IsSettings, AjaxUpdate

DrawChanges ==
  {"start", "initStart", "end", "body", "aoData", "cookie", "iDraw", "requests"}

LEMMA DrawLeaves ==
  ASSUME NEW s, IsSettings(s)
  PROVE  Leaves(s, Draw(s), DrawChanges)
<1> DEFINE t == TakeInitStart(s)
<1>1. Leaves(s, t, {"start", "initStart", "end"})
  BY TakeInitStartLeaves
<1>2. /\ Leaves(t, InsertRows(t), {"body", "aoData", "cookie"})
      /\ Leaves(t, AjaxUpdate(t), {"iDraw", "requests"})
  BY <1>1, InsertRowsLeaves, AjaxUpdateLeaves DEF Leaves
<1> HIDE DEF t
<1>3. Draw(s) = InsertRows(t) \/ Draw(s) = AjaxUpdate(t)
  BY DEF Draw, t
<1> QED BY <1>1, <1>2, <1>3 DEF Leaves, DrawChanges

LEMMA FilterLeaves ==
  ASSUME NEW s, IsSettings(s), NEW input, NEW force \in BOOLEAN
  PROVE  Leaves(s, Filter(s, input, force), {"aiDisplay", "loose"})
<1> DEFINE Result(display, loose) == [s EXCEPT !.aiDisplay = display, !.loose = loose]
<1>1. ASSUME NEW display, NEW loose
      PROVE  Leaves(s, Result(display, loose), {"aiDisplay", "loose"})
  <2> DEFINE t == Result(display, loose)
  <2>1. DOMAIN t = Fields /\ t = [x \in Fields |-> t[x]]
    BY DEF IsSettings
  <2>2. \A x \in Fields \ {"aiDisplay", "loose"} : t[x] = s[x]
    BY DEF IsSettings
  <2> QED BY <2>1, <2>2 DEF Leaves, IsSettings
<1>2. \/ Filter(s, input, force) = Result(s.aiDisplayMaster, FALSE)
      \/ Filter(s, input, force) = Result(Refined(s, input), s.loose \/ s.stale)
      \/ Filter(s, input, force) = Result(Accepted(s, s.aiDisplayMaster, input), FALSE)
  BY DEF Filter
<1> HIDE DEF Result
<1> QED BY <1>1, <1>2

LEMMA FilterColumnLeaves ==
  ASSUME NEW s, IsSettings(s)
  PROVE  Leaves(s, FilterColumn(s), {"aiDisplay"})
BY DEF Leaves, IsSettings, FilterColumn, Fields

LEMMA BuildSearchArrayLeaves ==
  ASSUME NEW s, IsSettings(s)
  PROVE  Leaves(s, BuildSearchArray(s), {"asDataSearch", "stale"})
BY DEF Leaves, IsSettings, BuildSearchArray, Fields

FilterCompleteChanges ==
  DrawChanges \cup {"aiDisplay", "loose", "sSearch", "adrift", "asDataSearch", "stale"}

\* What _fnFilterComplete draws.
Filtered(s, input, force) ==
  [(IF s.f.bServerSide THEN s ELSE FilterColumn(Filter(s, input, force)))
     EXCEPT !.sSearch = input, !.start = 0, !.adrift = FALSE]

LEMMA FilteredLeaves ==
  ASSUME NEW s, IsSettings(s), NEW input, NEW force \in BOOLEAN
  PROVE  Leaves(s, Filtered(s, input, force), {"aiDisplay", "loose", "sSearch", "start", "adrift"})
<1> DEFINE t == Filter(s, input, force)
           u == IF s.f.bServerSide THEN s ELSE FilterColumn(t)
<1>1. Leaves(s, t, {"aiDisplay", "loose"})
  BY FilterLeaves
<1>2. Leaves(t, FilterColumn(t), {"aiDisplay"})
  BY <1>1, FilterColumnLeaves DEF Leaves
<1>3. Leaves(s, u, {"aiDisplay", "loose"})
  BY <1>1, <1>2 DEF Leaves
<1>4. Filtered(s, input, force) = [u EXCEPT !.sSearch = input, !.start = 0, !.adrift = FALSE]
  BY DEF Filtered
<1> HIDE DEF t, u
<1>5. IsSettings(u)
  BY <1>3 DEF Leaves
<1>6. Leaves(u, [u EXCEPT !.sSearch = input, !.start = 0, !.adrift = FALSE], {"sSearch", "start", "adrift"})
  BY <1>5 DEF Leaves, IsSettings, Fields
<1> QED BY <1>3, <1>4, <1>6 DEF Leaves

LEMMA FilterCompleteIs ==
  ASSUME NEW s, NEW input, NEW force
  PROVE  FilterComplete(s, input, force) =
           BuildSearchArray(Draw(CalculateEnd(Filtered(s, input, force))))
BY DEF FilterComplete, Filtered

LEMMA FilterCompleteLeaves ==
  ASSUME NEW s, IsSettings(s), NEW input, NEW force \in BOOLEAN
  PROVE  Leaves(s, FilterComplete(s, input, force), FilterCompleteChanges)
<1> DEFINE t == Filtered(s, input, force)
           u == CalculateEnd(t)
           v == Draw(u)
           w == BuildSearchArray(v)
<1>1. Leaves(s, t, {"aiDisplay", "loose", "sSearch", "start", "adrift"})
  BY FilteredLeaves
<1> HIDE DEF t
<1>2. Leaves(t, u, {"end"})
  BY <1>1, CalculateEndLeaves DEF Leaves
<1> HIDE DEF u
<1>3. Leaves(u, v, DrawChanges)
  BY <1>2, DrawLeaves DEF Leaves
<1> HIDE DEF v
<1>4. Leaves(v, w, {"asDataSearch", "stale"})
  BY <1>3, BuildSearchArrayLeaves DEF Leaves
<1>5. FilterComplete(s, input, force) = w
  BY FilterCompleteIs DEF t, u, v, w
<1> HIDE DEF w
<1> QED BY <1>1, <1>2, <1>3, <1>4, <1>5 DEF Leaves, FilterCompleteChanges, DrawChanges

\* What _fnSort draws where there is no search.
Unfiltered(s) ==
  [s EXCEPT !.aiDisplay = s.aiDisplayMaster, !.start = 0, !.adrift = FALSE, !.loose = FALSE]

LEMMA UnfilteredLeaves ==
  ASSUME NEW s, IsSettings(s)
  PROVE  Leaves(s, Unfiltered(s), {"aiDisplay", "start", "adrift", "loose"})
BY DEF Leaves, IsSettings, Unfiltered, Fields

LEMMA AfterSortIs ==
  ASSUME NEW s
  PROVE  /\ s.f.bFilter => AfterSort(s) = FilterComplete(s, s.sSearch, TRUE)
         /\ ~s.f.bFilter => AfterSort(s) = Draw(CalculateEnd(Unfiltered(s)))
BY DEF AfterSort, Unfiltered

LEMMA AfterSortLeaves ==
  ASSUME NEW s, IsSettings(s)
  PROVE  Leaves(s, AfterSort(s), FilterCompleteChanges)
<1> DEFINE t == Unfiltered(s)
           u == CalculateEnd(t)
<1>1. Leaves(s, t, {"aiDisplay", "start", "adrift", "loose"})
  BY UnfilteredLeaves
<1> HIDE DEF t
<1>2. Leaves(t, u, {"end"})
  BY <1>1, CalculateEndLeaves DEF Leaves
<1> HIDE DEF u
<1>3. Leaves(u, Draw(u), DrawChanges)
  BY <1>2, DrawLeaves DEF Leaves
<1>4. Leaves(s, FilterComplete(s, s.sSearch, TRUE), FilterCompleteChanges)
  BY FilterCompleteLeaves
<1>5. AfterSort(s) = Draw(u) \/ AfterSort(s) = FilterComplete(s, s.sSearch, TRUE)
  BY AfterSortIs DEF t, u
<1> QED BY <1>1, <1>2, <1>3, <1>4, <1>5 DEF Leaves, FilterCompleteChanges, DrawChanges

\* The settings with the master sorted.
Ranked(s) == [s EXCEPT !.aiDisplayMaster = SortedMaster(s), !.unsorted = FALSE]

LEMMA RankedLeaves ==
  ASSUME NEW s, IsSettings(s)
  PROVE  /\ Leaves(s, Ranked(s), {"aiDisplayMaster", "unsorted"})
         /\ Ranked(s).aiDisplayMaster = SortedMaster(s) /\ Ranked(s).unsorted = FALSE
BY DEF Leaves, IsSettings, Ranked, Fields

SortChanges == FilterCompleteChanges \cup {"aiDisplayMaster", "unsorted"}

LEMMA SortLeaves ==
  ASSUME NEW s, IsSettings(s)
  PROVE  Leaves(s, Sort(s), SortChanges)
<1> DEFINE t == Ranked(s)
<1>1. Leaves(s, t, {"aiDisplayMaster", "unsorted"})
  BY RankedLeaves
<1>2. Sort(s) = AfterSort(t)
  BY DEF Sort, Ranked
<1> HIDE DEF t
<1>3. Leaves(t, AfterSort(t), FilterCompleteChanges)
  BY <1>1, AfterSortLeaves DEF Leaves
<1> QED BY <1>1, <1>2, <1>3 DEF Leaves, SortChanges, FilterCompleteChanges, DrawChanges

LEMMA AddRowsLeaves ==
  ASSUME NEW s, IsSettings(s), NEW rows
  PROVE  Leaves(s, AddRows(s, rows), {"aoData", "aiDisplayMaster"})
<1> DEFINE added == [s EXCEPT !.aoData = @ \o rows,
                       !.aiDisplayMaster = @ \o [k \in DOMAIN rows |-> Len(s.aoData) + k]]
           I == {Len(s.aoData) + k : k \in DOMAIN rows}
<1>1. Leaves(s, added, {"aoData", "aiDisplayMaster"})
  BY DEF Leaves, IsSettings
<1>2. AddRows(s, rows) = added \/ AddRows(s, rows) = CreateTrs(added, I)
  BY DEF AddRows
<1> HIDE DEF added, I
<1>3. Leaves(added, CreateTrs(added, I), {"aoData"})
  BY <1>1, CreateTrsLeaves DEF Leaves
<1> QED BY <1>1, <1>2, <1>3 DEF Leaves

LEMMA ClearTableLeaves ==
  ASSUME NEW s, IsSettings(s)
  PROVE  /\ Leaves(s, ClearTable(s), {"aoData", "aiDisplayMaster", "aiDisplay", "end"})
         /\ ClearTable(s).aoData = << >> /\ ClearTable(s).aiDisplayMaster = << >>
         /\ ClearTable(s).aiDisplay = << >>
<1> DEFINE t == [s EXCEPT !.aoData = << >>, !.aiDisplayMaster = << >>, !.aiDisplay = << >>]
<1>1. Leaves(s, t, {"aoData", "aiDisplayMaster", "aiDisplay"})
  BY DEF Leaves, IsSettings, Fields
<1>2. t.aoData = << >> /\ t.aiDisplayMaster = << >> /\ t.aiDisplay = << >>
  BY DEF IsSettings, Fields
<1>3. ClearTable(s) = CalculateEnd(t)
  BY DEF ClearTable
<1> HIDE DEF t
<1>4. Leaves(t, CalculateEnd(t), {"end"})
  BY <1>1, CalculateEndLeaves DEF Leaves
<1> QED BY <1>1, <1>2, <1>3, <1>4 DEF Leaves, Fields

-----------------------------------------------------------------------------
RowType == [key : Keys, text : CellTexts, node : Nat]

Distinct(seq) == \A i, j \in DOMAIN seq : seq[i] = seq[j] => i = j

(* Rows of the table, each with its key, and a tr that knows its place.    *)
RowsOK(rows) ==
  /\ rows \in Seq(RowType)
  /\ \A i \in DOMAIN rows : rows[i].node \in {NoNode, i}
  /\ \A i, j \in DOMAIN rows : rows[i].key = rows[j].key => i = j

(* Indices of some of n rows, each once.                                   *)
Indexes(seq, n) == seq \in Seq(1 .. n) /\ Distinct(seq)

RowsValid(s) ==
  /\ RowsOK(s.aoData)
  /\ Indexes(s.aiDisplayMaster, Len(s.aoData)) /\ ToSet(s.aiDisplayMaster) = 1 .. Len(s.aoData)
  /\ Indexes(s.aiDisplay, Len(s.aoData))

(* Two tables of rows that differ in their trs only.                       *)
SameCells(rows, others) ==
  /\ Len(rows) = Len(others)
  /\ \A i \in DOMAIN rows : rows[i].key = others[i].key /\ rows[i].text = others[i].text

LEMMA CreateTrsKeeps ==
  ASSUME NEW s, IsSettings(s), RowsOK(s.aoData), NEW I
  PROVE  /\ RowsOK(CreateTrs(s, I).aoData) /\ SameCells(s.aoData, CreateTrs(s, I).aoData)
         /\ \A i \in DOMAIN s.aoData : i \in I => CreateTrs(s, I).aoData[i].node = i
<1> DEFINE rows == s.aoData
           new == [i \in DOMAIN rows |->
                     IF i \in I /\ rows[i].node = NoNode THEN [rows[i] EXCEPT !.node = i] ELSE rows[i]]
           n == Len(rows)
<1>1. CreateTrs(s, I).aoData = new
  BY DEF CreateTrs, IsSettings, Fields
<1>2. /\ n \in Nat /\ DOMAIN rows = 1 .. n
      /\ \A i \in 1 .. n : rows[i] \in RowType /\ rows[i].node \in {NoNode, i}
      /\ \A i, j \in 1 .. n : rows[i].key = rows[j].key => i = j
  BY DEF RowsOK
<1> HIDE DEF rows, n
<1>3. ASSUME NEW i \in 1 .. n
      PROVE  /\ new[i] \in RowType /\ new[i].node \in {NoNode, i}
             /\ new[i].key = rows[i].key /\ new[i].text = rows[i].text
             /\ i \in I => new[i].node = i
  BY <1>2 DEF RowType
<1>4. DOMAIN new = 1 .. n
  BY <1>2
<1> HIDE DEF new
<1>5. new \in [1 .. n -> RowType]
  <2>1. new = [i \in 1 .. n |-> new[i]]
    BY <1>2 DEF new
  <2> QED BY <1>3, <2>1
<1>6. new \in Seq(RowType) /\ Len(new) = n
  BY <1>2, <1>5
<1>7. RowsOK(new) /\ SameCells(rows, new)
  BY <1>2, <1>3, <1>4, <1>6 DEF RowsOK, SameCells, n
<1> QED BY <1>1, <1>2, <1>3, <1>7 DEF rows

LEMMA IndexesSelected ==
  ASSUME NEW n \in Nat, NEW seq, Indexes(seq, n), NEW places \in SUBSET DOMAIN seq
  PROVE  Indexes(ItemsAt(seq, places), n) /\ ToSet(ItemsAt(seq, places)) = {seq[i] : i \in places}
<1>1. seq \in Seq(1 .. n) /\ \A i, j \in DOMAIN seq : seq[i] = seq[j] => i = j
  BY DEF Indexes, Distinct
<1> DEFINE y == ItemsAt(seq, places)
           S == 1 .. n
<1>2. seq \in Seq(S)
  BY <1>1
<1> HIDE DEF S
<1>3. y \in Seq(S)
  BY <1>2, ItemsSelected
<1>4. /\ \A i, j \in DOMAIN y : y[i] = y[j] => i = j
      /\ ToSet(y) = {seq[i] : i \in places}
  BY <1>1, <1>2, SelectedOnce
<1> HIDE DEF y
<1>5. Indexes(y, n)
  BY <1>3, <1>4 DEF Indexes, Distinct, S
<1> QED BY <1>4, <1>5 DEF y

LEMMA AcceptedIndexes ==
  ASSUME NEW s, NEW n \in Nat, NEW seq, Indexes(seq, n), NEW input
  PROVE  Indexes(Accepted(s, seq, input), n)
<1> DEFINE places == {k \in DOMAIN seq : Accepts(input, s.aoData[seq[k]].text)}
<1>1. Accepted(s, seq, input) = ItemsAt(seq, places) /\ places \in SUBSET DOMAIN seq
  BY DEF Accepted
<1> HIDE DEF places
<1> QED BY <1>1, IndexesSelected

LEMMA RefinedIndexes ==
  ASSUME NEW s, NEW n \in Nat, Indexes(s.aiDisplay, n), NEW input
  PROVE  Indexes(Refined(s, input), n)
<1> DEFINE places == {k \in DOMAIN s.aiDisplay :
                        k \in DOMAIN s.asDataSearch => Accepts(input, s.asDataSearch[k])}
<1>1. Refined(s, input) = ItemsAt(s.aiDisplay, places) /\ places \in SUBSET DOMAIN s.aiDisplay
  BY DEF Refined
<1> HIDE DEF places
<1> QED BY <1>1, IndexesSelected

(* The order of the sorting, on the places of the master.                  *)
InOrder(s) == {p \in (DOMAIN s.aiDisplayMaster) \X (DOMAIN s.aiDisplayMaster) : Precedes(s, p[1], p[2])}

(* A strict weak order of the rows.                                        *)
WeakOrder(s) ==
  \A a, b, c \in DOMAIN s.aoData :
    /\ ~(Before(s, a, b) /\ Before(s, b, a))
    /\ Before(s, a, c) => Before(s, a, b) \/ Before(s, b, c)

LEMMA BeforeWeak ==
  ASSUME NEW s, RowsOK(s.aoData)
  PROVE  WeakOrder(s)
<1>1. \A a \in DOMAIN s.aoData : s.aoData[a].text \in CellTexts
  <2>1. \A a \in DOMAIN s.aoData : s.aoData[a] \in RowType
    BY DEF RowsOK
  <2> QED BY <2>1 DEF RowType
<1>2. SUFFICES ASSUME NEW a \in DOMAIN s.aoData, NEW b \in DOMAIN s.aoData, NEW c \in DOMAIN s.aoData
               PROVE  /\ ~(Before(s, a, b) /\ Before(s, b, a))
                      /\ Before(s, a, c) => Before(s, a, b) \/ Before(s, b, c)
  BY DEF WeakOrder
<1> DEFINE x == s.aoData[a].text
           y == s.aoData[b].text
           z == s.aoData[c].text
<1>3. x \in CellTexts /\ y \in CellTexts /\ z \in CellTexts
  BY <1>1, <1>2
<1>4. CASE s.aaSorting = "asc"
  <2>1. /\ Before(s, a, b) = Less(x, y) /\ Before(s, b, a) = Less(y, x)
        /\ Before(s, a, c) = Less(x, z) /\ Before(s, b, c) = Less(y, z)
    BY <1>4 DEF Before
  <2> HIDE DEF x, y, z
  <2> QED BY <1>3, <2>1, LessAssumption
<1>5. CASE s.aaSorting # "asc"
  <2>1. /\ Before(s, a, b) = Less(y, x) /\ Before(s, b, a) = Less(x, y)
        /\ Before(s, a, c) = Less(z, x) /\ Before(s, b, c) = Less(z, y)
    BY <1>5 DEF Before
  <2> HIDE DEF x, y, z
  <2> QED BY <1>3, <2>1, LessAssumption
<1> QED BY <1>4, <1>5

LEMMA MasterInOrder ==
  ASSUME NEW s, RowsValid(s)
  PROVE  Ordered(DOMAIN s.aiDisplayMaster, InOrder(s))
<1> DEFINE m == s.aiDisplayMaster
           P == DOMAIN m
           R == InOrder(s)
           B(l, k) == Before(s, m[l], m[k])
<1>1. P = 1 .. Len(m) /\ Len(m) \in Nat /\ \A k \in P : m[k] \in DOMAIN s.aoData
  <2>1. DOMAIN s.aoData = 1 .. Len(s.aoData) /\ m \in Seq(1 .. Len(s.aoData))
    BY DEF RowsValid, RowsOK, Indexes
  <2> QED BY <2>1
<1>2. WeakOrder(s)
  BY BeforeWeak DEF RowsValid
<1> DEFINE BB == {p \in P \X P : B(p[1], p[2])}
<1>3. ASSUME NEW j \in P, NEW k \in P, NEW l \in P
      PROVE  /\ ~(B(j, k) /\ B(k, j))
             /\ B(j, l) => B(j, k) \/ B(k, l)
  <2>1. m[j] \in DOMAIN s.aoData /\ m[k] \in DOMAIN s.aoData /\ m[l] \in DOMAIN s.aoData
    BY <1>1
  <2> DEFINE a == m[j]
             b == m[k]
             c == m[l]
  <2>2. a \in DOMAIN s.aoData /\ b \in DOMAIN s.aoData /\ c \in DOMAIN s.aoData
    BY <2>1
  <2> HIDE DEF a, b, c
  <2>3. /\ ~(Before(s, a, b) /\ Before(s, b, a))
        /\ Before(s, a, c) => Before(s, a, b) \/ Before(s, b, c)
    BY <1>2, <2>2, Zenon DEF WeakOrder
  <2> QED BY <2>3 DEF a, b, c
<1>4. \A k, l \in P : /\ <<k, l>> \in BB <=> B(k, l)
                      /\ <<k, l>> \in R <=> (B(k, l) \/ (k < l /\ ~B(l, k)))
  BY DEF InOrder, Precedes
<1>5. \A k \in P : k \in Int
  BY <1>1
<1>6. IsFiniteSet(P)
  BY <1>1, FS_Interval
<1>10. \A j, k, l \in P : /\ ~(<<j, k>> \in BB /\ <<k, j>> \in BB)
                          /\ <<j, l>> \in BB => <<j, k>> \in BB \/ <<k, l>> \in BB
  BY <1>3, <1>4
<1>11. \A k, l \in P : <<k, l>> \in R <=> (<<k, l>> \in BB \/ (k < l /\ <<l, k>> \notin BB))
  BY <1>4
<1> HIDE DEF P, R, B, BB
<1>7. \A k \in P : <<k, k>> \notin R
  BY <1>5, <1>10, <1>11
<1>12. \A k, l \in P : k < l \/ k = l \/ l < k
  BY <1>5
<1>13. \A j, k, l \in P : j < k /\ k < l => j < l
  BY <1>5
<1>8. ASSUME NEW k \in P, NEW l \in P
      PROVE  k = l \/ <<k, l>> \in R \/ <<l, k>> \in R
  <2>1. k < l \/ k = l \/ l < k
    BY <1>12
  <2>2. /\ <<k, l>> \in R <=> (<<k, l>> \in BB \/ (k < l /\ <<l, k>> \notin BB))
        /\ <<l, k>> \in R <=> (<<l, k>> \in BB \/ (l < k /\ <<k, l>> \notin BB))
    BY <1>11
  <2> QED BY <2>1, <2>2, Zenon
<1>9. ASSUME NEW j \in P, NEW k \in P, NEW l \in P, <<j, k>> \in R, <<k, l>> \in R
      PROVE  <<j, l>> \in R
  <2>1. /\ <<j, k>> \in R <=> (<<j, k>> \in BB \/ (j < k /\ <<k, j>> \notin BB))
        /\ <<k, l>> \in R <=> (<<k, l>> \in BB \/ (k < l /\ <<l, k>> \notin BB))
        /\ <<j, l>> \in R <=> (<<j, l>> \in BB \/ (j < l /\ <<l, j>> \notin BB))
    BY <1>11
  <2>2. j < k /\ k < l => j < l
    BY <1>13
  <2>3. /\ <<j, k>> \in BB => <<j, l>> \in BB \/ <<l, k>> \in BB
        /\ <<k, l>> \in BB => <<k, j>> \in BB \/ <<j, l>> \in BB
        /\ <<l, j>> \in BB => <<l, k>> \in BB \/ <<k, j>> \in BB
        /\ ~(<<k, l>> \in BB /\ <<l, k>> \in BB)
        /\ ~(<<j, k>> \in BB /\ <<k, j>> \in BB)
    BY <1>10
  <2> QED BY <1>9, <2>1, <2>2, <2>3, Zenon
<1> QED BY <1>6, <1>7, <1>8, <1>9 DEF Ordered, P, R

LEMMA NthInTurn ==
  ASSUME NEW s, RowsValid(s)
  PROVE  /\ Enumerated(DOMAIN s.aiDisplayMaster, InOrder(s))
         /\ Cardinality(DOMAIN s.aiDisplayMaster) = Len(s.aiDisplayMaster)
         /\ \A n : Nth(s, n) = InTurn(DOMAIN s.aiDisplayMaster, InOrder(s), n)
<1> DEFINE P == DOMAIN s.aiDisplayMaster
           R == InOrder(s)
           N == Len(s.aiDisplayMaster)
<1>1. Ordered(P, R)
  BY MasterInOrder
<1>2. Enumerated(P, R)
  BY <1>1, EachInTurn
<1>3. N \in Nat /\ P = 1 .. N
  BY DEF RowsValid, Indexes
<1>4. \A k \in P : Earlier(P, R, k) = {l \in P : Precedes(s, l, k)}
  BY DEF Earlier, InOrder
<1>5. \A n : Nth(s, n) = InTurn(P, R, n)
  BY <1>4, Zenon DEF Nth, InTurn
<1> HIDE DEF N, P, R
<1>6. N - 1 + 1 = N /\ (1 > N => N = 0) /\ N \in Int /\ 1 \in Int
  BY <1>3
<1>7. Cardinality(P) = N
  BY <1>3, <1>6, FS_Interval
<1> QED BY <1>2, <1>5, <1>7 DEF N, P, R

(* Sorting moves the indices, and loses none.                              *)
LEMMA SortedMasterIndexes ==
  ASSUME NEW s, RowsValid(s)
  PROVE  /\ Indexes(SortedMaster(s), Len(s.aoData))
         /\ ToSet(SortedMaster(s)) = ToSet(s.aiDisplayMaster)
         /\ Len(SortedMaster(s)) = Len(s.aiDisplayMaster)
<1> DEFINE m == s.aiDisplayMaster
           N == Len(m)
           S == 1 .. Len(s.aoData)
           new == [n \in DOMAIN m |-> m[Nth(s, n)]]
<1>1. /\ N \in Nat /\ DOMAIN m = 1 .. N /\ m \in Seq(S)
      /\ \A i, j \in 1 .. N : m[i] = m[j] => i = j
  BY DEF RowsValid, Indexes, Distinct
<1>2. /\ \A n \in 1 .. N : Nth(s, n) \in 1 .. N
      /\ \A k, l \in 1 .. N : k < l => Nth(s, k) # Nth(s, l)
      /\ \A i \in 1 .. N : \E k \in 1 .. N : Nth(s, k) = i
  <2> DEFINE P == DOMAIN m
             R == InOrder(s)
  <2>1. /\ P = 1 .. N /\ Cardinality(P) = N
        /\ Enumerated(P, R) /\ Ordered(P, R) /\ \A n : Nth(s, n) = InTurn(P, R, n)
    BY <1>1, NthInTurn, MasterInOrder
  <2> HIDE DEF P, R, N
  <2>2. \A n \in 1 .. N : Nth(s, n) \in 1 .. N
    BY <2>1 DEF Enumerated
  <2>3. \A k, l \in 1 .. N : k < l => <<Nth(s, k), Nth(s, l)>> \in R
    BY <2>1 DEF Enumerated
  <2>4. \A i \in 1 .. N : <<i, i>> \notin R
    BY <2>1 DEF Ordered
  <2>5. \A k, l \in 1 .. N : k < l => Nth(s, k) # Nth(s, l)
    BY <2>2, <2>3, <2>4
  <2>6. \A i \in 1 .. N : \E k \in 1 .. N : Nth(s, k) = i
    BY <2>1 DEF Enumerated
  <2> QED BY <2>2, <2>5, <2>6
<1>3. new = [n \in 1 .. N |-> m[Nth(s, n)]]
  BY <1>1
<1> HIDE DEF N, new, m, S
<1>4. \A n \in 1 .. N : m[n] \in S
  BY <1>1
<1>5. new \in [1 .. N -> S]
  BY <1>2, <1>3, <1>4
<1>6. new \in Seq(S) /\ Len(new) = N /\ DOMAIN new = 1 .. N
  BY <1>1, <1>5
<1>7. ASSUME NEW k \in 1 .. N, NEW l \in 1 .. N, new[k] = new[l]
      PROVE  k = l
  <2>1. Nth(s, k) = Nth(s, l)
    BY <1>1, <1>2, <1>3, <1>7
  <2>2. ~(k < l) /\ ~(l < k)
    BY <1>2, <2>1
  <2> QED BY <1>1, <2>2
<1>8. ToSet(new) = ToSet(m)
  <2>1. ToSet(new) = {new[k] : k \in 1 .. N} /\ ToSet(m) = {m[k] : k \in 1 .. N}
    BY <1>1, <1>6 DEF ToSet
  <2>2. \A k \in 1 .. N : \E j \in 1 .. N : m[k] = new[j]
    BY <1>2, <1>3
  <2>3. \A k \in 1 .. N : \E j \in 1 .. N : new[k] = m[j]
    BY <1>2, <1>3
  <2> QED BY <2>1, <2>2, <2>3
<1>9. Indexes(new, Len(s.aoData))
  BY <1>6, <1>7 DEF Indexes, Distinct, S
<1>10. SortedMaster(s) = new \/ SortedMaster(s) = m
  BY DEF SortedMaster, new, m
<1>11. Indexes(m, Len(s.aoData))
  BY DEF RowsValid, m
<1> QED BY <1>6, <1>8, <1>9, <1>10, <1>11 DEF m, N

(* Rows added at the end, with keys of their own.                          *)
LEMMA AddRowsKeeps ==
  ASSUME NEW s, IsSettings(s), RowsValid(s), s.f.bDeferRender \in BOOLEAN,
         NEW rows \in Seq(RowType),
         \A i \in DOMAIN rows : rows[i].node = NoNode,
         \A i, j \in DOMAIN rows : rows[i].key = rows[j].key => i = j,
         \A i \in DOMAIN rows, j \in DOMAIN s.aoData : rows[i].key # s.aoData[j].key
  PROVE  /\ RowsValid(AddRows(s, rows))
         /\ SameCells(s.aoData \o rows, AddRows(s, rows).aoData)
         /\ AddRows(s, rows).aiDisplayMaster =
              s.aiDisplayMaster \o [k \in DOMAIN rows |-> Len(s.aoData) + k]
<1> DEFINE old == s.aoData
           m == s.aiDisplayMaster
           n == Len(old)
           k0 == Len(rows)
           all == old \o rows
           more == [k \in DOMAIN rows |-> n + k]
           added == [s EXCEPT !.aoData = all, !.aiDisplayMaster = m \o more]
           I == {n + k : k \in DOMAIN rows}
<1>1. /\ n \in Nat /\ DOMAIN old = 1 .. n /\ old \in Seq(RowType)
      /\ k0 \in Nat /\ DOMAIN rows = 1 .. k0
      /\ \A i \in 1 .. n : old[i].node \in {NoNode, i}
      /\ \A i, j \in 1 .. n : old[i].key = old[j].key => i = j
      /\ \A i \in 1 .. k0 : rows[i].node = NoNode
      /\ \A i, j \in 1 .. k0 : rows[i].key = rows[j].key => i = j
      /\ \A i \in 1 .. k0, j \in 1 .. n : rows[i].key # old[j].key
  BY DEF RowsValid, RowsOK
<1>2. /\ m \in Seq(1 .. n) /\ Len(m) \in Nat /\ DOMAIN m = 1 .. Len(m)
      /\ \A i \in 1 .. Len(m) : m[i] \in 1 .. n
      /\ \A i, j \in 1 .. Len(m) : m[i] = m[j] => i = j
      /\ ToSet(m) = 1 .. n
  BY DEF RowsValid, Indexes, Distinct
<1>3. /\ IsSettings(added) /\ added.aoData = all /\ added.aiDisplayMaster = m \o more
      /\ added.aiDisplay = s.aiDisplay /\ added.f = s.f
  BY DEF IsSettings, Fields
<1>4. AddRows(s, rows) = IF s.f.bDeferRender THEN added ELSE CreateTrs(added, I)
  BY DEF AddRows
<1> HIDE DEF added, I
<1>5. /\ all \in Seq(RowType) /\ Len(all) = n + k0 /\ DOMAIN all = 1 .. n + k0
      /\ \A i \in 1 .. n : all[i] = old[i]
      /\ \A i \in 1 .. k0 : all[n + i] = rows[i]
  BY <1>1
<1>6. \A i \in 1 .. n + k0 : i \in 1 .. n \/ (i - n \in 1 .. k0 /\ i = n + (i - n))
  BY <1>1
<1> HIDE DEF all, old, n, k0
<1>7. RowsOK(all)
  <2>1. \A i \in 1 .. n + k0 : all[i].node \in {NoNode, i}
    <3> SUFFICES ASSUME NEW i \in 1 .. n + k0
                 PROVE  all[i].node \in {NoNode, i}
      OBVIOUS
    <3>1. CASE i \in 1 .. n
      BY <1>1, <1>5, <3>1
    <3>2. CASE i \notin 1 .. n
      <4>1. i - n \in 1 .. k0 /\ all[n + (i - n)] = rows[i - n] /\ n + (i - n) = i
        BY <1>5, <1>6, <3>2
      <4> QED BY <1>1, <4>1
    <3> QED BY <3>1, <3>2
  <2>2. ASSUME NEW i \in 1 .. n + k0, NEW j \in 1 .. n + k0, all[i].key = all[j].key
        PROVE  i = j
    <3>1. CASE i \in 1 .. n /\ j \in 1 .. n
      BY <1>1, <1>5, <2>2, <3>1
    <3>0. /\ i \notin 1 .. n => i - n \in 1 .. k0 /\ all[i] = rows[i - n]
          /\ j \notin 1 .. n => j - n \in 1 .. k0 /\ all[j] = rows[j - n]
      <4>1. /\ i \notin 1 .. n => i - n \in 1 .. k0 /\ i = n + (i - n)
            /\ j \notin 1 .. n => j - n \in 1 .. k0 /\ j = n + (j - n)
        BY <1>6
      <4>2. \A x \in 1 .. k0 : all[n + x] = rows[x]
        BY <1>5
      <4> QED BY <4>1, <4>2
    <3>2. CASE i \in 1 .. n /\ j \notin 1 .. n
      BY <1>1, <1>5, <2>2, <3>0, <3>2
    <3>3. CASE i \notin 1 .. n /\ j \in 1 .. n
      BY <1>1, <1>5, <2>2, <3>0, <3>3
    <3>4. CASE i \notin 1 .. n /\ j \notin 1 .. n
      <4>1. i - n \in 1 .. k0 /\ j - n \in 1 .. k0 /\ all[i] = rows[i - n] /\ all[j] = rows[j - n]
        BY <3>0, <3>4
      <4>2. i - n = j - n
        BY <1>1, <2>2, <4>1
      <4> QED BY <1>1, <4>2
    <3> QED BY <3>1, <3>2, <3>3, <3>4
  <2> QED BY <1>5, <2>1, <2>2 DEF RowsOK
<1>8. /\ more \in Seq(1 .. n + k0) /\ Len(more) = k0 /\ DOMAIN more = 1 .. k0
      /\ \A i \in 1 .. k0 : more[i] = n + i
  <2>1. more = [k \in 1 .. k0 |-> n + k] /\ \A k \in 1 .. k0 : n + k \in 1 .. n + k0
    BY <1>1
  <2> QED BY <1>1, <2>1
<1> HIDE DEF more, m
<1> DEFINE M == m \o more
           L == Len(m)
<1>9. /\ M \in Seq(1 .. n + k0) /\ Len(M) = L + k0 /\ DOMAIN M = 1 .. L + k0
      /\ \A i \in 1 .. L : M[i] = m[i] /\ M[i] \in 1 .. n
      /\ \A i \in 1 .. k0 : M[L + i] = n + i
      /\ \A i \in 1 .. L + k0 : i \in 1 .. L \/ (i - L \in 1 .. k0 /\ i = L + (i - L))
  <2>1. m \in Seq(1 .. n + k0)
    BY <1>1, <1>2
  <2>2. L \in Nat /\ DOMAIN m = 1 .. L /\ \A i \in 1 .. L : m[i] \in 1 .. n
    BY <1>2
  <2> HIDE DEF L
  <2>3. /\ M \in Seq(1 .. n + k0) /\ Len(M) = L + k0 /\ DOMAIN M = 1 .. L + k0
        /\ \A i \in 1 .. L : M[i] = m[i]
        /\ \A i \in 1 .. k0 : M[L + i] = more[i]
    <3> DEFINE S == 1 .. n + k0
    <3>1. m \in Seq(S) /\ more \in Seq(S)
      BY <1>8, <2>1
    <3> HIDE DEF S
    <3>2. m \o more \in Seq(S) /\ Len(m \o more) = Len(m) + Len(more)
      BY <3>1
    <3>3. \A i \in 1 .. Len(m) : (m \o more)[i] = m[i]
      BY <3>1
    <3>4. \A i \in 1 .. Len(more) : (m \o more)[Len(m) + i] = more[i]
      BY <3>1
    <3> QED BY <1>8, <3>2, <3>3, <3>4 DEF L, S
  <2>4. \A i \in 1 .. L + k0 : i \in 1 .. L \/ (i - L \in 1 .. k0 /\ i = L + (i - L))
    BY <1>1, <2>2
  <2> QED BY <1>8, <2>2, <2>3, <2>4
<1>10. L \in Nat
  BY <1>2
<1> HIDE DEF M, L
<1>11. \A i, j \in 1 .. L + k0 : M[i] = M[j] => i = j
  <2> SUFFICES ASSUME NEW i \in 1 .. L + k0, NEW j \in 1 .. L + k0, M[i] = M[j]
               PROVE  i = j
    OBVIOUS
  <2>0. /\ i \notin 1 .. L => i - L \in 1 .. k0 /\ M[i] = n + (i - L)
        /\ j \notin 1 .. L => j - L \in 1 .. k0 /\ M[j] = n + (j - L)
    BY <1>9
  <2>1. CASE i \in 1 .. L /\ j \in 1 .. L
    <3>1. M[i] = m[i] /\ M[j] = m[j]
      BY <1>9, <2>1
    <3> QED BY <1>2, <2>1, <3>1 DEF L
  <2>2. CASE i \in 1 .. L /\ j \notin 1 .. L
    <3>1. M[i] \in 1 .. n /\ j - L \in 1 .. k0 /\ M[j] = n + (j - L) /\ n \in Nat
      BY <1>1, <1>9, <2>0, <2>2
    <3> QED BY <3>1
  <2>3. CASE i \notin 1 .. L /\ j \in 1 .. L
    <3>1. M[j] \in 1 .. n /\ i - L \in 1 .. k0 /\ M[i] = n + (i - L) /\ n \in Nat
      BY <1>1, <1>9, <2>0, <2>3
    <3> QED BY <3>1
  <2>4. CASE i \notin 1 .. L /\ j \notin 1 .. L
    BY <1>1, <1>10, <2>0, <2>4
  <2> QED BY <2>1, <2>2, <2>3, <2>4
<1>12. ToSet(M) = 1 .. n + k0
  <2>1. ToSet(M) \subseteq 1 .. n + k0
    <3> DEFINE S == 1 .. n + k0
    <3>1. M \in Seq(S)
      BY <1>9
    <3> HIDE DEF S
    <3>2. ToSet(M) \subseteq S
      BY <3>1 DEF ToSet
    <3> QED BY <3>2 DEF S
  <2>2. ASSUME NEW x \in 1 .. n + k0
        PROVE  x \in ToSet(M)
    <3>1. CASE x \in 1 .. n
      <4>1. PICK i \in 1 .. L : m[i] = x
        BY <1>2, <3>1 DEF ToSet, L
      <4>2. i \in 1 .. L + k0 /\ M[i] = x
        BY <1>1, <1>9, <1>10, <4>1
      <4> QED BY <1>9, <4>2 DEF ToSet
    <3>2. CASE x \notin 1 .. n
      <4>1. x - n \in 1 .. k0 /\ n + (x - n) = x
        BY <1>1, <3>2
      <4>2. L + (x - n) \in 1 .. L + k0
        BY <1>1, <1>10, <4>1
      <4>3. M[L + (x - n)] = x
        BY <1>9, <4>1
      <4> QED BY <1>9, <4>2, <4>3 DEF ToSet
    <3> QED BY <3>1, <3>2
  <2> QED BY <2>1, <2>2
<1>13. Indexes(M, n + k0)
  BY <1>9, <1>11 DEF Indexes, Distinct
<1>14. Indexes(s.aiDisplay, n + k0)
  <2>1. s.aiDisplay \in Seq(1 .. n) /\ Distinct(s.aiDisplay)
    BY DEF RowsValid, Indexes, n, old
  <2>2. s.aiDisplay \in Seq(1 .. n + k0)
    BY <1>1, <2>1
  <2> QED BY <2>1, <2>2 DEF Indexes
<1>15. RowsValid(added) /\ SameCells(all, added.aoData)
  <2>1. added.aoData = all /\ added.aiDisplayMaster = M /\ added.aiDisplay = s.aiDisplay /\ Len(all) = n + k0
    BY <1>3, <1>5 DEF M
  <2> QED BY <1>7, <1>12, <1>13, <1>14, <2>1 DEF RowsValid, SameCells
<1> DEFINE t == CreateTrs(added, I)
<1>16. RowsOK(t.aoData) /\ SameCells(all, t.aoData)
  BY <1>3, <1>7, CreateTrsKeeps
<1>17. t.aiDisplayMaster = M /\ t.aiDisplay = s.aiDisplay /\ Len(t.aoData) = n + k0
  <2>1. Leaves(added, t, {"aoData"})
    BY <1>3, CreateTrsLeaves
  <2>2. Len(t.aoData) = n + k0
    BY <1>5, <1>16 DEF SameCells
  <2> HIDE DEF t
  <2> QED BY <1>3, <2>1, <2>2 DEF Leaves, Fields, M
<1> HIDE DEF t
<1>18. RowsValid(t)
  BY <1>12, <1>13, <1>14, <1>16, <1>17 DEF RowsValid
<1> QED BY <1>3, <1>4, <1>15, <1>16, <1>17, <1>18 DEF t, M, all, more, m, n, old

(* A sequence without one of its entries.                                  *)
LEMMA RemoveAtIs ==
  ASSUME NEW S, NEW seq \in Seq(S), NEW t \in 1 .. Len(seq)
  PROVE  /\ RemoveAt(seq, t) \in Seq(S) /\ Len(RemoveAt(seq, t)) = Len(seq) - 1
         /\ \A i \in 1 .. Len(seq) - 1 :
              RemoveAt(seq, t)[i] = IF i < t THEN seq[i] ELSE seq[i + 1]
<1> DEFINE n == Len(seq)
           a == SubSeq(seq, 1, t - 1)
           b == SubSeq(seq, t + 1, n)
<1>1. n \in Nat /\ t \in 1 .. n
  OBVIOUS
<1>2. a \in Seq(S) /\ Len(a) = t - 1 /\ \A i \in 1 .. t - 1 : a[i] = seq[i]
  OBVIOUS
<1>3. b \in Seq(S) /\ Len(b) = n - t /\ \A i \in 1 .. n - t : b[i] = seq[t + i]
  OBVIOUS
<1>4. RemoveAt(seq, t) = a \o b
  BY DEF RemoveAt
<1> HIDE DEF n, a, b
<1>5. a \o b \in Seq(S) /\ Len(a \o b) = n - 1
  <2>0. a \in Seq(S) /\ b \in Seq(S)
    BY <1>2, <1>3
  <2>1. a \o b \in Seq(S) /\ Len(a \o b) = Len(a) + Len(b)
    BY <2>0
  <2>2. (t - 1) + (n - t) = n - 1
    BY <1>1
  <2> QED BY <1>2, <1>3, <2>1, <2>2
<1>6. /\ \A i \in 1 .. t - 1 : (a \o b)[i] = a[i]
      /\ \A i \in 1 .. n - t : (a \o b)[t - 1 + i] = b[i]
  <2>0. a \in Seq(S) /\ b \in Seq(S)
    BY <1>2, <1>3
  <2>1. /\ \A i \in 1 .. Len(a) : (a \o b)[i] = a[i]
        /\ \A i \in 1 .. Len(b) : (a \o b)[Len(a) + i] = b[i]
    BY <2>0
  <2> QED BY <1>2, <1>3, <2>1
<1>7. ASSUME NEW i \in 1 .. n - 1
      PROVE  (a \o b)[i] = IF i < t THEN seq[i] ELSE seq[i + 1]
  <2>1. CASE i < t
    BY <1>1, <1>2, <1>6, <2>1
  <2>2. CASE ~(i < t)
    <3>1. i - (t - 1) \in 1 .. n - t /\ t - 1 + (i - (t - 1)) = i /\ t + (i - (t - 1)) = i + 1
      BY <1>1, <2>2
    <3> DEFINE k == i - (t - 1)
    <3>2. k \in 1 .. n - t /\ t - 1 + k = i /\ t + k = i + 1
      BY <3>1
    <3> HIDE DEF k
    <3>3. (a \o b)[t - 1 + k] = b[k] /\ b[k] = seq[t + k]
      BY <1>3, <1>6, <3>2
    <3> QED BY <2>2, <3>2, <3>3
  <2> QED BY <2>1, <2>2
<1> QED BY <1>4, <1>5, <1>7 DEF n

LEMMA DeleteIndexKeeps ==
  ASSUME NEW n \in Nat, NEW seq, Indexes(seq, n), NEW target \in 1 .. n
  PROVE  /\ Indexes(DeleteIndex(seq, target), n - 1)
         /\ ToSet(seq) = 1 .. n => ToSet(DeleteIndex(seq, target)) = 1 .. n - 1
<1> DEFINE places == {k \in DOMAIN seq : seq[k] # target}
           left == ItemsAt(seq, places)
           new == [k \in DOMAIN left |-> IF left[k] > target THEN left[k] - 1 ELSE left[k]]
           N == Len(left)
<1>1. Indexes(left, n) /\ ToSet(left) = {seq[i] : i \in places}
  BY IndexesSelected
<1>2. DeleteIndex(seq, target) = new
  BY DEF DeleteIndex
<1>3. \A k \in DOMAIN left : left[k] # target
  <2>1. \A k \in DOMAIN left : left[k] \in {seq[i] : i \in places}
    BY <1>1 DEF ToSet
  <2> QED BY <2>1
<1> HIDE DEF places, left
<1>4. /\ N \in Nat /\ DOMAIN left = 1 .. N /\ \A k \in 1 .. N : left[k] \in 1 .. n /\ left[k] # target
      /\ \A k, l \in 1 .. N : left[k] = left[l] => k = l
  BY <1>1, <1>3 DEF Indexes, Distinct
<1>5. new = [k \in 1 .. N |-> IF left[k] > target THEN left[k] - 1 ELSE left[k]]
  BY <1>4
<1> HIDE DEF new, N
<1>6. \A k \in 1 .. N : new[k] = (IF left[k] > target THEN left[k] - 1 ELSE left[k]) /\ new[k] \in 1 .. n - 1
  BY <1>4, <1>5
<1>7. new \in Seq(1 .. n - 1) /\ DOMAIN new = 1 .. N /\ Len(new) = N
  <2> DEFINE S == 1 .. n - 1
  <2>1. new \in [1 .. N -> S]
    BY <1>5, <1>6
  <2> HIDE DEF S
  <2>2. new \in Seq(S) /\ DOMAIN new = 1 .. N /\ Len(new) = N
    BY <1>4, <2>1
  <2> QED BY <2>2 DEF S
<1>8. ASSUME NEW k \in 1 .. N, NEW l \in 1 .. N, new[k] = new[l]
      PROVE  k = l
  <2> DEFINE a == left[k]
             b == left[l]
  <2>1. /\ a \in 1 .. n /\ b \in 1 .. n /\ a # target /\ b # target
        /\ target \in Int /\ a \in Int /\ b \in Int
    BY <1>4
  <2>2. (IF a > target THEN a - 1 ELSE a) = (IF b > target THEN b - 1 ELSE b)
    BY <1>6, <1>8
  <2> HIDE DEF a, b
  <2>3. a = b
    BY <2>1, <2>2
  <2> QED BY <1>4, <2>3 DEF a, b
<1>9. Indexes(new, n - 1)
  BY <1>7, <1>8 DEF Indexes, Distinct
<1>10. ASSUME ToSet(seq) = 1 .. n
       PROVE  ToSet(new) = 1 .. n - 1
  <2>1. ToSet(left) = (1 .. n) \ {target}
    <3>1. {seq[i] : i \in places} = ToSet(seq) \ {target}
      BY DEF places, ToSet
    <3> QED BY <1>1, <1>10, <3>1
  <2>2. \A x \in 1 .. n : x # target => \E k \in 1 .. N : left[k] = x
    <3>1. ToSet(left) = {left[k] : k \in 1 .. N}
      BY <1>4 DEF ToSet
    <3> QED BY <2>1, <3>1
  <2>3. \A x \in 1 .. n - 1 : \E k \in 1 .. N : new[k] = x
    <3> SUFFICES ASSUME NEW x \in 1 .. n - 1
                 PROVE  \E k \in 1 .. N : new[k] = x
      OBVIOUS
    <3>1. CASE x < target
      <4>1. PICK k \in 1 .. N : left[k] = x
        BY <2>2, <3>1
      <4> QED BY <1>6, <3>1, <4>1
    <3>2. CASE x >= target
      <4>1. x + 1 \in 1 .. n /\ x + 1 # target /\ x + 1 > target
        BY <3>2
      <4>2. PICK k \in 1 .. N : left[k] = x + 1
        BY <2>2, <4>1
      <4> QED BY <1>6, <4>1, <4>2
    <3> QED BY <3>1, <3>2
  <2>4. ToSet(new) = {new[k] : k \in 1 .. N}
    BY <1>7 DEF ToSet
  <2>5. \A k \in 1 .. N : new[k] \in 1 .. n - 1
    BY <1>6
  <2> QED BY <2>3, <2>4, <2>5
<1> QED BY <1>2, <1>9, <1>10

LEMMA SplicedRowsKeeps ==
  ASSUME NEW s, RowsOK(s.aoData), NEW target \in DOMAIN s.aoData
  PROVE  /\ RowsOK(SplicedRows(s, target)) /\ Len(SplicedRows(s, target)) = Len(s.aoData) - 1
         /\ SameCells(RemoveAt(s.aoData, target), SplicedRows(s, target))
<1> DEFINE rows == s.aoData
           n == Len(rows)
           left == RemoveAt(rows, target)
           new == [i \in DOMAIN left |->
                     IF left[i].node = NoNode THEN left[i] ELSE [left[i] EXCEPT !.node = i]]
<1>1. /\ rows \in Seq(RowType) /\ n \in Nat /\ target \in 1 .. n
      /\ \A i \in 1 .. n : rows[i] \in RowType
      /\ \A i, j \in 1 .. n : rows[i].key = rows[j].key => i = j
  BY DEF RowsOK
<1>2. /\ left \in Seq(RowType) /\ Len(left) = n - 1
      /\ \A i \in 1 .. n - 1 : left[i] = IF i < target THEN rows[i] ELSE rows[i + 1]
  BY <1>1, RemoveAtIs
<1>3. SplicedRows(s, target) = new
  BY DEF SplicedRows
<1> HIDE DEF left, rows, n
<1>4. DOMAIN left = 1 .. n - 1 /\ \A i \in 1 .. n - 1 : left[i] \in RowType
  BY <1>2
<1>5. new = [i \in 1 .. n - 1 |->
               IF left[i].node = NoNode THEN left[i] ELSE [left[i] EXCEPT !.node = i]]
  BY <1>4
<1> HIDE DEF new
<1>6. ASSUME NEW i \in 1 .. n - 1
      PROVE  /\ new[i] \in RowType /\ new[i].node \in {NoNode, i}
             /\ new[i].key = left[i].key /\ new[i].text = left[i].text
  <2>1. i \in Nat /\ left[i] \in RowType
    BY <1>4
  <2> QED BY <1>5, <2>1 DEF RowType
<1>7. new \in Seq(RowType) /\ DOMAIN new = 1 .. n - 1 /\ Len(new) = n - 1
  <2>1. new \in [1 .. n - 1 -> RowType]
    BY <1>5, <1>6
  <2> QED BY <1>1, <2>1
<1>8. ASSUME NEW i \in 1 .. n - 1, NEW j \in 1 .. n - 1, new[i].key = new[j].key
      PROVE  i = j
  <2>1. left[i].key = left[j].key
    BY <1>6, <1>8
  <2>2. i + 1 \in 1 .. n /\ j + 1 \in 1 .. n /\ i \in 1 .. n /\ j \in 1 .. n
    BY <1>1
  <2> DEFINE a == IF i < target THEN i ELSE i + 1
             b == IF j < target THEN j ELSE j + 1
  <2>3. a \in 1 .. n /\ b \in 1 .. n /\ left[i] = rows[a] /\ left[j] = rows[b]
    BY <1>2, <2>2
  <2>4. a = b => i = j
    BY <1>1
  <2> HIDE DEF a, b
  <2>5. a = b
    BY <1>1, <2>1, <2>3
  <2> QED BY <2>4, <2>5
<1> QED BY <1>2, <1>3, <1>4, <1>6, <1>7, <1>8 DEF RowsOK, SameCells, n, left, rows

-----------------------------------------------------------------------------
TrType == [tr : {"row", "detail"}, key : Keys]

(* Every tr once, and details directly behind their row.                   *)
BodyOK(body) ==
  /\ body \in Seq(TrType) /\ Distinct(body)
  /\ \A i \in DOMAIN body : body[i].tr = "detail" => i > 1 /\ body[i - 1] = Row(body[i].key)

(* The details of the open rows in the body are there.                     *)
DetailsShown(body, open) ==
  \A key \in open : Row(key) \in ToSet(body) => Detail(key) \in ToSet(body)

LEMMA PlaceBefore ==
  ASSUME NEW places, Increasing(places), \A i \in places : i \in Int,
         NEW k \in 1 .. Cardinality(places), Place(places, k) - 1 \in places
  PROVE  k > 1 /\ Place(places, k - 1) = Place(places, k) - 1
<1> DEFINE N == Cardinality(places)
           p == Place(places, k)
<1>1. /\ N \in Nat /\ p \in Int
      /\ \A i \in 1 .. N : Place(places, i) \in Int
      /\ \A i, j \in 1 .. N : i < j => Place(places, i) < Place(places, j)
  BY DEF Increasing
<1>2. PICK j \in 1 .. N : Place(places, j) = p - 1
  BY DEF Increasing
<1>3. k \in 1 .. N /\ Place(places, k) = p
  OBVIOUS
<1> HIDE DEF N, p
<1>4. j < k
  <2>1. ~(k < j) /\ k # j
    BY <1>1, <1>2, <1>3
  <2> QED BY <1>2, <1>3, <2>1
<1>5. k - 1 \in 1 .. N
  <2>1. j \in Int /\ 1 <= j /\ k \in Int /\ k <= N
    BY <1>1, <1>3
  <2> QED BY <1>1, <1>4, <2>1
<1>6. ~(j < k - 1)
  <2> SUFFICES ASSUME j < k - 1
               PROVE  FALSE
    OBVIOUS
  <2>1. Place(places, j) < Place(places, k - 1) /\ Place(places, k - 1) < Place(places, k)
    BY <1>1, <1>3, <1>5
  <2> QED BY <1>1, <1>2, <1>3, <1>5, <2>1
<1>7. j = k - 1
  BY <1>4, <1>5, <1>6
<1> QED BY <1>2, <1>4, <1>7 DEF p

LEMMA Halves ==
  ASSUME NEW n \in Nat, NEW p \in Int, 1 <= p, p <= 2 * n
  PROVE  (p + 1) \div 2 \in 1 .. n /\ p % 2 \in {0, 1}
OBVIOUS

LEMMA SameHalves ==
  ASSUME NEW p \in Int, NEW q \in Int, p % 2 = q % 2, (p + 1) \div 2 = (q + 1) \div 2
  PROVE  p = q
OBVIOUS

LEMMA AllTrsIs ==
  ASSUME NEW s, RowsOK(s.aoData), NEW page, Indexes(page, Len(s.aoData))
  PROVE  /\ AllTrs(s, page) \in Seq(TrType) /\ Len(AllTrs(s, page)) = 2 * Len(page)
         /\ Distinct(AllTrs(s, page))
         /\ \A j \in DOMAIN page :
              /\ AllTrs(s, page)[2 * j - 1] = Row(s.aoData[page[j]].key)
              /\ AllTrs(s, page)[2 * j] = Detail(s.aoData[page[j]].key)
<1> DEFINE n == Len(s.aoData)
           L == Len(page)
           rows == s.aoData
           all == AllTrs(s, page)
           at(p) == (p + 1) \div 2
           key(p) == rows[page[at(p)]].key
<1>1. /\ n \in Nat /\ L \in Nat /\ DOMAIN page = 1 .. L
      /\ \A j \in 1 .. L : page[j] \in 1 .. n
      /\ \A i, j \in 1 .. L : page[i] = page[j] => i = j
      /\ \A i \in 1 .. n : rows[i].key \in Keys
      /\ \A i, j \in 1 .. n : rows[i].key = rows[j].key => i = j
  <2>1. rows \in Seq(RowType) /\ n \in Nat /\ DOMAIN rows = 1 .. n
    BY DEF RowsOK
  <2>2. \A i \in 1 .. n : rows[i] \in RowType
    BY <2>1
  <2>3. \A i \in 1 .. n : rows[i].key \in Keys
    BY <2>2 DEF RowType
  <2> QED BY <2>1, <2>3 DEF RowsOK, Indexes, Distinct
<1>2. all = [p \in 1 .. 2 * L |-> IF p % 2 = 1 THEN Row(key(p)) ELSE Detail(key(p))]
  BY DEF AllTrs
<1>3. ASSUME NEW p \in 1 .. 2 * L
      PROVE  at(p) \in 1 .. L /\ p % 2 \in {0, 1}
  <2>1. L \in Nat /\ p \in Int /\ 1 <= p /\ p <= 2 * L
    BY <1>1, <1>3
  <2> HIDE DEF L
  <2> QED BY <2>1, Halves
<1>4. ASSUME NEW j \in 1 .. L
      PROVE  /\ 2 * j - 1 \in 1 .. 2 * L /\ at(2 * j - 1) = j /\ (2 * j - 1) % 2 = 1
             /\ 2 * j \in 1 .. 2 * L /\ at(2 * j) = j /\ (2 * j) % 2 = 0
  BY <1>1
<1> HIDE DEF n, L, all, rows, at
<1>5. \A p \in 1 .. 2 * L : key(p) \in Keys
  BY <1>1, <1>3
<1> HIDE DEF key
<1>6. \A k \in Keys : Row(k) \in TrType /\ Detail(k) \in TrType
  BY DEF TrType, Row, Detail
<1>7. all \in Seq(TrType) /\ Len(all) = 2 * L /\ DOMAIN all = 1 .. 2 * L
  <2>1. all \in [1 .. 2 * L -> TrType]
    BY <1>2, <1>5, <1>6
  <2> QED BY <1>1, <2>1
<1>8. \A p \in 1 .. 2 * L : all[p] = IF p % 2 = 1 THEN Row(key(p)) ELSE Detail(key(p))
  BY <1>2
<1>9. \A k, l : /\ Row(k) = Row(l) => k = l
                /\ Detail(k) = Detail(l) => k = l
                /\ Row(k) # Detail(l)
  BY DEF Row, Detail
<1>10. ASSUME NEW p \in 1 .. 2 * L, NEW q \in 1 .. 2 * L, all[p] = all[q]
       PROVE  p = q
  <2>1. p % 2 = q % 2 /\ key(p) = key(q)
    BY <1>3, <1>8, <1>9, <1>10
  <2>2. at(p) = at(q)
    BY <1>1, <1>3, <2>1 DEF key
  <2>3. (p + 1) \div 2 = (q + 1) \div 2
    BY <2>2 DEF at
  <2> QED BY <2>1, <2>3, SameHalves
<1>11. ASSUME NEW j \in 1 .. L
       PROVE  all[2 * j - 1] = Row(rows[page[j]].key) /\ all[2 * j] = Detail(rows[page[j]].key)
  BY <1>4, <1>8 DEF key
<1> QED BY <1>1, <1>7, <1>10, <1>11 DEF Distinct, all, L, rows

LEMMA Pairs ==
  ASSUME NEW n \in Nat, NEW p \in 1 .. 2 * n
  PROVE  \E j \in 1 .. n : p = 2 * j - 1 \/ p = 2 * j
<1> DEFINE j == (p + 1) \div 2
<1>1. j \in 1 .. n
  BY Halves
<1>2. p = 2 * j - 1 \/ p = 2 * j
  OBVIOUS
<1> QED BY <1>1, <1>2

LEMMA AllTrsPaired ==
  ASSUME NEW s, RowsOK(s.aoData), NEW page, Indexes(page, Len(s.aoData)),
         NEW p \in DOMAIN AllTrs(s, page)
  PROVE  LET all == AllTrs(s, page)
         IN \/ /\ all[p] = Row(all[p].key)
               /\ p + 1 \in DOMAIN all /\ all[p + 1] = Detail(all[p].key)
            \/ /\ all[p] = Detail(all[p].key)
               /\ p - 1 \in DOMAIN all /\ all[p - 1] = Row(all[p].key)
<1> DEFINE all == AllTrs(s, page)
           L == Len(page)
           key(j) == s.aoData[page[j]].key
<1>1. L \in Nat /\ DOMAIN page = 1 .. L
  BY DEF Indexes
<1>2. /\ DOMAIN all = 1 .. 2 * L
      /\ \A j \in 1 .. L : all[2 * j - 1] = Row(key(j)) /\ all[2 * j] = Detail(key(j))
  <2>1. all \in Seq(TrType) /\ Len(all) = 2 * L
    BY AllTrsIs
  <2>2. \A j \in DOMAIN page : all[2 * j - 1] = Row(key(j)) /\ all[2 * j] = Detail(key(j))
    BY AllTrsIs
  <2> HIDE DEF all
  <2> QED BY <1>1, <2>1, <2>2
<1>3. p \in 1 .. 2 * L
  BY <1>2
<1> HIDE DEF all, L, key
<1>4. PICK j \in 1 .. L : p = 2 * j - 1 \/ p = 2 * j
  BY <1>1, <1>3, Pairs
<1>5. all[2 * j - 1] = Row(key(j)) /\ all[2 * j] = Detail(key(j))
  BY <1>2
<1>6. Row(key(j)).key = key(j) /\ Detail(key(j)).key = key(j)
  BY DEF Row, Detail
<1>7. CASE p = 2 * j - 1
  <2>1. p + 1 = 2 * j /\ 2 * j \in 1 .. 2 * L
    BY <1>1, <1>4, <1>7
  <2> QED BY <1>2, <1>5, <1>6, <1>7, <2>1 DEF all
<1>8. CASE p = 2 * j
  <2>1. p - 1 = 2 * j - 1 /\ 2 * j - 1 \in 1 .. 2 * L
    BY <1>1, <1>4, <1>8
  <2> QED BY <1>2, <1>5, <1>6, <1>8, <2>1 DEF all
<1> QED BY <1>4, <1>7, <1>8

LEMMA BodyOfIs ==
  ASSUME NEW s, RowsOK(s.aoData), Indexes(Page(s), Len(s.aoData))
  PROVE  /\ BodyOK(BodyOf(s)) /\ DetailsShown(BodyOf(s), s.open)
         /\ Page(s) # << >> => BodyOf(s) # << >>
<1> DEFINE page == Page(s)
           all == AllTrs(s, page)
           places == {p \in DOMAIN all : all[p].tr = "detail" => all[p].key \in s.open}
           body == BodyOf(s)
<1>1. body = ItemsAt(all, places) /\ places \in SUBSET DOMAIN all
  BY DEF BodyOf
<1>2. all \in Seq(TrType) /\ Len(all) = 2 * Len(page) /\ Distinct(all)
  BY AllTrsIs
<1>3. ASSUME NEW p \in DOMAIN all
      PROVE  \/ /\ all[p] = Row(all[p].key)
                /\ p + 1 \in DOMAIN all /\ all[p + 1] = Detail(all[p].key)
             \/ /\ all[p] = Detail(all[p].key)
                /\ p - 1 \in DOMAIN all /\ all[p - 1] = Row(all[p].key)
  BY <1>3, AllTrsPaired
<1>4. \A p \in DOMAIN all : p \in places <=> (all[p].tr = "detail" => all[p].key \in s.open)
  OBVIOUS
<1>5. \A k : Row(k).tr = "row" /\ Detail(k).tr = "detail" /\ Row(k).key = k /\ Detail(k).key = k
  BY DEF Row, Detail
<1>6. Len(page) \in Nat /\ (page # << >> => Len(page) > 0)
  BY DEF Indexes
<1> HIDE DEF page, all, places, body
<1>7. body \in Seq(TrType) /\ Selects(body, all, places)
  BY <1>1, <1>2, ItemsSelected
<1>8. /\ DOMAIN body = 1 .. Cardinality(places)
      /\ \A k \in 1 .. Cardinality(places) : body[k] = all[Place(places, k)]
      /\ Increasing(places)
      /\ \A k \in 1 .. Cardinality(places) : Place(places, k) \in places
      /\ \A i \in places : \E k \in 1 .. Cardinality(places) : Place(places, k) = i
  BY <1>7 DEF Selects, Increasing
<1>9. \A i \in places : i \in Int
  BY <1>1, <1>2
<1>10. Distinct(body)
  BY <1>1, <1>2, SelectedOnce DEF Distinct
<1>11. ASSUME NEW i \in DOMAIN body, body[i].tr = "detail"
       PROVE  i > 1 /\ body[i - 1] = Row(body[i].key)
  <2> DEFINE p == Place(places, i)
  <2>1. p \in places /\ p \in DOMAIN all /\ body[i] = all[p]
    BY <1>1, <1>8
  <2>2. all[p] = Detail(all[p].key) /\ p - 1 \in DOMAIN all /\ all[p - 1] = Row(all[p].key)
    <3> HIDE DEF p
    <3>1. all[p] # Row(all[p].key)
      BY <1>5, <1>11, <2>1
    <3> QED BY <1>3, <2>1, <3>1
  <2>3. p - 1 \in places
    <3> HIDE DEF p
    <3>1. all[p - 1].tr # "detail"
      BY <1>5, <2>2
    <3> QED BY <1>4, <2>2, <3>1
  <2>4. i \in 1 .. Cardinality(places)
    BY <1>8
  <2>5. i > 1 /\ Place(places, i - 1) = p - 1
    BY <1>8, <1>9, <2>3, <2>4, PlaceBefore
  <2>6. Cardinality(places) \in Nat
    BY <1>8 DEF Increasing
  <2>7. i - 1 \in 1 .. Cardinality(places)
    BY <2>4, <2>5, <2>6
  <2>8. body[i - 1] = all[p - 1]
    BY <1>8, <2>5, <2>7
  <2> QED BY <2>1, <2>2, <2>5, <2>8
<1>12. BodyOK(body)
  BY <1>7, <1>10, <1>11 DEF BodyOK
<1>13. \A x : x \in ToSet(body) <=> \E p \in places : all[p] = x
  <2>1. \A x : x \in ToSet(body) <=> \E k \in DOMAIN body : body[k] = x
    BY DEF ToSet
  <2> QED BY <1>8, <2>1
<1>14. ASSUME NEW key \in s.open, Row(key) \in ToSet(body)
       PROVE  Detail(key) \in ToSet(body)
  <2>1. PICK p \in places : all[p] = Row(key)
    BY <1>13, <1>14
  <2>2. p \in DOMAIN all /\ all[p].key = key /\ all[p] # Detail(all[p].key)
    <3>1. p \in DOMAIN all /\ all[p].key = key
      BY <1>1, <1>5, <2>1
    <3>2. all[p].tr = "row"
      BY <1>5, <2>1
    <3> QED BY <1>5, <3>1, <3>2
  <2>3. p + 1 \in DOMAIN all /\ all[p + 1] = Detail(key)
    BY <1>3, <2>2
  <2>4. p + 1 \in places
    BY <1>4, <1>5, <1>14, <2>3
  <2> QED BY <1>13, <2>3, <2>4
<1>15. ASSUME page # << >>
       PROVE  body # << >>
  <2>1. Len(page) \in Nat /\ Len(page) > 0
    BY <1>6, <1>15
  <2>2. 1 \in DOMAIN all /\ ~(1 - 1 \in DOMAIN all)
    <3>1. DOMAIN all = 1 .. 2 * Len(page)
      BY <1>2
    <3> QED BY <2>1, <3>1
  <2>3. all[1] = Row(all[1].key)
    BY <1>3, <2>2
  <2>4. 1 \in places
    <3>1. all[1].tr # "detail"
      BY <1>5, <2>3
    <3> QED BY <1>4, <2>2, <3>1
  <2>5. DOMAIN body # {}
    BY <1>8, <2>4
  <2> QED BY <2>5
<1> QED BY <1>12, <1>14, <1>15 DEF DetailsShown, body, page

-----------------------------------------------------------------------------
PageLengths == (Nat \ {0}) \cup {-1}

Numbers(s) ==
  /\ s.start \in Int /\ s.initStart \in Int /\ s.ajaxStart \in Int /\ s.end \in Int
  /\ s.length \in PageLengths /\ s.recordsDisplay \in Nat
  /\ \A saved \in s.cookie : saved.start \in Int /\ saved.length \in PageLengths
  /\ \A request \in s.requests :
       request.params.start \in Int /\ request.params.length \in PageLengths

(* Rows of an Ajax source that are waited for are not there already, and   *)
(* only a table with a server has requests.                                *)
Pending(s) ==
  /\ s.loading => /\ ~s.f.bServerSide
                  /\ \A i \in DOMAIN s.aoData : s.aoData[i].key \notin DOMAIN SourceRows
  /\ s.requests # {} => s.f.bServerSide

Base(s) ==
  /\ IsSettings(s) /\ s.f \in Features
  /\ RowsValid(s) /\ Numbers(s) /\ Pending(s)
  /\ BodyOK(s.body) /\ DetailsShown(s.body, s.open)

(* The page begins with a row, unless calls of the script led elsewhere.   *)
Started(s) ==
  ~s.f.bServerSide /\ ~s.adrift => s.start <= 0 \/ s.start < Len(s.aiDisplay)

(* Ready to be drawn: the page ends within the rows, and not before it     *)
(* begins.                                                                 *)
Ready(s) ==
  ~s.f.bServerSide =>
    /\ s.end <= Len(s.aiDisplay)
    /\ ~s.adrift /\ s.start >= 0 /\ s.aiDisplay # << >> => s.start < s.end

Shown(s) ==
  ~s.f.bServerSide /\ ~s.adrift /\ s.start >= 0 /\ s.aiDisplay # << >> => s.body # << >>

Good(s) == Base(s) /\ Started(s) /\ Shown(s)

LEMMA FeaturesBoolean ==
  ASSUME NEW s, Base(s)
  PROVE  /\ s.f.bFilter \in BOOLEAN /\ s.f.bSort \in BOOLEAN /\ s.f.bPaginate \in BOOLEAN
         /\ s.f.bServerSide \in BOOLEAN /\ s.f.bDeferRender \in BOOLEAN
         /\ s.f.bStateSave \in BOOLEAN
BY FeaturesAssumption DEF Base

(* Fields that the invariant does not speak of.                            *)
Aside == {"asDataSearch", "sSearch", "sColumn", "aaSorting", "adrift", "loose", "unsorted",
          "stale", "iDraw", "answer"}

(* What the invariant says of the settings is kept when the arrays of      *)
(* indices and the place in them change to others that are valid.          *)
LEMMA BaseMoved ==
  ASSUME NEW s, Base(s), NEW r,
         Leaves(s, r, Aside \cup {"aiDisplay", "aiDisplayMaster", "start", "initStart", "end",
                                  "length"}),
         r.start \in Int, r.initStart \in Int, r.end \in Int, r.length \in PageLengths,
         Indexes(r.aiDisplay, Len(s.aoData)),
         Indexes(r.aiDisplayMaster, Len(s.aoData)),
         ToSet(r.aiDisplayMaster) = ToSet(s.aiDisplayMaster)
  PROVE  Base(r)
<1>1. /\ r.f = s.f /\ r.aoData = s.aoData /\ r.ajaxStart = s.ajaxStart
      /\ r.body = s.body /\ r.open = s.open /\ r.cookie = s.cookie
      /\ r.loading = s.loading /\ r.requests = s.requests
      /\ r.recordsDisplay = s.recordsDisplay
  BY DEF Leaves, Aside, Fields
<1>2. IsSettings(r)
  BY DEF Leaves
<1>3. RowsValid(r)
  BY <1>1 DEF RowsValid, Base
<1>4. Numbers(r)
  BY <1>1 DEF Numbers, Base
<1>5. Pending(r)
  BY <1>1 DEF Pending, Base
<1> QED BY <1>1, <1>2, <1>3, <1>4, <1>5 DEF Base

LEMMA DisplayCounted ==
  ASSUME NEW s, Base(s)
  PROVE  /\ Len(s.aiDisplay) \in Nat /\ RecordsDisplay(s) \in Nat
         /\ s.aiDisplay = << >> <=> Len(s.aiDisplay) = 0
BY DEF Base, RowsValid, Indexes, Numbers, RecordsDisplay

LEMMA CalculateEndIs ==
  ASSUME NEW s, Base(s)
  PROVE  /\ Base(CalculateEnd(s)) /\ Leaves(s, CalculateEnd(s), {"end"})
         /\ CalculateEnd(s).end \in Int /\ CalculateEnd(s).end <= Len(s.aiDisplay)
         /\ s.length = -1 => CalculateEnd(s).end = Len(s.aiDisplay)
         /\ s.start < Len(s.aiDisplay) => s.start < CalculateEnd(s).end
<1> DEFINE t == CalculateEnd(s)
           e == IF \/ ~s.f.bPaginate
                   \/ s.start + s.length > Len(s.aiDisplay)
                   \/ s.length = -1
                THEN Len(s.aiDisplay)
                ELSE s.start + s.length
<1>1. Leaves(s, t, {"end"}) /\ t.end = e
  <2>1. t = [s EXCEPT !.end = e]
    BY DEF CalculateEnd
  <2>2. IsSettings(s)
    BY DEF Base
  <2>3. t.end = e
    <3> HIDE DEF e, t
    <3> QED BY <2>1, <2>2 DEF IsSettings, Fields
  <2> QED BY <2>2, <2>3, CalculateEndLeaves
<1>2. /\ s.start \in Int /\ s.length \in Int /\ Len(s.aiDisplay) \in Nat
      /\ s.length = -1 \/ s.length > 0
  BY DisplayCounted DEF Base, Numbers, PageLengths
<1>3. /\ e \in Int /\ e <= Len(s.aiDisplay) /\ (s.length = -1 => e = Len(s.aiDisplay))
      /\ s.start < Len(s.aiDisplay) => s.start < e
  BY <1>2
<1> HIDE DEF t, e
<1>4. /\ t.start = s.start /\ t.initStart = s.initStart /\ t.length = s.length
      /\ t.aiDisplay = s.aiDisplay /\ t.aiDisplayMaster = s.aiDisplayMaster
  BY <1>1 DEF Leaves, Fields
<1>5. Leaves(s, t, Aside \cup {"aiDisplay", "aiDisplayMaster", "start", "initStart", "end", "length"})
  BY <1>1 DEF Leaves, Aside
<1>6. Base(t)
  <2>1. /\ t.start \in Int /\ t.initStart \in Int /\ t.end \in Int /\ t.length \in PageLengths
        /\ Indexes(t.aiDisplay, Len(s.aoData)) /\ Indexes(t.aiDisplayMaster, Len(s.aoData))
    BY <1>1, <1>3, <1>4 DEF Base, Numbers, RowsValid
  <2> QED BY <1>4, <1>5, <2>1, BaseMoved
<1> QED BY <1>1, <1>3, <1>6 DEF t

LEMMA CalculateEndReady ==
  ASSUME NEW s, Base(s), Started(s)
  PROVE  Ready(CalculateEnd(s)) /\ Started(CalculateEnd(s))
<1> DEFINE t == CalculateEnd(s)
<1>1. /\ t.end \in Int /\ t.end <= Len(s.aiDisplay)
      /\ s.start < Len(s.aiDisplay) => s.start < t.end
      /\ Leaves(s, t, {"end"})
  BY CalculateEndIs
<1> HIDE DEF t
<1>2. /\ t.start = s.start /\ t.aiDisplay = s.aiDisplay /\ t.f = s.f /\ t.adrift = s.adrift
  BY <1>1 DEF Leaves, Fields
<1>3. /\ s.start \in Int /\ Len(s.aiDisplay) \in Nat
      /\ s.aiDisplay = << >> <=> Len(s.aiDisplay) = 0
  BY DisplayCounted DEF Base, Numbers
<1>4. s.start <= 0 /\ s.start >= 0 /\ s.aiDisplay # << >> => s.start < Len(s.aiDisplay)
  BY <1>3
<1>5. Ready(t)
  BY <1>1, <1>2, <1>3, <1>4 DEF Ready, Started
<1>6. Started(t)
  BY <1>2 DEF Started
<1> QED BY <1>5, <1>6 DEF t

LEMMA TakeInitStartReady ==
  ASSUME NEW s, Base(s), s.initStart = -1 => Started(s) /\ Ready(s)
  PROVE  LET t == TakeInitStart(s)
         IN Base(t) /\ Started(t) /\ Ready(t) /\ Leaves(s, t, {"start", "initStart", "end"})
<1> DEFINE m == [s EXCEPT !.start = InitStart(s), !.initStart = -1]
<1>1. CASE s.initStart = -1
  <2>1. TakeInitStart(s) = s
    BY <1>1 DEF TakeInitStart
  <2> QED BY <1>1, <2>1 DEF Leaves, Base
<1>2. CASE s.initStart # -1
  <2>1. TakeInitStart(s) = CalculateEnd(m)
    BY <1>2 DEF TakeInitStart
  <2>2. /\ Leaves(s, m, {"start", "initStart"})
        /\ m.start = InitStart(s) /\ m.initStart = -1
    BY DEF Base, Leaves, IsSettings, Fields
  <2> HIDE DEF m
  <2>3. /\ m.end = s.end /\ m.length = s.length /\ m.aiDisplay = s.aiDisplay
        /\ m.aiDisplayMaster = s.aiDisplayMaster /\ m.f = s.f
    BY <2>2 DEF Leaves, Fields
  <2>4. /\ InitStart(s) \in Int
        /\ ~s.f.bServerSide => InitStart(s) = 0 \/ InitStart(s) < Len(s.aiDisplay)
    <3>1. s.initStart \in Int /\ Len(s.aiDisplay) \in Nat
      BY DisplayCounted DEF Base, Numbers
    <3> QED BY <3>1 DEF InitStart, RecordsDisplay
  <2>5. Base(m)
    <3>1. Leaves(s, m, Aside \cup {"aiDisplay", "aiDisplayMaster", "start", "initStart", "end", "length"})
      BY <2>2 DEF Leaves
    <3>2. /\ m.start \in Int /\ m.initStart \in Int /\ m.end \in Int /\ m.length \in PageLengths
          /\ Indexes(m.aiDisplay, Len(s.aoData)) /\ Indexes(m.aiDisplayMaster, Len(s.aoData))
      BY <2>2, <2>3, <2>4 DEF Base, Numbers, RowsValid
    <3> QED BY <2>3, <3>1, <3>2, BaseMoved
  <2>6. Started(m)
    BY <2>2, <2>3, <2>4 DEF Started
  <2>7. Base(CalculateEnd(m)) /\ Leaves(m, CalculateEnd(m), {"end"})
    BY <2>5, CalculateEndIs
  <2>8. Ready(CalculateEnd(m)) /\ Started(CalculateEnd(m))
    BY <2>5, <2>6, CalculateEndReady
  <2>9. Leaves(s, CalculateEnd(m), {"start", "initStart", "end"})
    BY <2>2, <2>7 DEF Leaves
  <2> QED BY <2>1, <2>7, <2>8, <2>9
<1> QED BY <1>1, <1>2

(* The page that is drawn is a part of what is displayed.                  *)
LEMMA PageIndexes ==
  ASSUME NEW s, Base(s), Ready(s), s.f.bServerSide \/ s.start >= 0 \/ s.aiDisplay = << >>
  PROVE  /\ Indexes(Page(s), Len(s.aoData))
         /\ ~s.f.bServerSide /\ ~s.adrift /\ s.aiDisplay # << >> => Page(s) # << >>
<1>1. CASE s.f.bServerSide \/ s.aiDisplay = << >>
  BY <1>1 DEF Page, Base, RowsValid
<1>2. CASE ~s.f.bServerSide /\ s.aiDisplay # << >>
  <2> DEFINE seq == s.aiDisplay
             n == Len(seq)
             S == 1 .. Len(s.aoData)
             a == s.start + 1
             b == s.end
             page == SubSeq(seq, a, b)
  <2>1. Page(s) = page
    BY <1>2 DEF Page
  <2>2. seq \in Seq(S) /\ \A i, j \in DOMAIN seq : seq[i] = seq[j] => i = j
    BY DEF Base, RowsValid, Indexes, Distinct
  <2>3. /\ a \in Int /\ b \in Int /\ a >= 1 /\ b <= n
        /\ ~s.adrift => a <= b
    BY <1>2 DEF Base, Numbers, Ready
  <2> HIDE DEF seq, S, a, b
  <2>4. n \in Nat /\ DOMAIN seq = 1 .. n /\ \A i \in 1 .. n : seq[i] \in S
    BY <2>2
  <2>5. CASE a <= b
    <3>1. page = [i \in 1 .. b - a + 1 |-> seq[i + a - 1]] /\ b - a + 1 \in Nat
      BY <2>2, <2>3, <2>4, <2>5, SubSeqProperties
    <3>2. \A i \in 1 .. b - a + 1 : i + a - 1 \in 1 .. n
      BY <2>3, <2>4, <2>5
    <3> HIDE DEF page
    <3>3. page \in [1 .. b - a + 1 -> S]
      BY <2>4, <3>1, <3>2
    <3>4. page \in Seq(S) /\ DOMAIN page = 1 .. b - a + 1
      BY <3>1, <3>3
    <3>5. \A i, j \in DOMAIN page : page[i] = page[j] => i = j
      <4> SUFFICES ASSUME NEW i \in DOMAIN page, NEW j \in DOMAIN page, page[i] = page[j]
                   PROVE  i = j
        OBVIOUS
      <4>1. /\ i + a - 1 \in 1 .. n /\ j + a - 1 \in 1 .. n
            /\ page[i] = seq[i + a - 1] /\ page[j] = seq[j + a - 1]
        BY <3>1, <3>2, <3>4
      <4>2. i + a - 1 = j + a - 1
        BY <2>2, <2>4, <4>1
      <4> QED BY <2>3, <3>4, <4>2
    <3>6. page # << >>
      BY <2>3, <2>5, <3>1, <3>4
    <3> QED BY <2>1, <3>4, <3>5, <3>6 DEF Indexes, Distinct, S
  <2>6. CASE ~(a <= b)
    <3>1. page = << >>
      BY <2>2, <2>3, <2>6
    <3> HIDE DEF page
    <3> QED BY <2>1, <2>3, <2>6, <3>1 DEF Indexes, Distinct
  <2> QED BY <2>5, <2>6
<1> QED BY <1>1, <1>2

-----------------------------------------------------------------------------
LEMMA SaveStateGood ==
  ASSUME NEW s, Good(s)
  PROVE  Good(SaveState(s))
<1> DEFINE t == SaveState(s)
<1>1. Leaves(s, t, {"cookie"})
  BY SaveStateLeaves DEF Good, Base
<1>2. t.cookie = s.cookie \/ t.cookie = {SavedState(s)}
  BY DEF SaveState, Good, Base, IsSettings, Fields
<1>3. SavedState(s).start = s.start /\ SavedState(s).length = s.length
  BY DEF SavedState
<1> HIDE DEF t
<1>4. /\ t.f = s.f /\ t.aoData = s.aoData /\ t.aiDisplayMaster = s.aiDisplayMaster
      /\ t.aiDisplay = s.aiDisplay /\ t.start = s.start /\ t.initStart = s.initStart
      /\ t.ajaxStart = s.ajaxStart /\ t.end = s.end /\ t.length = s.length /\ t.body = s.body
      /\ t.open = s.open /\ t.loading = s.loading /\ t.requests = s.requests
      /\ t.recordsDisplay = s.recordsDisplay /\ t.adrift = s.adrift
  BY <1>1 DEF Leaves, Fields
<1>5. IsSettings(t)
  BY <1>1 DEF Leaves
<1>6. Numbers(t)
  <2>1. \A saved \in t.cookie : saved.start \in Int /\ saved.length \in PageLengths
    BY <1>2, <1>3 DEF Good, Base, Numbers
  <2> QED BY <1>4, <2>1 DEF Good, Base, Numbers
<1>7. RowsValid(t) /\ Pending(t)
  BY <1>4 DEF RowsValid, Pending, Good, Base
<1>8. Started(t) /\ Shown(t)
  BY <1>4 DEF Started, Shown, Good
<1>9. BodyOK(t.body) /\ DetailsShown(t.body, t.open) /\ t.f \in Features
  BY <1>4 DEF Good, Base
<1> QED BY <1>5, <1>6, <1>7, <1>8, <1>9 DEF Good, Base, t

LEMMA InsertRowsGood ==
  ASSUME NEW s, Base(s), Ready(s), Started(s)
  PROVE  Good(InsertRows(s))
<1>1. CASE s.start < 0 /\ ~s.f.bServerSide /\ s.aiDisplay # << >>
  <2>1. InsertRows(s) = s
    BY <1>1 DEF InsertRows
  <2>2. s.start \in Int
    BY DEF Base, Numbers
  <2>3. ~(s.start >= 0)
    BY <1>1, <2>2
  <2> QED BY <2>1, <2>3 DEF Good, Shown
<1>2. CASE ~(s.start < 0 /\ ~s.f.bServerSide /\ s.aiDisplay # << >>)
  <2> DEFINE b == BodyOf(s)
             t == [s EXCEPT !.body = b]
             I == ToSet(Page(s))
             u == CreateTrs(t, I)
  <2>1. InsertRows(s) = SaveState(u)
    BY <1>2 DEF InsertRows
  <2>2. s.start \in Int
    BY DEF Base, Numbers
  <2>3. /\ Indexes(Page(s), Len(s.aoData))
        /\ ~s.f.bServerSide /\ ~s.adrift /\ s.aiDisplay # << >> => Page(s) # << >>
    BY <1>2, <2>2, PageIndexes
  <2>4. RowsOK(s.aoData) /\ IsSettings(s)
    BY DEF Base, RowsValid
  <2>5. /\ BodyOK(b) /\ DetailsShown(b, s.open)
        /\ ~s.f.bServerSide /\ ~s.adrift /\ s.aiDisplay # << >> => b # << >>
    BY <2>3, <2>4, BodyOfIs
  <2> HIDE DEF b, I
  <2>6. Leaves(s, t, {"body"}) /\ t.body = b
    BY <2>4 DEF Leaves, IsSettings, Fields
  <2> HIDE DEF t
  <2>7. t.aoData = s.aoData /\ IsSettings(t)
    BY <2>6 DEF Leaves, Fields
  <2>8. RowsOK(u.aoData) /\ SameCells(s.aoData, u.aoData) /\ Leaves(t, u, {"aoData"})
    BY <2>4, <2>7, CreateTrsKeeps, CreateTrsLeaves
  <2> HIDE DEF u
  <2>9. /\ u.f = s.f /\ u.aiDisplayMaster = s.aiDisplayMaster
        /\ u.aiDisplay = s.aiDisplay /\ u.start = s.start /\ u.initStart = s.initStart
        /\ u.ajaxStart = s.ajaxStart /\ u.end = s.end /\ u.length = s.length /\ u.body = b
        /\ u.open = s.open /\ u.loading = s.loading /\ u.requests = s.requests
        /\ u.recordsDisplay = s.recordsDisplay /\ u.adrift = s.adrift /\ u.cookie = s.cookie
    <3>1. \A x \in Fields \ {"aoData", "body"} : u[x] = s[x]
      BY <2>6, <2>8 DEF Leaves
    <3>2. u.body = b
      BY <2>6, <2>8 DEF Leaves, Fields
    <3> QED BY <3>1, <3>2 DEF Fields
  <2>10. Len(u.aoData) = Len(s.aoData) /\ DOMAIN u.aoData = DOMAIN s.aoData
    BY <2>4, <2>8 DEF SameCells, RowsOK
  <2>11. RowsValid(u)
    BY <2>8, <2>9, <2>10 DEF RowsValid, Base
  <2>12. Pending(u)
    BY <2>8, <2>9, <2>10 DEF Pending, Base, SameCells
  <2>13. Numbers(u)
    BY <2>9 DEF Numbers, Base
  <2>14. IsSettings(u) /\ u.f \in Features /\ BodyOK(u.body) /\ DetailsShown(u.body, u.open)
    BY <2>5, <2>8, <2>9 DEF Leaves, Base
  <2>15. Good(u)
    BY <2>5, <2>9, <2>11, <2>12, <2>13, <2>14 DEF Good, Base, Started, Shown
  <2> QED BY <2>1, <2>15, SaveStateGood
<1> QED BY <1>1, <1>2

LEMMA AjaxUpdateGood ==
  ASSUME NEW s, Base(s), s.f.bServerSide
  PROVE  Good(AjaxUpdate(s))
<1> DEFINE t == AjaxUpdate(s)
           request == [sEcho |-> s.iDraw + 1, params |-> Params(s)]
<1>1. Leaves(s, t, {"iDraw", "requests"}) /\ t.requests = s.requests \cup {request}
  BY AjaxUpdateLeaves DEF AjaxUpdate, Base, IsSettings, Fields
<1>2. request.params.start \in Int /\ request.params.length \in PageLengths
  BY DEF Params, Base, Numbers, PageLengths
<1> HIDE DEF t, request
<1>3. /\ t.f = s.f /\ t.aoData = s.aoData /\ t.aiDisplayMaster = s.aiDisplayMaster
      /\ t.aiDisplay = s.aiDisplay /\ t.start = s.start /\ t.initStart = s.initStart
      /\ t.ajaxStart = s.ajaxStart /\ t.end = s.end /\ t.length = s.length /\ t.body = s.body
      /\ t.open = s.open /\ t.loading = s.loading /\ t.cookie = s.cookie
      /\ t.recordsDisplay = s.recordsDisplay /\ t.adrift = s.adrift
  BY <1>1 DEF Leaves, Fields
<1>4. IsSettings(t) /\ Numbers(t)
  BY <1>1, <1>2, <1>3 DEF Leaves, Base, Numbers
<1>5. RowsValid(t) /\ Pending(t)
  BY <1>3 DEF RowsValid, Pending, Base
<1>6. Started(t) /\ Shown(t)
  BY <1>3 DEF Started, Shown
<1> QED BY <1>3, <1>4, <1>5, <1>6 DEF Good, Base, t

LEMMA DrawGood ==
  ASSUME NEW s, Base(s), s.initStart = -1 => Started(s) /\ Ready(s)
  PROVE  Good(Draw(s))
<1> DEFINE t == TakeInitStart(s)
<1>1. Base(t) /\ Started(t) /\ Ready(t) /\ Leaves(s, t, {"start", "initStart", "end"})
  BY TakeInitStartReady
<1>2. Draw(s) = IF s.f.bServerSide THEN AjaxUpdate(t) ELSE InsertRows(t)
  BY DEF Draw
<1> HIDE DEF t
<1>3. t.f = s.f
  BY <1>1 DEF Leaves, Fields
<1> QED BY <1>1, <1>2, <1>3, InsertRowsGood, AjaxUpdateGood

LEMMA DrawAnew ==
  ASSUME NEW s, Base(s), s.initStart = -1 => Started(s)
  PROVE  Good(Draw(CalculateEnd(s)))
<1> DEFINE t == CalculateEnd(s)
<1>1. Base(t) /\ Leaves(s, t, {"end"})
  BY CalculateEndIs
<1>2. Started(s) => Started(t) /\ Ready(t)
  BY CalculateEndReady
<1> HIDE DEF t
<1>3. t.initStart = s.initStart
  BY <1>1 DEF Leaves, Fields
<1>4. Good(Draw(t))
  BY <1>1, <1>2, <1>3, DrawGood
<1> QED BY <1>4 DEF t

LEMMA FilterIndexes ==
  ASSUME NEW s, Base(s), NEW input, NEW force \in BOOLEAN
  PROVE  /\ Indexes(Filter(s, input, force).aiDisplay, Len(s.aoData))
         /\ Indexes(FilterColumn(Filter(s, input, force)).aiDisplay, Len(s.aoData))
<1> DEFINE t == Filter(s, input, force)
           n == Len(s.aoData)
<1>1. IsSettings(s) /\ n \in Nat /\ Indexes(s.aiDisplay, n) /\ Indexes(s.aiDisplayMaster, n)
  BY DEF Base, RowsValid, RowsOK
<1>2. Leaves(s, t, {"aiDisplay", "loose"})
  BY <1>1, FilterLeaves
<1>3. \/ t.aiDisplay = s.aiDisplayMaster
      \/ t.aiDisplay = Refined(s, input)
      \/ t.aiDisplay = Accepted(s, s.aiDisplayMaster, input)
  <2>1. DOMAIN s = Fields
    BY <1>1 DEF IsSettings
  <2>2. ASSUME NEW a, NEW b
        PROVE  [s EXCEPT !.aiDisplay = a, !.loose = b].aiDisplay = a
    BY <2>1 DEF Fields
  <2> DEFINE Result(a, b) == [s EXCEPT !.aiDisplay = a, !.loose = b]
  <2>3. \/ t = Result(s.aiDisplayMaster, FALSE)
        \/ t = Result(Refined(s, input), s.loose \/ s.stale)
        \/ t = Result(Accepted(s, s.aiDisplayMaster, input), FALSE)
    BY DEF Filter
  <2>4. \A a, b : Result(a, b).aiDisplay = a
    BY <2>2
  <2> HIDE DEF Result, t
  <2> QED BY <2>3, <2>4
<1> HIDE DEF t, n
<1>4. Indexes(t.aiDisplay, n)
  BY <1>1, <1>3, RefinedIndexes, AcceptedIndexes
<1>5. IsSettings(t)
  BY <1>2 DEF Leaves
<1>6. FilterColumn(t) = t \/ FilterColumn(t).aiDisplay = Accepted(t, t.aiDisplay, t.sColumn)
  BY <1>5 DEF FilterColumn, IsSettings, Fields
<1> QED BY <1>1, <1>4, <1>6, AcceptedIndexes DEF t, n

LEMMA FilteredGood ==
  ASSUME NEW s, Base(s), NEW input, NEW force \in BOOLEAN
  PROVE  Base(Filtered(s, input, force)) /\ Started(Filtered(s, input, force))
<1> DEFINE t == Filtered(s, input, force)
           u == IF s.f.bServerSide THEN s ELSE FilterColumn(Filter(s, input, force))
<1>1. Leaves(s, t, {"aiDisplay", "loose", "sSearch", "start", "adrift"})
  BY FilteredLeaves DEF Base
<1>2. Indexes(u.aiDisplay, Len(s.aoData))
  BY FilterIndexes DEF Base, RowsValid
<1>3. IsSettings(u)
  <2>1. IsSettings(s) /\ Leaves(s, Filter(s, input, force), {"aiDisplay", "loose"})
    BY FilterLeaves DEF Base
  <2>2. IsSettings(FilterColumn(Filter(s, input, force)))
    BY <2>1, FilterColumnLeaves DEF Leaves
  <2> QED BY <2>1, <2>2
<1>4. t = [u EXCEPT !.sSearch = input, !.start = 0, !.adrift = FALSE]
  BY DEF Filtered
<1> HIDE DEF u
<1>5. t.start = 0 /\ t.aiDisplay = u.aiDisplay
  <2> HIDE DEF t
  <2> QED BY <1>3, <1>4 DEF IsSettings, Fields
<1> HIDE DEF t
<1>6. /\ t.initStart = s.initStart /\ t.end = s.end /\ t.length = s.length
      /\ t.aiDisplayMaster = s.aiDisplayMaster
  BY <1>1 DEF Leaves, Fields
<1>7. Leaves(s, t, Aside \cup {"aiDisplay", "aiDisplayMaster", "start", "initStart", "end", "length"})
  BY <1>1 DEF Leaves, Aside
<1>8. Base(t)
  <2>1. /\ t.start \in Int /\ t.initStart \in Int /\ t.end \in Int /\ t.length \in PageLengths
        /\ Indexes(t.aiDisplay, Len(s.aoData)) /\ Indexes(t.aiDisplayMaster, Len(s.aoData))
    BY <1>2, <1>5, <1>6 DEF Base, Numbers, RowsValid
  <2> QED BY <1>6, <1>7, <2>1, BaseMoved
<1>9. Started(t)
  BY <1>5 DEF Started
<1> QED BY <1>8, <1>9 DEF t

LEMMA GoodAside ==
  ASSUME NEW s, Good(s), NEW r, Leaves(s, r, Aside \ {"adrift"})
  PROVE  Good(r)
<1>1. /\ r.f = s.f /\ r.aiDisplayMaster = s.aiDisplayMaster
      /\ r.aiDisplay = s.aiDisplay /\ r.start = s.start /\ r.initStart = s.initStart
      /\ r.end = s.end /\ r.length = s.length /\ r.body = s.body /\ r.adrift = s.adrift
  BY DEF Leaves, Aside, Fields
<1>2. Leaves(s, r, Aside \cup {"aiDisplay", "aiDisplayMaster", "start", "initStart", "end", "length"})
  BY DEF Leaves
<1>3. Base(r)
  <2>1. /\ r.start \in Int /\ r.initStart \in Int /\ r.end \in Int /\ r.length \in PageLengths
        /\ Indexes(r.aiDisplay, Len(s.aoData)) /\ Indexes(r.aiDisplayMaster, Len(s.aoData))
    BY <1>1 DEF Good, Base, Numbers, RowsValid
  <2> QED BY <1>1, <1>2, <2>1, BaseMoved DEF Good
<1> QED BY <1>1, <1>3 DEF Good, Started, Shown

LEMMA FilterCompleteGood ==
  ASSUME NEW s, Base(s), NEW input, NEW force \in BOOLEAN
  PROVE  Good(FilterComplete(s, input, force))
<1> DEFINE t == Draw(CalculateEnd(Filtered(s, input, force)))
<1>1. Good(t)
  BY FilteredGood, DrawAnew
<1>2. FilterComplete(s, input, force) = BuildSearchArray(t)
  BY FilterCompleteIs
<1> HIDE DEF t
<1>3. Leaves(t, BuildSearchArray(t), {"asDataSearch", "stale"})
  BY <1>1, BuildSearchArrayLeaves DEF Good, Base
<1>4. Leaves(t, BuildSearchArray(t), Aside \ {"adrift"})
  BY <1>3 DEF Leaves, Aside
<1> QED BY <1>1, <1>2, <1>4, GoodAside

LEMMA AfterSortGood ==
  ASSUME NEW s, Base(s)
  PROVE  Good(AfterSort(s))
<1> DEFINE t == Unfiltered(s)
<1>1. s.f.bFilter => Good(AfterSort(s))
  BY AfterSortIs, FilterCompleteGood
<1>2. Leaves(s, t, {"aiDisplay", "start", "adrift", "loose"})
  BY UnfilteredLeaves DEF Base
<1>3. t.start = 0 /\ t.aiDisplay = s.aiDisplayMaster
  BY DEF Unfiltered, Base, IsSettings, Fields
<1> HIDE DEF t
<1>4. /\ t.initStart = s.initStart /\ t.end = s.end /\ t.length = s.length
      /\ t.aiDisplayMaster = s.aiDisplayMaster
  BY <1>2 DEF Leaves, Fields
<1>5. Leaves(s, t, Aside \cup {"aiDisplay", "aiDisplayMaster", "start", "initStart", "end", "length"})
  BY <1>2 DEF Leaves, Aside
<1>6. Base(t)
  <2>1. /\ t.start \in Int /\ t.initStart \in Int /\ t.end \in Int /\ t.length \in PageLengths
        /\ Indexes(t.aiDisplay, Len(s.aoData)) /\ Indexes(t.aiDisplayMaster, Len(s.aoData))
    BY <1>3, <1>4 DEF Base, Numbers, RowsValid
  <2> QED BY <1>4, <1>5, <2>1, BaseMoved
<1>7. Started(t)
  BY <1>3 DEF Started
<1>8. ~s.f.bFilter => Good(AfterSort(s))
  BY <1>6, <1>7, AfterSortIs, DrawAnew DEF t
<1> QED BY <1>1, <1>8

LEMMA SortGood ==
  ASSUME NEW s, Base(s)
  PROVE  Good(Sort(s))
<1> DEFINE t == Ranked(s)
<1>1. Leaves(s, t, {"aiDisplayMaster", "unsorted"}) /\ t.aiDisplayMaster = SortedMaster(s)
  BY RankedLeaves DEF Base
<1>2. Sort(s) = AfterSort(t)
  BY DEF Sort, Ranked
<1> HIDE DEF t
<1>3. /\ t.start = s.start /\ t.initStart = s.initStart /\ t.end = s.end /\ t.length = s.length
      /\ t.aiDisplay = s.aiDisplay
  BY <1>1 DEF Leaves, Fields
<1>4. Leaves(s, t, Aside \cup {"aiDisplay", "aiDisplayMaster", "start", "initStart", "end", "length"})
  BY <1>1 DEF Leaves, Aside
<1>5. Indexes(t.aiDisplayMaster, Len(s.aoData)) /\ ToSet(t.aiDisplayMaster) = ToSet(s.aiDisplayMaster)
  BY <1>1, SortedMasterIndexes DEF Base
<1>6. /\ t.start \in Int /\ t.initStart \in Int /\ t.end \in Int /\ t.length \in PageLengths
      /\ Indexes(t.aiDisplay, Len(s.aoData))
  BY <1>3 DEF Base, Numbers, RowsValid
<1>7. Base(t)
  BY <1>4, <1>5, <1>6, BaseMoved
<1> QED BY <1>2, <1>7, AfterSortGood

LEMMA ReDrawGood ==
  ASSUME NEW s, Base(s), Started(s)
  PROVE  Good(ReDraw(s))
<1>1. s.f.bFilter \in BOOLEAN /\ s.f.bSort \in BOOLEAN
  BY FeaturesBoolean
<1> DEFINE r == ReDraw(s)
           a == Sort(s)
           b == FilterComplete(s, s.sSearch, FALSE)
           c == Draw(CalculateEnd(s))
<1>2. Good(a) /\ Good(b) /\ Good(c)
  BY SortGood, FilterCompleteGood, DrawAnew
<1>3. r = a \/ r = b \/ r = c
  <2>1. /\ s.f.bSort => r = a
        /\ ~s.f.bSort /\ s.f.bFilter => r = b
        /\ ~s.f.bSort /\ ~s.f.bFilter => r = c
    <3> HIDE DEF a, b, c
    <3> QED BY <1>1 DEF ReDraw, a, b, c
  <2> QED BY <1>1, <2>1, Zenon
<1> HIDE DEF r, a, b, c
<1>4. Good(r)
  BY <1>2, <1>3
<1> QED BY <1>4 DEF r

-----------------------------------------------------------------------------
LEMMA Quotient ==
  ASSUME NEW a \in Int, NEW l \in Nat \ {0}
  PROVE  /\ a \div l \in Int
         /\ (a \div l) * l \in Int /\ (a \div l) * l <= a /\ a < (a \div l) * l + l
OBVIOUS

LEMMA NumberBelow ==
  ASSUME NEW records \in Nat, NEW l \in Nat \ {0}, NEW pages \in Int, NEW button \in Int,
         pages * l <= records + l - 1, 1 <= button, button <= pages
  PROVE  (button - 1) * l < records
<1>1. (button - 1) * l <= (pages - 1) * l
  OBVIOUS
<1>2. (pages - 1) * l = pages * l - l
  OBVIOUS
<1> QED BY <1>1, <1>2

(* Every button leads to a page that has rows.                             *)
LEMMA ButtonsLead ==
  ASSUME NEW records \in Nat, NEW l \in Nat \ {0}, NEW start \in Int,
         NEW button \in PageButtons(records, l, start, ShowPages).buttons
  PROVE  button \in Int /\ 1 <= button /\ (button - 1) * l < records
<1> DEFINE pages == CeilDiv(records, l)
           current == CeilDiv(start, l) + 1
           half == ShowPages \div 2
           other == CeilDiv(ShowPages, 2)
           from == CASE pages < ShowPages \/ current <= half -> 1
                     [] pages >= ShowPages /\ current > half /\ current >= pages - half ->
                          pages - ShowPages + 1
                     [] OTHER -> current - other + 1
           to == IF pages < ShowPages THEN pages ELSE from + ShowPages - 1
<1>1. button \in from .. to
  BY DEF PageButtons
<1>2. ShowPages \in Nat /\ ShowPages >= 1
  BY ShowPagesAssumption
<1>3. half \in Int /\ other \in Int /\ half + other = ShowPages /\ other <= half + 1
  BY <1>2 DEF CeilDiv
<1>4. pages \in Int /\ pages * l <= records + l - 1
  <2> DEFINE a == records + l - 1
  <2>1. a \in Int /\ pages = a \div l
    BY DEF CeilDiv
  <2> HIDE DEF a, pages
  <2>2. pages * l <= a
    BY <2>1, Quotient
  <2> QED BY <2>1, <2>2, Quotient DEF a
<1>5. current \in Int
  <2>1. start + l - 1 \in Int
    OBVIOUS
  <2> QED BY <2>1, Quotient DEF CeilDiv
<1> HIDE DEF pages, current, half, other
<1>6. from \in Int /\ 1 <= from
  BY <1>2, <1>3, <1>4, <1>5
<1>7. to <= pages
  BY <1>2, <1>3, <1>4, <1>5
<1> HIDE DEF from, to
<1>8. to \in Int
  BY <1>2, <1>4, <1>6 DEF to
<1>9. button \in Int /\ 1 <= button /\ button <= pages
  BY <1>1, <1>4, <1>6, <1>7, <1>8
<1> QED BY <1>4, <1>9, NumberBelow

(* A place to which paging may lead.                                       *)
StartOK(s, start) ==
  /\ start \in Int
  /\ ~s.f.bServerSide /\ ~s.adrift => start <= 0 \/ start < Len(s.aiDisplay)

LEMMA GoToGood ==
  ASSUME NEW s, Base(s), NEW start, StartOK(s, start)
  PROVE  Base(GoTo(s, start)) /\ Started(GoTo(s, start)) /\ Good(Draw(GoTo(s, start)))
<1> DEFINE t == [s EXCEPT !.start = start]
<1>1. Leaves(s, t, {"start"}) /\ t.start = start
  BY DEF Base, Leaves, IsSettings, Fields
<1>2. GoTo(s, start) = CalculateEnd(t)
  BY DEF GoTo
<1> HIDE DEF t
<1>3. /\ t.initStart = s.initStart /\ t.end = s.end /\ t.length = s.length
      /\ t.aiDisplay = s.aiDisplay /\ t.aiDisplayMaster = s.aiDisplayMaster
      /\ t.f = s.f /\ t.adrift = s.adrift
  BY <1>1 DEF Leaves, Fields
<1>4. Leaves(s, t, Aside \cup {"aiDisplay", "aiDisplayMaster", "start", "initStart", "end", "length"})
  BY <1>1 DEF Leaves
<1>5. Base(t)
  <2>1. /\ t.start \in Int /\ t.initStart \in Int /\ t.end \in Int /\ t.length \in PageLengths
        /\ Indexes(t.aiDisplay, Len(s.aoData)) /\ Indexes(t.aiDisplayMaster, Len(s.aoData))
    BY <1>1, <1>3 DEF Base, Numbers, RowsValid, StartOK
  <2> QED BY <1>3, <1>4, <2>1, BaseMoved
<1>6. Started(t)
  BY <1>1, <1>3 DEF Started, StartOK
<1> QED BY <1>2, <1>5, <1>6, CalculateEndIs, CalculateEndReady, DrawAnew

LEMMA PageStartOK ==
  ASSUME NEW s, Base(s), Started(s), NEW action \in {"first", "previous", "next", "last"}
  PROVE  StartOK(s, PageStart(s, action))
<1> DEFINE L == s.length
           R == RecordsDisplay(s)
           start == s.start
           to == PageStart(s, action)
<1>1. /\ L \in Int /\ (L = -1 \/ L > 0) /\ R \in Nat /\ start \in Int
      /\ ~s.f.bServerSide => R = Len(s.aiDisplay)
  BY DisplayCounted DEF Base, Numbers, PageLengths, RecordsDisplay
<1>2. ~s.f.bServerSide /\ ~s.adrift => start <= 0 \/ start < R
  BY <1>1 DEF Started
<1>3. CASE L < 0
  <2>1. to = 0
    BY <1>1, <1>3 DEF PageStart
  <2> QED BY <2>1 DEF StartOK
<1>4. CASE ~(L < 0) /\ action = "first"
  <2>1. to = 0
    BY <1>1, <1>4 DEF PageStart
  <2> QED BY <2>1 DEF StartOK
<1>5. CASE ~(L < 0) /\ action = "previous"
  <2>1. to = IF start - L < 0 THEN 0 ELSE start - L
    BY <1>1, <1>5 DEF PageStart, NotBelow0
  <2> HIDE DEF L, R, start, to
  <2>2. to \in Int /\ (start <= 0 \/ start < R => to <= 0 \/ to < R)
    BY <1>1, <1>5, <2>1
  <2> QED BY <1>1, <1>2, <2>2 DEF StartOK, to
<1>6. CASE ~(L < 0) /\ action = "next"
  <2>1. to = IF start + L < R THEN start + L ELSE start
    BY <1>1, <1>6 DEF PageStart, NextStart
  <2> HIDE DEF L, R, start, to
  <2>2. to \in Int /\ (start <= 0 \/ start < R => to <= 0 \/ to < R)
    BY <1>1, <2>1
  <2> QED BY <1>1, <1>2, <2>2 DEF StartOK, to
<1>7. CASE ~(L < 0) /\ action = "last"
  <2>1. to = LastPage(s) * L
    BY <1>1, <1>7 DEF PageStart
  <2>2. LastPage(s) = IF R = 0 /\ L > 1 THEN 0 ELSE (R - 1) \div L
    BY DEF LastPage
  <2> DEFINE q == LastPage(s)
             a == R - 1
  <2> HIDE DEF L, R, start, to, q
  <2>3. L \in Nat \ {0} /\ a \in Int
    BY <1>1, <1>7
  <2> HIDE DEF a
  <2>4. CASE R = 0 /\ L > 1
    <3>1. q = 0
      BY <2>2, <2>4 DEF q
    <3>2. to = 0
      BY <1>1, <2>1, <3>1 DEF q
    <3> QED BY <3>2 DEF StartOK, to
  <2>5. CASE ~(R = 0 /\ L > 1)
    <3>1. q = a \div L
      BY <2>2, <2>5 DEF q, a
    <3>2. to = (a \div L) * L
      BY <2>1, <3>1 DEF q
    <3>3. to \in Int /\ to <= a
      BY <2>3, <3>2, Quotient
    <3>4. to < R
      BY <1>1, <3>3 DEF a
    <3> QED BY <1>1, <3>3, <3>4 DEF StartOK, to
  <2> QED BY <2>4, <2>5
<1> QED BY <1>3, <1>4, <1>5, <1>6, <1>7

LEMMA NumberStartOK ==
  ASSUME NEW s, Base(s), s.length > 0,
         NEW button \in PageButtons(RecordsDisplay(s), s.length, s.start, ShowPages).buttons
  PROVE  StartOK(s, NumberStart(s, button - 1))
<1> DEFINE L == s.length
           R == RecordsDisplay(s)
           to == NumberStart(s, button - 1)
           x == (button - 1) * L
<1>1. /\ L \in Nat \ {0} /\ R \in Nat /\ s.start \in Int
      /\ ~s.f.bServerSide => R = Len(s.aiDisplay)
  BY DisplayCounted DEF Base, Numbers, PageLengths, RecordsDisplay
<1>2. button \in Int /\ x < R
  BY <1>1, ButtonsLead
<1>3. to = IF x > R THEN 0 ELSE x
  BY DEF NumberStart
<1>4. x \in Int
  BY <1>1, <1>2
<1> HIDE DEF L, R, to, x
<1>5. to \in Int /\ (to = 0 \/ to < R)
  BY <1>2, <1>3, <1>4
<1> QED BY <1>1, <1>5 DEF StartOK, to

-----------------------------------------------------------------------------
(* A settings object with another place, and what else the invariant does  *)
(* not speak of, to be drawn or left undrawn.                              *)
LEMMA Moved ==
  ASSUME NEW s, Base(s), NEW r,
         Leaves(s, r, Aside \cup {"aiDisplay", "aiDisplayMaster", "start", "end", "length"}),
         r.start \in Int, r.end \in Int, r.length \in PageLengths,
         Indexes(r.aiDisplay, Len(s.aoData)),
         r.aiDisplayMaster = s.aiDisplayMaster
  PROVE  Base(r)
<1>1. r.initStart = s.initStart
  BY DEF Leaves, Aside, Fields
<1>2. Leaves(s, r, Aside \cup {"aiDisplay", "aiDisplayMaster", "start", "initStart", "end", "length"})
  BY DEF Leaves
<1>3. r.initStart \in Int /\ Indexes(r.aiDisplayMaster, Len(s.aoData))
  BY <1>1 DEF Base, Numbers, RowsValid
<1> QED BY <1>2, <1>3, BaseMoved

LEMMA LengthChangeGood ==
  ASSUME NEW s, Base(s), Started(s), s.f.bPaginate, NEW length \in PageLengths
  PROVE  LET changed == CalculateEnd([s EXCEPT !.length = length])
             next == [changed EXCEPT !.start = LengthStart(changed)]
         IN Base(next) /\ Started(next) /\ Good(Draw(next))
<1> DEFINE t == [s EXCEPT !.length = length]
           u == CalculateEnd(t)
           start == LengthStart(u)
           v == [u EXCEPT !.start = start]
           D == Len(s.aiDisplay)
<1>1. Leaves(s, t, {"length"}) /\ t.length = length
  BY DEF Base, Leaves, IsSettings, Fields
<1> HIDE DEF t
<1>2. /\ t.start = s.start /\ t.end = s.end /\ t.aiDisplay = s.aiDisplay
      /\ t.aiDisplayMaster = s.aiDisplayMaster /\ t.f = s.f /\ t.adrift = s.adrift
  BY <1>1 DEF Leaves, Fields
<1>3. Base(t)
  <2>1. Leaves(s, t, Aside \cup {"aiDisplay", "aiDisplayMaster", "start", "end", "length"})
    BY <1>1 DEF Leaves
  <2>2. /\ t.start \in Int /\ t.end \in Int /\ t.length \in PageLengths
        /\ Indexes(t.aiDisplay, Len(s.aoData))
    BY <1>1, <1>2 DEF Base, Numbers, RowsValid
  <2> QED BY <1>2, <2>1, <2>2, Moved
<1>4. Started(t)
  BY <1>2 DEF Started
<1>5. /\ Base(u) /\ Leaves(t, u, {"end"}) /\ u.end \in Int /\ u.end <= Len(t.aiDisplay)
      /\ t.length = -1 => u.end = Len(t.aiDisplay)
      /\ t.start < Len(t.aiDisplay) => t.start < u.end
  BY <1>3, CalculateEndIs
<1> HIDE DEF u
<1>6. /\ u.start = s.start /\ u.aiDisplay = s.aiDisplay /\ u.length = length
      /\ u.aiDisplayMaster = s.aiDisplayMaster /\ u.f = s.f /\ u.adrift = s.adrift
  BY <1>1, <1>2, <1>5 DEF Leaves, Fields
<1>7. Leaves(u, v, {"start"}) /\ v.start = start
  <2> HIDE DEF start
  <2> QED BY <1>5 DEF Base, Leaves, IsSettings, Fields
<1>8. /\ s.start \in Int /\ D \in Nat /\ (s.aiDisplay = << >> <=> D = 0)
      /\ RecordsDisplay(u) \in Nat /\ (~s.f.bServerSide => RecordsDisplay(u) = D)
      /\ DisplayEnd(u) \in Int /\ (~s.f.bServerSide => DisplayEnd(u) = u.end)
  <2>1. u.f.bServerSide \in BOOLEAN
    BY <1>5, FeaturesBoolean
  <2>2. D \in Nat /\ s.start \in Int /\ (s.aiDisplay = << >> <=> D = 0)
    BY DisplayCounted DEF Base, Numbers
  <2>3. RecordsDisplay(u) \in Nat /\ (~s.f.bServerSide => RecordsDisplay(u) = D)
    BY <1>5, <1>6, DisplayCounted DEF RecordsDisplay
  <2>4. ~s.f.bServerSide => DisplayEnd(u) = u.end
    BY <1>6 DEF DisplayEnd
  <2>5. s.f.bServerSide => DisplayEnd(u) \in Int
    <3>1. /\ u.start \in Int /\ u.length \in Int /\ u.recordsDisplay \in Int
          /\ Len(u.aiDisplay) \in Int
      BY <1>5, DisplayCounted DEF Base, Numbers, PageLengths
    <3>2. SUFFICES ASSUME s.f.bServerSide
                   PROVE  DisplayEnd(u) \in Int
      OBVIOUS
    <3>3. CASE ~u.f.bPaginate \/ u.length = -1
      <4>1. DisplayEnd(u) = u.start + Len(u.aiDisplay)
        BY <1>6, <3>2, <3>3 DEF DisplayEnd
      <4> QED BY <3>1, <4>1
    <3>4. CASE ~(~u.f.bPaginate \/ u.length = -1)
      <4>1. DisplayEnd(u) = IF u.start + u.length < u.recordsDisplay
                            THEN u.start + u.length ELSE u.recordsDisplay
        BY <1>6, <3>2, <3>4 DEF DisplayEnd
      <4> QED BY <3>1, <4>1
    <3> QED BY <3>3, <3>4
  <2> QED BY <1>5, <2>2, <2>3, <2>4, <2>5
<1>9. /\ start \in Int
      /\ ~s.f.bServerSide /\ ~s.adrift =>
           /\ start <= 0 \/ start < D
           /\ start >= 0 /\ D # 0 => start < u.end
  <2> DEFINE e == DisplayEnd(u)
             R == RecordsDisplay(u)
             n == e - length
  <2>1. length \in Int /\ (length = -1 \/ length > 0)
    BY DEF PageLengths
  <2>2. start = CASE length = -1 -> 0
                  [] length # -1 /\ e = R -> IF n < 0 THEN 0 ELSE n
                  [] OTHER -> s.start
    BY <1>6 DEF LengthStart, NotBelow0
  <2>3. /\ e \in Int /\ R \in Nat /\ u.end \in Int /\ u.end <= D
        /\ ~s.f.bServerSide => e = u.end /\ R = D
        /\ length = -1 => u.end = D
        /\ s.start < D => s.start < u.end
    BY <1>1, <1>2, <1>5, <1>8
  <2>4. ~s.f.bServerSide /\ ~s.adrift => s.start <= 0 \/ s.start < D
    BY DEF Started
  <2> HIDE DEF e, R, D, start
  <2>5. CASE length = -1
    <3>1. start = 0
      BY <2>2, <2>5
    <3> QED BY <1>8, <2>3, <2>5, <3>1
  <2>6. CASE length # -1 /\ e = R
    <3>1. start = IF n < 0 THEN 0 ELSE n
      BY <2>2, <2>6
    <3> QED BY <1>8, <2>1, <2>3, <2>6, <3>1
  <2>7. CASE length # -1 /\ e # R
    <3>1. start = s.start
      BY <2>2, <2>7
    <3>2. start \in Int
      BY <1>8, <3>1
    <3>3. start >= 0 /\ D # 0 /\ (start <= 0 \/ start < D) => start < D
      BY <1>8, <3>2
    <3> QED BY <2>3, <2>4, <3>1, <3>2, <3>3
  <2> QED BY <2>5, <2>6, <2>7
<1> HIDE DEF start, v
<1>10. /\ v.end = u.end /\ v.length = length /\ v.aiDisplay = s.aiDisplay
       /\ v.aiDisplayMaster = u.aiDisplayMaster /\ v.f = s.f /\ v.adrift = s.adrift
  BY <1>6, <1>7 DEF Leaves, Fields
<1>11. Base(v)
  <2>1. Leaves(u, v, Aside \cup {"aiDisplay", "aiDisplayMaster", "start", "end", "length"})
    BY <1>7 DEF Leaves
  <2>2. /\ v.start \in Int /\ v.end \in Int /\ v.length \in PageLengths
        /\ Indexes(v.aiDisplay, Len(u.aoData))
    BY <1>5, <1>6, <1>7, <1>9, <1>10 DEF Base, Numbers, RowsValid
  <2> QED BY <1>5, <1>10, <2>1, <2>2, Moved
<1>12. Started(v)
  BY <1>7, <1>9, <1>10 DEF Started, D
<1>13. Ready(v)
  <2>1. u.end <= D
    BY <1>2, <1>5 DEF D
  <2> QED BY <1>7, <1>8, <1>9, <1>10, <2>1 DEF Ready, D
<1>14. Good(Draw(v))
  BY <1>11, <1>12, <1>13, DrawGood
<1> QED BY <1>11, <1>12, <1>14 DEF v, start, u, t

LEMMA PageChangeGood ==
  ASSUME NEW s, Base(s), Started(s), NEW start \in Int, NEW redraw \in BOOLEAN
  PROVE  LET moved == [GoTo(s, start) EXCEPT
                         !.adrift = @ \/ ~redraw \/ start >= RecordsDisplay(s)]
         IN /\ Base(moved) /\ Started(moved) /\ (redraw => Good(Draw(moved)))
<1> DEFINE t == [s EXCEPT !.start = start]
           u == CalculateEnd(t)
           a == u.adrift \/ ~redraw \/ start >= RecordsDisplay(s)
           v == [u EXCEPT !.adrift = a]
<1>1. Leaves(s, t, {"start"}) /\ t.start = start
  BY DEF Base, Leaves, IsSettings, Fields
<1> HIDE DEF t
<1>2. /\ t.end = s.end /\ t.length = s.length /\ t.aiDisplay = s.aiDisplay
      /\ t.aiDisplayMaster = s.aiDisplayMaster /\ t.f = s.f /\ t.adrift = s.adrift
  BY <1>1 DEF Leaves, Fields
<1>3. Base(t)
  <2>1. Leaves(s, t, Aside \cup {"aiDisplay", "aiDisplayMaster", "start", "end", "length"})
    BY <1>1 DEF Leaves
  <2>2. /\ t.start \in Int /\ t.end \in Int /\ t.length \in PageLengths
        /\ Indexes(t.aiDisplay, Len(s.aoData))
    BY <1>1, <1>2 DEF Base, Numbers, RowsValid
  <2> QED BY <1>2, <2>1, <2>2, Moved
<1>4. /\ Base(u) /\ Leaves(t, u, {"end"}) /\ u.end \in Int /\ u.end <= Len(t.aiDisplay)
      /\ t.start < Len(t.aiDisplay) => t.start < u.end
  BY <1>3, CalculateEndIs
<1> HIDE DEF u
<1>5. Leaves(u, v, {"adrift"}) /\ v.adrift = a
  <2> HIDE DEF a
  <2> QED BY <1>4 DEF Base, Leaves, IsSettings, Fields
<1>6. GoTo(s, start) = u
  BY DEF GoTo, u, t
<1>7. [GoTo(s, start) EXCEPT !.adrift = @ \/ ~redraw \/ start >= RecordsDisplay(s)] = v
  BY <1>6
<1> HIDE DEF v
<1>8. /\ v.start = start /\ v.end = u.end /\ v.length = u.length /\ v.aiDisplay = u.aiDisplay
      /\ v.aiDisplayMaster = u.aiDisplayMaster /\ v.f = s.f
  BY <1>1, <1>2, <1>4, <1>5 DEF Leaves, Fields
<1>9. u.aiDisplay = s.aiDisplay /\ u.adrift = s.adrift
  BY <1>1, <1>2, <1>4 DEF Leaves, Fields
<1>10. Base(v)
  <2>1. Leaves(u, v, Aside \cup {"aiDisplay", "aiDisplayMaster", "start", "end", "length"})
    BY <1>5 DEF Leaves, Aside
  <2>2. /\ v.start \in Int /\ v.end \in Int /\ v.length \in PageLengths
        /\ Indexes(v.aiDisplay, Len(u.aoData))
    BY <1>4, <1>8 DEF Base, Numbers, RowsValid
  <2> QED BY <1>4, <1>8, <2>1, <2>2, Moved
<1>11. ~s.f.bServerSide /\ ~v.adrift => start < Len(s.aiDisplay)
  <2>1. ~s.f.bServerSide => RecordsDisplay(s) = Len(s.aiDisplay)
    BY DEF RecordsDisplay
  <2>2. Len(s.aiDisplay) \in Nat
    BY DisplayCounted
  <2>3. ~a => ~(start >= RecordsDisplay(s))
    BY Zenon
  <2> HIDE DEF a
  <2>4. ~v.adrift => ~a
    BY <1>5
  <2> QED BY <2>1, <2>2, <2>3, <2>4
<1> HIDE DEF a
<1>12. Started(v)
  BY <1>8, <1>9, <1>11 DEF Started
<1>13. Ready(v)
  BY <1>1, <1>2, <1>4, <1>8, <1>9, <1>11 DEF Ready
<1>14. Good(Draw(v))
  BY <1>10, <1>12, <1>13, DrawGood
<1> QED BY <1>7, <1>10, <1>12, <1>14

-----------------------------------------------------------------------------
(* Indices that are each there once are no more than the rows.             *)
LEMMA IndexesCount ==
  ASSUME NEW n \in Nat, NEW seq, Indexes(seq, n)
  PROVE  Len(seq) \in Nat /\ Len(seq) <= n /\ (ToSet(seq) = 1 .. n => Len(seq) = n)
<1> DEFINE L == Len(seq)
           S == 1 .. L
           T == 1 .. n
<1>1. L \in Nat /\ seq \in [S -> T] /\ \A i, j \in S : seq[i] = seq[j] => i = j
  BY DEF Indexes, Distinct
<1>2. IsFiniteSet(T) /\ Cardinality(T) = n
  <2>1. 1 \in Int /\ n \in Int /\ (1 > n => n = 0) /\ n - 1 + 1 = n
    OBVIOUS
  <2> QED BY <2>1, FS_Interval
<1>3. Cardinality(S) = L
  <2> HIDE DEF L
  <2>1. 1 \in Int /\ L \in Int /\ (1 > L => L = 0) /\ L - 1 + 1 = L
    BY <1>1
  <2> QED BY <2>1, FS_Interval
<1> HIDE DEF L, S, T
<1>4. seq \in Injection(S, T)
  BY <1>1, Fun_IsInj
<1>5. /\ Cardinality(S) <= Cardinality(T)
      /\ Cardinality(S) = Cardinality(T) <=> seq \in Surjection(S, T)
  BY <1>2, <1>4, FS_Injection
<1>6. ToSet(seq) = T => seq \in Surjection(S, T)
  <2> SUFFICES ASSUME ToSet(seq) = T
               PROVE  seq \in Surjection(S, T)
    OBVIOUS
  <2>1. DOMAIN seq = S
    BY <1>1
  <2>2. ASSUME NEW y \in T
        PROVE  \E x \in S : seq[x] = y
    BY <2>1, <2>2 DEF ToSet
  <2> QED BY <1>1, <2>2 DEF Surjection
<1> QED BY <1>1, <1>2, <1>3, <1>5, <1>6 DEF L, T

(* The same, when the rows themselves change.                              *)
LEMMA BaseReplaced ==
  ASSUME NEW s, Base(s), NEW r,
         Leaves(s, r, Aside \cup {"aoData", "aiDisplay", "aiDisplayMaster", "start", "initStart",
                                  "end", "loading", "requests", "recordsDisplay", "open"}),
         r.start \in Int, r.initStart \in Int, r.end \in Int,
         r.requests \subseteq s.requests, r.recordsDisplay \in Nat,
         r.open = s.open \/ r.open = {},
         RowsValid(r),
         r.loading => s.loading /\ \A i \in DOMAIN r.aoData : r.aoData[i].key \notin DOMAIN SourceRows
  PROVE  Base(r)
<1>1. /\ r.f = s.f /\ r.ajaxStart = s.ajaxStart /\ r.body = s.body
      /\ r.cookie = s.cookie /\ r.length = s.length
  BY DEF Leaves, Aside, Fields
<1>2. IsSettings(r) /\ r.f \in Features /\ BodyOK(r.body)
  BY <1>1 DEF Leaves, Base
<1>3. Numbers(r)
  BY <1>1 DEF Numbers, Base
<1>4. Pending(r)
  BY <1>1 DEF Pending, Base
<1>5. DetailsShown(r.body, r.open)
  BY <1>1 DEF Base, DetailsShown
<1> QED BY <1>2, <1>3, <1>4, <1>5 DEF Base

LEMMA KeysAre ==
  \E n \in Nat : Keys = 1 .. n /\ Len(SourceRows) <= n /\ SourceRows \in Seq(CellTexts)
<1>1. Cardinality(Keys) \in Nat
  BY KeysAssumption, FS_CardinalityType
<1> QED BY <1>1, KeysAssumption

LEMMA SourceTableIs ==
  /\ SourceTable \in Seq(RowType) /\ DOMAIN SourceTable = DOMAIN SourceRows
  /\ \A i \in DOMAIN SourceTable : SourceTable[i].node = NoNode /\ SourceTable[i].key = i
<1>1. PICK n \in Nat : Keys = 1 .. n /\ Len(SourceRows) <= n /\ SourceRows \in Seq(CellTexts)
  BY KeysAre
<1> DEFINE L == Len(SourceRows)
<1>2. L \in Nat /\ DOMAIN SourceRows = 1 .. L /\ \A i \in 1 .. L : SourceRows[i] \in CellTexts /\ i \in Keys
  BY <1>1
<1>3. SourceTable = [i \in 1 .. L |-> NewRow(i, SourceRows[i])]
  BY <1>2 DEF SourceTable
<1>4. ASSUME NEW i \in 1 .. L
      PROVE  /\ NewRow(i, SourceRows[i]) \in RowType
             /\ NewRow(i, SourceRows[i]).node = NoNode /\ NewRow(i, SourceRows[i]).key = i
  <2>1. SourceRows[i] \in CellTexts /\ i \in Keys
    BY <1>2
  <2> QED BY <2>1 DEF NewRow, RowType, NoNode
<1> HIDE DEF L
<1>5. SourceTable \in [1 .. L -> RowType] /\ \A i \in 1 .. L : SourceTable[i] = NewRow(i, SourceRows[i])
  BY <1>3, <1>4
<1>6. SourceTable \in Seq(RowType) /\ DOMAIN SourceTable = 1 .. L
  BY <1>2, <1>5
<1> QED BY <1>2, <1>4, <1>5, <1>6

(* Rows that are added, all of them or some behind those that are there.   *)
NewRows(s, rows) ==
  /\ rows \in Seq(RowType)
  /\ \A i \in DOMAIN rows : rows[i].node = NoNode
  /\ \A i, j \in DOMAIN rows : rows[i].key = rows[j].key => i = j
  /\ \A i \in DOMAIN rows, j \in DOMAIN s.aoData : rows[i].key # s.aoData[j].key

LEMMA AddedBase ==
  ASSUME NEW s, Base(s), NEW rows, NewRows(s, rows),
         s.loading => \A i \in DOMAIN rows : rows[i].key \notin DOMAIN SourceRows
  PROVE  LET added == AddRows(s, rows)
         IN /\ Base(added) /\ Leaves(s, added, {"aoData", "aiDisplayMaster"})
            /\ Len(s.aiDisplay) <= Len(added.aiDisplayMaster)
<1> DEFINE t == AddRows(s, rows)
           n == Len(s.aoData)
           k0 == Len(rows)
           all == s.aoData \o rows
           more == [k \in DOMAIN rows |-> n + k]
<1>1. IsSettings(s) /\ RowsValid(s) /\ s.f.bDeferRender \in BOOLEAN
  BY FeaturesBoolean DEF Base
<1>2. /\ RowsValid(t) /\ SameCells(all, t.aoData) /\ t.aiDisplayMaster = s.aiDisplayMaster \o more
  BY <1>1, AddRowsKeeps DEF NewRows
<1>3. Leaves(s, t, {"aoData", "aiDisplayMaster"})
  BY <1>1, AddRowsLeaves
<1> HIDE DEF t
<1>4. /\ t.start = s.start /\ t.initStart = s.initStart /\ t.end = s.end
      /\ t.requests = s.requests /\ t.recordsDisplay = s.recordsDisplay /\ t.open = s.open
      /\ t.loading = s.loading
  BY <1>3 DEF Leaves, Fields
<1>5. /\ s.aoData \in Seq(RowType) /\ rows \in Seq(RowType) /\ n \in Nat /\ k0 \in Nat
      /\ DOMAIN s.aoData = 1 .. n /\ DOMAIN rows = 1 .. k0
  BY <1>1 DEF RowsValid, RowsOK, NewRows
<1>6. /\ Len(all) = n + k0 /\ DOMAIN all = 1 .. n + k0
      /\ \A i \in 1 .. n + k0 : all[i] = IF i <= n THEN s.aoData[i] ELSE rows[i - n]
  BY <1>5
<1>7. ASSUME s.loading
      PROVE  \A i \in DOMAIN t.aoData : t.aoData[i].key \notin DOMAIN SourceRows
  <2>1. t.aoData \in Seq(RowType)
    BY <1>2 DEF RowsValid, RowsOK
  <2> HIDE DEF all, n, k0
  <2>2. DOMAIN t.aoData = 1 .. n + k0 /\ \A i \in 1 .. n + k0 : t.aoData[i].key = all[i].key
    <3>1. Len(t.aoData) = n + k0 /\ \A i \in DOMAIN all : t.aoData[i].key = all[i].key
      BY <1>2, <1>6 DEF SameCells
    <3>2. DOMAIN t.aoData = 1 .. Len(t.aoData)
      BY <2>1
    <3> QED BY <1>6, <3>1, <3>2
  <2>3. ASSUME NEW i \in 1 .. n + k0
        PROVE  all[i].key \notin DOMAIN SourceRows
    <3>1. CASE i <= n
      <4>1. i \in DOMAIN s.aoData /\ all[i] = s.aoData[i]
        BY <1>5, <1>6, <3>1
      <4> QED BY <1>7, <4>1 DEF Base, Pending
    <3>2. CASE ~(i <= n)
      <4>1. i - n \in DOMAIN rows /\ all[i] = rows[i - n]
        BY <1>5, <1>6, <3>2
      <4> QED BY <1>7, <4>1
    <3> QED BY <3>1, <3>2
  <2> QED BY <2>2, <2>3
<1>8. Leaves(s, t, Aside \cup {"aoData", "aiDisplay", "aiDisplayMaster", "start", "initStart",
                               "end", "loading", "requests", "recordsDisplay", "open"})
  BY <1>3 DEF Leaves
<1>9. Base(t)
  <2>1. t.start \in Int /\ t.initStart \in Int /\ t.end \in Int /\ t.recordsDisplay \in Nat
    BY <1>4 DEF Base, Numbers
  <2> QED BY <1>2, <1>4, <1>7, <1>8, <2>1, BaseReplaced
<1>10. Len(s.aiDisplay) <= Len(t.aiDisplayMaster)
  <2>1. /\ Indexes(s.aiDisplay, n) /\ Indexes(t.aiDisplayMaster, Len(t.aoData))
        /\ ToSet(t.aiDisplayMaster) = 1 .. Len(t.aoData)
    BY <1>1, <1>2 DEF RowsValid
  <2>2. Len(t.aoData) = n + k0
    BY <1>2, <1>6 DEF SameCells
  <2>3. Len(s.aiDisplay) \in Nat /\ Len(s.aiDisplay) <= n
    BY <1>5, <2>1, IndexesCount
  <2> DEFINE c == Len(t.aoData)
  <2>4. c \in Nat
    BY <1>5, <2>2
  <2>5. Len(t.aiDisplayMaster) = c
    BY <2>1, <2>4, IndexesCount
  <2> QED BY <1>5, <2>2, <2>3, <2>5
<1> QED BY <1>3, <1>9, <1>10 DEF t

(* fnAddData, before it draws.                                             *)
LEMMA AddDataBase ==
  ASSUME NEW s, Base(s), Started(s), NEW key \in FreeKeys(s), NEW text \in Texts
  PROVE  LET added == AddRow(s, NewRow(key, text))
             shown == [added EXCEPT !.aiDisplay = added.aiDisplayMaster,
                                    !.loose = TRUE, !.unsorted = TRUE]
             left == [shown EXCEPT !.adrift = TRUE]
         IN Base(shown) /\ Started(shown) /\ Base(left) /\ Started(left)
<1> DEFINE rows == <<NewRow(key, text)>>
           t == AddRow(s, NewRow(key, text))
           m == t.aiDisplayMaster
           u == [t EXCEPT !.aiDisplay = m, !.loose = TRUE, !.unsorted = TRUE]
           v == [u EXCEPT !.adrift = TRUE]
<1>1. /\ key \in Keys /\ key \notin DOMAIN SourceRows
      /\ \A j \in DOMAIN s.aoData : key # s.aoData[j].key
  BY DEF FreeKeys, KeysOf
<1>2. NewRow(key, text) \in RowType /\ NewRow(key, text).node = NoNode /\ NewRow(key, text).key = key
  BY <1>1 DEF NewRow, RowType, NoNode, CellTexts
<1>3. NewRows(s, rows) /\ \A i \in DOMAIN rows : rows[i].key \notin DOMAIN SourceRows
  BY <1>1, <1>2 DEF NewRows
<1>4. t = AddRows(s, rows)
  BY DEF AddRow
<1> HIDE DEF rows, t
<1>5. /\ Base(t) /\ Leaves(s, t, {"aoData", "aiDisplayMaster"})
      /\ Len(s.aiDisplay) <= Len(m)
  BY <1>3, <1>4, AddedBase
<1>6. Leaves(t, u, {"aiDisplay", "loose", "unsorted"}) /\ u.aiDisplay = m
  BY <1>5 DEF Base, Leaves, IsSettings, Fields
<1> HIDE DEF u
<1>7. /\ u.start = s.start /\ u.end = t.end /\ u.length = t.length /\ u.f = s.f
      /\ u.adrift = s.adrift /\ u.aiDisplayMaster = m
      /\ t.start = s.start /\ t.initStart = s.initStart
  BY <1>5, <1>6 DEF Leaves, Fields
<1>8. Base(u)
  <2>1. Leaves(t, u, Aside \cup {"aiDisplay", "aiDisplayMaster", "start", "end", "length"})
    BY <1>6 DEF Leaves, Aside
  <2>2. /\ u.start \in Int /\ u.end \in Int /\ u.length \in PageLengths
        /\ Indexes(u.aiDisplay, Len(t.aoData))
    BY <1>5, <1>6, <1>7 DEF Base, Numbers, RowsValid
  <2> QED BY <1>5, <1>7, <2>1, <2>2, Moved
<1>9. Started(u)
  <2>1. /\ s.start \in Int /\ Len(s.aiDisplay) \in Nat /\ Len(u.aiDisplay) \in Nat
    BY <1>8, DisplayCounted DEF Base, Numbers
  <2>2. Len(s.aiDisplay) <= Len(u.aiDisplay)
    BY <1>5, <1>6
  <2> QED BY <1>7, <2>1, <2>2 DEF Started
<1>10. Leaves(u, v, {"adrift"}) /\ v.adrift = TRUE
  BY <1>8 DEF Base, Leaves, IsSettings, Fields
<1> HIDE DEF v
<1>11. Base(v) /\ Started(v)
  <2>1. Leaves(u, v, Aside \cup {"aiDisplay", "aiDisplayMaster", "start", "end", "length"})
    BY <1>10 DEF Leaves, Aside
  <2>2. /\ v.start = u.start /\ v.end = u.end /\ v.length = u.length
        /\ v.aiDisplay = u.aiDisplay /\ v.aiDisplayMaster = u.aiDisplayMaster
    BY <1>10 DEF Leaves, Fields
  <2>3. /\ v.start \in Int /\ v.end \in Int /\ v.length \in PageLengths
        /\ Indexes(v.aiDisplay, Len(u.aoData))
    BY <1>8, <2>2 DEF Base, Numbers, RowsValid
  <2>4. Base(v)
    BY <1>8, <2>1, <2>2, <2>3, Moved
  <2> QED BY <1>10, <2>4 DEF Started
<1> QED BY <1>8, <1>9, <1>11 DEF v, u, t

(* A table left without a draw.                                            *)
LEMMA LeftBase ==
  ASSUME NEW s, Base(s)
  PROVE  Base([s EXCEPT !.adrift = TRUE]) /\ Started([s EXCEPT !.adrift = TRUE])
<1> DEFINE v == [s EXCEPT !.adrift = TRUE]
<1>1. Leaves(s, v, {"adrift"}) /\ v.adrift = TRUE
  BY DEF Base, Leaves, IsSettings, Fields
<1> HIDE DEF v
<1>2. Leaves(s, v, Aside \cup {"aiDisplay", "aiDisplayMaster", "start", "end", "length"})
  BY <1>1 DEF Leaves, Aside
<1>3. /\ v.start = s.start /\ v.end = s.end /\ v.length = s.length
      /\ v.aiDisplay = s.aiDisplay /\ v.aiDisplayMaster = s.aiDisplayMaster
  BY <1>1 DEF Leaves, Fields
<1>4. /\ v.start \in Int /\ v.end \in Int /\ v.length \in PageLengths
      /\ Indexes(v.aiDisplay, Len(s.aoData))
  BY <1>3 DEF Base, Numbers, RowsValid
<1>5. Base(v)
  BY <1>2, <1>3, <1>4, Moved
<1> QED BY <1>1, <1>5 DEF Started, v

LEMMA EmptyRows ==
  RowsOK(<< >>) /\ Indexes(<< >>, 0) /\ Len(<< >>) = 0 /\ ToSet(<< >>) = {} /\ 1 .. 0 = {}
BY DEF RowsOK, Indexes, Distinct, ToSet

LEMMA ClearTableBase ==
  ASSUME NEW s, Base(s)
  PROVE  /\ Base(ClearTable(s)) /\ ClearTable(s).aoData = << >>
         /\ Leaves(s, ClearTable(s), {"aoData", "aiDisplayMaster", "aiDisplay", "end"})
         /\ ClearTable(s).aiDisplay = << >> /\ ClearTable(s).end <= 0
<1> DEFINE m == [s EXCEPT !.aoData = << >>, !.aiDisplayMaster = << >>, !.aiDisplay = << >>]
           t == ClearTable(s)
<1>1. /\ Leaves(s, m, {"aoData", "aiDisplayMaster", "aiDisplay"})
      /\ m.aoData = << >> /\ m.aiDisplayMaster = << >> /\ m.aiDisplay = << >>
  BY DEF Base, Leaves, IsSettings, Fields
<1>2. t = CalculateEnd(m)
  BY DEF ClearTable
<1> HIDE DEF m, t
<1>3. /\ m.start = s.start /\ m.initStart = s.initStart /\ m.end = s.end
      /\ m.requests = s.requests /\ m.recordsDisplay = s.recordsDisplay /\ m.open = s.open
      /\ m.loading = s.loading
  BY <1>1 DEF Leaves, Fields
<1>4. RowsValid(m)
  BY <1>1, EmptyRows DEF RowsValid
<1>5. Base(m)
  <2>1. Leaves(s, m, Aside \cup {"aoData", "aiDisplay", "aiDisplayMaster", "start", "initStart",
                                 "end", "loading", "requests", "recordsDisplay", "open"})
    BY <1>1 DEF Leaves
  <2>2. m.start \in Int /\ m.initStart \in Int /\ m.end \in Int /\ m.recordsDisplay \in Nat
    BY <1>3 DEF Base, Numbers
  <2>3. DOMAIN m.aoData = {}
    BY <1>1
  <2> QED BY <1>3, <1>4, <2>1, <2>2, <2>3, BaseReplaced
<1>6. Base(t) /\ Leaves(m, t, {"end"}) /\ t.end \in Int /\ t.end <= Len(m.aiDisplay)
  BY <1>2, <1>5, CalculateEndIs
<1>7. t.aoData = << >> /\ t.aiDisplay = << >> /\ t.end <= 0
  BY <1>1, <1>6, EmptyRows DEF Leaves, Fields
<1>8. Leaves(s, t, {"aoData", "aiDisplayMaster", "aiDisplay", "end"})
  BY <1>1, <1>6 DEF Leaves
<1> QED BY <1>6, <1>7, <1>8 DEF t

(* fnClearTable.                                                           *)
LEMMA ClearRowsGood ==
  ASSUME NEW s, Base(s)
  PROVE  LET cleared == [ClearTable(s) EXCEPT !.adrift = TRUE]
         IN Base(cleared) /\ Started(cleared) /\ Good(Draw(cleared))
<1> DEFINE t == ClearTable(s)
           u == [t EXCEPT !.adrift = TRUE]
<1>1. Base(t) /\ t.aiDisplay = << >> /\ t.end <= 0
  BY ClearTableBase
<1> HIDE DEF t
<1>2. Base(u) /\ Started(u)
  BY <1>1, LeftBase
<1>3. u.aiDisplay = t.aiDisplay /\ u.end = t.end
  BY <1>1 DEF Base, IsSettings, Fields
<1>4. Ready(u)
  BY <1>1, <1>3, EmptyRows DEF Ready
<1>5. Good(Draw(u))
  BY <1>2, <1>4, DrawGood
<1> QED BY <1>2, <1>5 DEF u, t

(* The rows of an Ajax source arrive.                                      *)
LEMMA AjaxLoadGood ==
  ASSUME NEW s, Base(s), Started(s), s.loading
  PROVE  LET loaded == [AddRows(s, SourceTable) EXCEPT !.loading = FALSE, !.initStart = s.ajaxStart]
             shown == [loaded EXCEPT !.aiDisplay = loaded.aiDisplayMaster,
                         !.loose = loaded.sSearch # << >> \/ loaded.sColumn # << >>]
         IN Good(Sort(loaded)) /\ Good(Draw(CalculateEnd(shown)))
<1> DEFINE t == AddRows(s, SourceTable)
           u == [t EXCEPT !.loading = FALSE, !.initStart = s.ajaxStart]
           m == u.aiDisplayMaster
           b == u.sSearch # << >> \/ u.sColumn # << >>
           v == [u EXCEPT !.aiDisplay = m, !.loose = b]
<1>1. /\ SourceTable \in Seq(RowType) /\ DOMAIN SourceTable = DOMAIN SourceRows
      /\ \A i \in DOMAIN SourceTable : SourceTable[i].node = NoNode /\ SourceTable[i].key = i
  BY SourceTableIs
<1>2. \A j \in DOMAIN s.aoData : s.aoData[j].key \notin DOMAIN SourceRows
  BY DEF Base, Pending
<1>3. NewRows(s, SourceTable)
  BY <1>1, <1>2 DEF NewRows
<1>4. /\ RowsValid(t) /\ Leaves(s, t, {"aoData", "aiDisplayMaster"})
      /\ t.aiDisplayMaster = s.aiDisplayMaster \o [k \in DOMAIN SourceTable |-> Len(s.aoData) + k]
  BY <1>3, AddRowsKeeps, AddRowsLeaves, FeaturesBoolean DEF NewRows, Base
<1> HIDE DEF t
<1>5. Leaves(t, u, {"loading", "initStart"}) /\ u.loading = FALSE /\ u.initStart = s.ajaxStart
  BY <1>4 DEF Leaves, IsSettings, Fields
<1> HIDE DEF u
<1>6. /\ u.start = s.start /\ u.end = s.end /\ u.requests = s.requests /\ u.open = s.open
      /\ u.recordsDisplay = s.recordsDisplay /\ u.aiDisplay = s.aiDisplay /\ u.f = s.f
      /\ u.adrift = s.adrift /\ u.aoData = t.aoData /\ m = t.aiDisplayMaster
      /\ t.aiDisplay = s.aiDisplay /\ u.length = s.length
  BY <1>4, <1>5 DEF Leaves, Fields
<1>7. RowsValid(u)
  BY <1>4, <1>6 DEF RowsValid
<1>8. Base(u)
  <2>1. Leaves(s, u, Aside \cup {"aoData", "aiDisplay", "aiDisplayMaster", "start", "initStart",
                                 "end", "loading", "requests", "recordsDisplay", "open"})
    BY <1>4, <1>5 DEF Leaves
  <2>2. u.start \in Int /\ u.initStart \in Int /\ u.end \in Int /\ u.recordsDisplay \in Nat
    BY <1>5, <1>6 DEF Base, Numbers
  <2> QED BY <1>5, <1>6, <1>7, <2>1, <2>2, BaseReplaced
<1>9. Leaves(u, v, {"aiDisplay", "loose"}) /\ v.aiDisplay = m
  <2> HIDE DEF b, m
  <2> QED BY <1>8 DEF Base, Leaves, IsSettings, Fields
<1> HIDE DEF b, v
<1>10. /\ v.start = s.start /\ v.initStart = u.initStart /\ v.end = u.end /\ v.length = u.length
       /\ v.aiDisplayMaster = m /\ v.f = s.f /\ v.adrift = s.adrift
  BY <1>6, <1>9 DEF Leaves, Fields
<1>11. Base(v)
  <2>1. Leaves(u, v, Aside \cup {"aiDisplay", "aiDisplayMaster", "start", "end", "length"})
    BY <1>9 DEF Leaves, Aside
  <2>2. /\ v.start \in Int /\ v.end \in Int /\ v.length \in PageLengths
        /\ Indexes(v.aiDisplay, Len(u.aoData))
    BY <1>6, <1>8, <1>9, <1>10 DEF Base, Numbers, RowsValid
  <2> QED BY <1>8, <1>10, <2>1, <2>2, Moved
<1>12. Started(v)
  <2> DEFINE n == Len(u.aoData)
  <2>1. n \in Nat /\ Indexes(m, n) /\ ToSet(m) = 1 .. n
    BY <1>7 DEF RowsValid, RowsOK
  <2>2. Indexes(s.aiDisplay, n)
    BY <1>4, <1>6 DEF RowsValid
  <2>3. Len(m) = n /\ Len(s.aiDisplay) \in Nat /\ Len(s.aiDisplay) <= n
    BY <2>1, <2>2, IndexesCount
  <2>4. s.start \in Int
    BY DEF Base, Numbers
  <2> HIDE DEF n, m
  <2> QED BY <1>9, <1>10, <2>1, <2>3, <2>4 DEF Started
<1> HIDE DEF m
<1>13. Good(Sort(u)) /\ Good(Draw(CalculateEnd(v)))
  BY <1>8, <1>11, <1>12, SortGood, DrawAnew
<1> QED BY <1>13 DEF v, b, m, u, t

(* One index fewer is left, or none fewer.                                 *)
LEMMA DeleteIndexCount ==
  ASSUME NEW n \in Nat, NEW seq, Indexes(seq, n), NEW target
  PROVE  /\ Len(DeleteIndex(seq, target)) \in Nat
         /\ Len(seq) \in Nat /\ Len(DeleteIndex(seq, target)) >= Len(seq) - 1
<1> DEFINE L == Len(seq)
           S == 1 .. L
           places == {k \in DOMAIN seq : seq[k] # target}
           left == ItemsAt(seq, places)
<1>1. /\ L \in Nat /\ DOMAIN seq = S /\ places \in SUBSET S
      /\ seq \in Seq(1 .. n)
      /\ \A i, j \in S : seq[i] = seq[j] => i = j
  BY DEF Indexes, Distinct
<1>2. IsFiniteSet(S) /\ Cardinality(S) = L
  <2> HIDE DEF L
  <2>1. 1 \in Int /\ L \in Int /\ (1 > L => L = 0) /\ L - 1 + 1 = L
    BY <1>1
  <2> QED BY <2>1, FS_Interval
<1>3. Len(DeleteIndex(seq, target)) = Cardinality(places) /\ Cardinality(places) \in Nat
  <2>1. /\ Len(left) = Cardinality(places) /\ DOMAIN left = 1 .. Cardinality(places)
        /\ Cardinality(places) \in Nat
    BY <1>1, ItemsSelected DEF Selects, Increasing
  <2>2. DeleteIndex(seq, target) =
          [k \in DOMAIN left |-> IF left[k] > target THEN left[k] - 1 ELSE left[k]]
    BY DEF DeleteIndex
  <2> HIDE DEF left, places
  <2> QED BY <2>1, <2>2
<1>4. ASSUME NEW k \in S, seq[k] = target
      PROVE  places = S \ {k}
  BY <1>1, <1>4
<1>5. (\A k \in S : seq[k] # target) => places = S
  BY <1>1
<1> HIDE DEF L, S, places
<1>6. Cardinality(places) >= L - 1
  <2>1. CASE \A k \in S : seq[k] # target
    BY <1>1, <1>2, <1>5, <2>1
  <2>2. CASE \E k \in S : seq[k] = target
    <3>1. PICK k \in S : seq[k] = target
      BY <2>2
    <3>2. places = S \ {k}
      BY <1>4, <3>1
    <3>3. Cardinality(S \ {k}) = Cardinality(S) - 1
      BY <1>2, FS_RemoveElement
    <3> QED BY <1>1, <1>2, <3>2, <3>3
  <2> QED BY <2>1, <2>2
<1> QED BY <1>1, <1>3, <1>6 DEF L

(* fnDeleteRow, before it draws.                                           *)
LEMMA DeleteRowBase ==
  ASSUME NEW s, Base(s), Started(s), NEW target \in DOMAIN s.aoData
  PROVE  LET hidden == IndexOf(s.aiDisplay, target) = {}
             removed == [s EXCEPT
                           !.aoData = SplicedRows(s, target),
                           !.asDataSearch = SplicedSearch(s, target),
                           !.aiDisplayMaster = DeleteIndex(@, target),
                           !.aiDisplay = DeleteIndex(@, target),
                           !.stale = @ \/ hidden]
             moved == [removed EXCEPT
                         !.start = StartAfterDelete(removed),
                         !.adrift = @ \/ removed.length = -1]
         IN Base(moved) /\ Started(moved)
<1> DEFINE n == Len(s.aoData)
           rows == SplicedRows(s, target)
           search == SplicedSearch(s, target)
           m == DeleteIndex(s.aiDisplayMaster, target)
           d == DeleteIndex(s.aiDisplay, target)
           stale == s.stale \/ IndexOf(s.aiDisplay, target) = {}
           t == [s EXCEPT !.aoData = rows, !.asDataSearch = search, !.aiDisplayMaster = m,
                          !.aiDisplay = d, !.stale = stale]
           start == StartAfterDelete(t)
           a == t.adrift \/ t.length = -1
           v == [t EXCEPT !.start = start, !.adrift = a]
<1>1. n \in Nat /\ n >= 1 /\ target \in 1 .. n /\ DOMAIN s.aoData = 1 .. n
  BY DEF Base, RowsValid, RowsOK
<1>2. /\ RowsOK(rows) /\ Len(rows) = n - 1 /\ SameCells(RemoveAt(s.aoData, target), rows)
  BY SplicedRowsKeeps DEF Base, RowsValid
<1>3. /\ Indexes(m, n - 1) /\ ToSet(m) = 1 .. n - 1 /\ Indexes(d, n - 1)
  BY <1>1, DeleteIndexKeeps DEF Base, RowsValid
<1>4. Len(d) \in Nat /\ Len(s.aiDisplay) \in Nat /\ Len(d) >= Len(s.aiDisplay) - 1
  BY <1>1, DeleteIndexCount DEF Base, RowsValid
<1>5. \A i \in DOMAIN rows : \E j \in DOMAIN s.aoData : rows[i].key = s.aoData[j].key
  <2>1. s.aoData \in Seq(RowType)
    BY DEF Base, RowsValid, RowsOK
  <2>2. /\ Len(RemoveAt(s.aoData, target)) = n - 1
        /\ RemoveAt(s.aoData, target) \in Seq(RowType)
        /\ \A i \in 1 .. n - 1 :
             RemoveAt(s.aoData, target)[i] = IF i < target THEN s.aoData[i] ELSE s.aoData[i + 1]
    BY <1>1, <2>1, RemoveAtIs
  <2>3. rows \in Seq(RowType)
    BY <1>2 DEF RowsOK
  <2> DEFINE left == RemoveAt(s.aoData, target)
  <2> HIDE DEF left, rows, n
  <2>4. DOMAIN left = 1 .. n - 1 /\ DOMAIN rows = 1 .. n - 1
    BY <1>2, <2>2, <2>3 DEF left
  <2>5. \A i \in 1 .. n - 1 : rows[i].key = left[i].key
    BY <1>2, <2>4 DEF SameCells, left
  <2>6. ASSUME NEW i \in 1 .. n - 1
        PROVE  \E j \in 1 .. n : rows[i].key = s.aoData[j].key
    <3>1. CASE i < target
      <4>1. i \in 1 .. n /\ left[i] = s.aoData[i]
        BY <1>1, <2>2, <3>1 DEF left
      <4> QED BY <2>5, <4>1
    <3>2. CASE ~(i < target)
      <4>1. i + 1 \in 1 .. n /\ left[i] = s.aoData[i + 1]
        BY <1>1, <2>2, <3>2 DEF left
      <4> QED BY <2>5, <4>1
    <3> QED BY <3>1, <3>2
  <2> QED BY <1>1, <2>4, <2>6
<1> HIDE DEF rows, search, m, d, stale
<1>6. /\ Leaves(s, t, {"aoData", "asDataSearch", "aiDisplayMaster", "aiDisplay", "stale"})
      /\ t.aoData = rows /\ t.aiDisplayMaster = m /\ t.aiDisplay = d
  BY DEF Base, Leaves, IsSettings, Fields
<1> HIDE DEF t
<1>7. /\ t.start = s.start /\ t.length = s.length /\ t.f = s.f /\ t.adrift = s.adrift
  BY <1>6 DEF Leaves, Fields
<1> HIDE DEF start, a
<1>8. Leaves(t, v, {"start", "adrift"}) /\ v.start = start /\ v.adrift = a
  BY <1>6 DEF Leaves, IsSettings, Fields
<1> HIDE DEF v
<1>9. /\ v.initStart = s.initStart /\ v.end = s.end /\ v.requests = s.requests
      /\ v.recordsDisplay = s.recordsDisplay /\ v.open = s.open /\ v.loading = s.loading
      /\ v.aoData = rows /\ v.aiDisplayMaster = m /\ v.aiDisplay = d /\ v.f = s.f
  BY <1>6, <1>8 DEF Leaves, Fields
<1>10. /\ s.start \in Int /\ s.length \in Int /\ (s.length = -1 \/ s.length > 0)
       /\ s.recordsDisplay \in Nat
  BY DEF Base, Numbers, PageLengths
<1> DEFINE R == RecordsDisplay(t)
<1>11. /\ R \in Nat /\ (~s.f.bServerSide => R = Len(d))
  <2>1. t.recordsDisplay = s.recordsDisplay
    BY <1>6 DEF Leaves, Fields
  <2> QED BY <1>4, <1>6, <1>7, <1>10, <2>1 DEF RecordsDisplay
<1>12. start = IF s.start >= R THEN IF s.start - s.length < 0 THEN 0 ELSE s.start - s.length
               ELSE s.start
  BY <1>7 DEF start, StartAfterDelete, NotBelow0
<1> HIDE DEF R
<1>13. start \in Int
  BY <1>10, <1>11, <1>12
<1>14. RowsValid(v)
  BY <1>2, <1>3, <1>9 DEF RowsValid
<1>15. Base(v)
  <2>1. Leaves(s, v, Aside \cup {"aoData", "aiDisplay", "aiDisplayMaster", "start", "initStart",
                                 "end", "loading", "requests", "recordsDisplay", "open"})
    BY <1>6, <1>8 DEF Leaves, Aside
  <2>2. v.start \in Int /\ v.initStart \in Int /\ v.end \in Int /\ v.recordsDisplay \in Nat
    BY <1>8, <1>9, <1>13 DEF Base, Numbers
  <2>3. v.loading => \A i \in DOMAIN v.aoData : v.aoData[i].key \notin DOMAIN SourceRows
    BY <1>5, <1>9 DEF Base, Pending
  <2> QED BY <1>9, <1>14, <2>1, <2>2, <2>3, BaseReplaced
<1>16. Started(v)
  <2>1. SUFFICES ASSUME ~s.f.bServerSide, ~v.adrift
                 PROVE  start <= 0 \/ start < Len(d)
    BY <1>8, <1>9 DEF Started
  <2>2. ~a
    BY <1>8, <2>1
  <2>3. ~s.adrift /\ s.length # -1
    BY <1>7, <2>2 DEF a
  <2>4. s.start <= 0 \/ s.start < Len(s.aiDisplay)
    BY <2>1, <2>3 DEF Started
  <2> DEFINE D == Len(d)
             E == Len(s.aiDisplay)
  <2>5. R = D /\ D \in Nat /\ E \in Nat /\ D >= E - 1 /\ (s.start <= 0 \/ s.start < E)
    BY <1>4, <1>11, <2>1, <2>4
  <2> HIDE DEF D, E
  <2>6. start <= 0 \/ start < D
    BY <1>10, <1>12, <2>3, <2>5
  <2> QED BY <2>6 DEF D
<1> QED BY <1>15, <1>16 DEF v, a, start, t, stale, d, m, search, rows

(* fnUpdate, before it draws.                                              *)
LEMMA UpdateBase ==
  ASSUME NEW s, Base(s), Started(s), NEW target \in DOMAIN s.aoData, NEW text \in Texts,
         NEW redraw \in BOOLEAN
  PROVE  LET hidden == IndexOf(s.aiDisplay, target) = {}
             changed == [s EXCEPT
                           !.aoData[target].text = text,
                           !.asDataSearch = UpdatedSearch(s, target, text),
                           !.loose = @ \/ ~redraw \/ hidden, !.unsorted = TRUE]
         IN Base(changed) /\ Started(changed)
<1> DEFINE n == Len(s.aoData)
           rows == [s.aoData EXCEPT ![target].text = text]
           search == UpdatedSearch(s, target, text)
           loose == s.loose \/ ~redraw \/ IndexOf(s.aiDisplay, target) = {}
           v == [s EXCEPT !.aoData[target].text = text, !.asDataSearch = search,
                          !.loose = loose, !.unsorted = TRUE]
<1>1. /\ s.aoData \in Seq(RowType) /\ n \in Nat /\ DOMAIN s.aoData = 1 .. n /\ target \in 1 .. n
      /\ \A i \in 1 .. n : s.aoData[i] \in RowType /\ s.aoData[i].node \in {NoNode, i}
      /\ \A i, j \in 1 .. n : s.aoData[i].key = s.aoData[j].key => i = j
  BY DEF Base, RowsValid, RowsOK
<1>2. rows = [i \in 1 .. n |-> IF i = target THEN [s.aoData[i] EXCEPT !.text = text] ELSE s.aoData[i]]
  BY <1>1
<1>3. ASSUME NEW i \in 1 .. n
      PROVE  /\ rows[i] \in RowType /\ rows[i].node \in {NoNode, i}
             /\ rows[i].key = s.aoData[i].key
  <2>1. s.aoData[i] \in RowType /\ s.aoData[i].node \in {NoNode, i} /\ text \in CellTexts
    BY <1>1 DEF CellTexts
  <2> DEFINE x == s.aoData[i]
             y == [x EXCEPT !.text = text]
  <2>2. rows[i] = x \/ rows[i] = y
    BY <1>2
  <2> HIDE DEF x, rows
  <2>3. y \in RowType /\ y.node = x.node /\ y.key = x.key
    BY <2>1 DEF RowType, x
  <2> HIDE DEF y
  <2> QED BY <2>1, <2>2, <2>3 DEF x
<1>4. RowsOK(rows) /\ Len(rows) = n /\ DOMAIN rows = 1 .. n
  <2> HIDE DEF n
  <2>1. DOMAIN rows = 1 .. n
    BY <1>2
  <2>2. rows \in [1 .. n -> RowType]
    <3>1. rows = [i \in 1 .. n |-> rows[i]]
      BY <1>2
    <3> HIDE DEF rows
    <3> QED BY <1>3, <3>1
  <2> HIDE DEF rows
  <2>3. rows \in Seq(RowType) /\ Len(rows) = n
    BY <1>1, <2>2
  <2> QED BY <1>1, <1>3, <2>1, <2>3 DEF RowsOK
<1>5. v = [s EXCEPT !.aoData = rows, !.asDataSearch = search, !.loose = loose, !.unsorted = TRUE]
  OBVIOUS
<1> HIDE DEF rows, search, loose, v
<1>6. /\ Leaves(s, v, {"aoData", "asDataSearch", "loose", "unsorted"}) /\ v.aoData = rows
  BY <1>5 DEF Base, Leaves, IsSettings, Fields
<1>7. /\ v.start = s.start /\ v.initStart = s.initStart /\ v.end = s.end
      /\ v.requests = s.requests /\ v.recordsDisplay = s.recordsDisplay /\ v.open = s.open
      /\ v.loading = s.loading /\ v.f = s.f /\ v.adrift = s.adrift
      /\ v.aiDisplay = s.aiDisplay /\ v.aiDisplayMaster = s.aiDisplayMaster
  BY <1>6 DEF Leaves, Fields
<1>8. RowsValid(v)
  BY <1>4, <1>6, <1>7 DEF Base, RowsValid
<1>9. Base(v)
  <2>1. Leaves(s, v, Aside \cup {"aoData", "aiDisplay", "aiDisplayMaster", "start", "initStart",
                                 "end", "loading", "requests", "recordsDisplay", "open"})
    BY <1>6 DEF Leaves, Aside
  <2>2. v.start \in Int /\ v.initStart \in Int /\ v.end \in Int /\ v.recordsDisplay \in Nat
    BY <1>7 DEF Base, Numbers
  <2>3. v.loading => \A i \in DOMAIN v.aoData : v.aoData[i].key \notin DOMAIN SourceRows
    BY <1>1, <1>3, <1>4, <1>6, <1>7 DEF Base, Pending
  <2> QED BY <1>7, <1>8, <2>1, <2>2, <2>3, BaseReplaced
<1>10. Started(v)
  BY <1>7 DEF Started
<1> QED BY <1>9, <1>10 DEF v, search, loose

-----------------------------------------------------------------------------
(* What the server sends for a request: new rows, each once.               *)
LEMMA AnswerRowsAre ==
  ASSUME NEW params, params.start \in Int, params.length \in PageLengths
  PROVE  LET rows == AnswerRows(params).rows
         IN /\ AnswerRows(params).total \in Nat
            /\ rows \in Seq(RowType)
            /\ \A i \in DOMAIN rows : rows[i].node = NoNode
            /\ \A i, j \in DOMAIN rows : rows[i].key = rows[j].key => i = j
<1> DEFINE places == {i \in DOMAIN SourceTable : /\ Accepts(params.search, SourceTable[i].text)
                                                 /\ Accepts(params.column, SourceTable[i].text)}
           found == ItemsAt(SourceTable, places)
           c == Len(found)
           a == NotBelow0(params.start) + 1
           b == IF params.length = -1 \/ params.start + params.length > c
                THEN c ELSE params.start + params.length
           rows == SubSeq(found, a, b)
<1>1. AnswerRows(params).total = c /\ AnswerRows(params).rows = rows
  BY DEF AnswerRows
<1>2. /\ SourceTable \in Seq(RowType)
      /\ \A i \in DOMAIN SourceTable : SourceTable[i].node = NoNode /\ SourceTable[i].key = i
  BY SourceTableIs
<1>3. \A i, j \in DOMAIN SourceTable : SourceTable[i] = SourceTable[j] => i = j
  BY <1>2
<1>4. places \in SUBSET DOMAIN SourceTable
  OBVIOUS
<1> HIDE DEF places, found, c, a, b, rows
<1>5. /\ found \in Seq(RowType) /\ Selects(found, SourceTable, places)
      /\ \A k, l \in DOMAIN found : found[k] = found[l] => k = l
  BY <1>2, <1>3, <1>4, ItemsSelected, SelectedOnce DEF found
<1>6. c \in Nat /\ DOMAIN found = 1 .. c /\ \A k \in 1 .. c : found[k] \in RowType
  BY <1>5 DEF c
<1>7. \A k \in 1 .. c : /\ Place(places, k) \in DOMAIN SourceTable
                        /\ found[k] = SourceTable[Place(places, k)]
  BY <1>4, <1>5, <1>6 DEF Selects, Increasing
<1>8. /\ \A k \in 1 .. c : found[k].node = NoNode
      /\ \A k, l \in 1 .. c : found[k].key = found[l].key => k = l
  <2>1. \A k \in 1 .. c : found[k].node = NoNode /\ found[k].key = Place(places, k)
    BY <1>2, <1>7
  <2>2. \A k, l \in 1 .. c : found[k].key = found[l].key => found[k] = found[l]
    BY <1>7, <2>1
  <2> QED BY <1>5, <1>6, <2>1, <2>2
<1>9. a \in Int /\ a >= 1
  BY DEF a, NotBelow0
<1>10. b \in Int /\ b <= c
  BY <1>6 DEF b, PageLengths
<1>11. CASE a <= b
  <2>1. \A i \in a .. b : found[i] \in RowType
    BY <1>6, <1>9, <1>10
  <2>2. /\ rows \in Seq(RowType) /\ Len(rows) = b - a + 1
        /\ \A i \in 1 .. b - a + 1 : rows[i] = found[a + i - 1]
    BY <1>9, <1>10, <1>11, <2>1, SubSeqProperties DEF rows
  <2>3. DOMAIN rows = 1 .. b - a + 1
    BY <2>2
  <2>4. \A i \in 1 .. b - a + 1 : a + i - 1 \in 1 .. c
    BY <1>6, <1>9, <1>10, <1>11
  <2>5. \A i \in DOMAIN rows : rows[i].node = NoNode
    BY <1>8, <2>2, <2>3, <2>4
  <2>6. ASSUME NEW i \in DOMAIN rows, NEW j \in DOMAIN rows, rows[i].key = rows[j].key
        PROVE  i = j
    <3>1. found[a + i - 1].key = found[a + j - 1].key
      BY <2>2, <2>3, <2>6
    <3>2. a + i - 1 = a + j - 1
      BY <1>8, <2>3, <2>4, <3>1
    <3> QED BY <1>9, <2>3, <3>2
  <2> QED BY <1>1, <1>6, <2>2, <2>5, <2>6
<1>12. CASE ~(a <= b)
  <2>1. rows = << >>
    BY <1>9, <1>10, <1>12, SubSeqEmpty DEF rows
  <2> QED BY <1>1, <1>6, <2>1
<1> QED BY <1>11, <1>12

(* A request is taken out.                                                 *)
LEMMA WaitingGood ==
  ASSUME NEW s, Base(s), Started(s), NEW request \in s.requests
  PROVE  LET waiting == [s EXCEPT !.requests = @ \ {request}]
         IN /\ Base(waiting) /\ Started(waiting) /\ Shown(waiting)
            /\ Leaves(s, waiting, {"requests"})
            /\ waiting.requests \subseteq s.requests /\ s.f.bServerSide
<1> DEFINE rest == s.requests \ {request}
           t == [s EXCEPT !.requests = rest]
<1>1. rest \subseteq s.requests
  OBVIOUS
<1> HIDE DEF rest
<1>2. Leaves(s, t, {"requests"}) /\ t.requests = rest
  BY DEF Base, Leaves, IsSettings, Fields
<1> HIDE DEF t
<1>3. /\ t.start = s.start /\ t.initStart = s.initStart /\ t.end = s.end /\ t.open = s.open
      /\ t.recordsDisplay = s.recordsDisplay /\ t.loading = s.loading /\ t.aoData = s.aoData
      /\ t.aiDisplay = s.aiDisplay /\ t.aiDisplayMaster = s.aiDisplayMaster /\ t.f = s.f
  BY <1>2 DEF Leaves, Fields
<1>4. s.f.bServerSide
  BY DEF Base, Pending
<1>5. RowsValid(t)
  BY <1>3 DEF Base, RowsValid
<1>6. Base(t)
  <2>1. Leaves(s, t, Aside \cup {"aoData", "aiDisplay", "aiDisplayMaster", "start", "initStart",
                                 "end", "loading", "requests", "recordsDisplay", "open"})
    BY <1>2 DEF Leaves
  <2>2. t.start \in Int /\ t.initStart \in Int /\ t.end \in Int /\ t.recordsDisplay \in Nat
    BY <1>3 DEF Base, Numbers
  <2>3. t.loading => \A i \in DOMAIN t.aoData : t.aoData[i].key \notin DOMAIN SourceRows
    BY <1>3 DEF Base, Pending
  <2> QED BY <1>1, <1>2, <1>3, <1>5, <2>1, <2>2, <2>3, BaseReplaced
<1>7. Started(t) /\ Shown(t)
  BY <1>3, <1>4 DEF Started, Shown
<1> QED BY <1>1, <1>2, <1>4, <1>6, <1>7 DEF t, rest

(* An answer is taken.                                                     *)
LEMMA AnswerGood ==
  ASSUME NEW s, Base(s), Started(s), NEW request \in s.requests
  PROVE  LET waiting == [s EXCEPT !.requests = @ \ {request}]
             answered == AnswerRows(request.params)
             refilled == AddRows(ClearTable([waiting EXCEPT !.iDraw = request.sEcho]), answered.rows)
             shown == [refilled EXCEPT !.recordsDisplay = answered.total,
                                       !.open = {},
                                       !.aiDisplay = refilled.aiDisplayMaster,
                                       !.answer = request]
         IN Good(InsertRows(TakeInitStart(shown)))
<1> DEFINE waiting == [s EXCEPT !.requests = @ \ {request}]
           rows == AnswerRows(request.params).rows
           total == AnswerRows(request.params).total
           w == [waiting EXCEPT !.iDraw = request.sEcho]
           c == ClearTable(w)
           t == AddRows(c, rows)
           m == t.aiDisplayMaster
           v == [t EXCEPT !.recordsDisplay = total, !.open = {}, !.aiDisplay = m,
                          !.answer = request]
<1>1. /\ Base(waiting) /\ Leaves(s, waiting, {"requests"}) /\ s.f.bServerSide
  BY WaitingGood
<1> HIDE DEF waiting
<1>2. Leaves(waiting, w, {"iDraw"})
  BY <1>1 DEF Leaves, IsSettings, Fields
<1>3. /\ total \in Nat /\ rows \in Seq(RowType)
      /\ \A i \in DOMAIN rows : rows[i].node = NoNode
      /\ \A i, j \in DOMAIN rows : rows[i].key = rows[j].key => i = j
  <2>1. request.params.start \in Int /\ request.params.length \in PageLengths
    BY DEF Base, Numbers
  <2> QED BY <2>1, AnswerRowsAre
<1> HIDE DEF w, rows, total
<1>4. Base(w)
  <2>1. Leaves(waiting, w, Aside \cup {"aiDisplay", "aiDisplayMaster", "start", "end", "length"})
    BY <1>2 DEF Leaves, Aside
  <2>2. /\ w.start = waiting.start /\ w.end = waiting.end /\ w.length = waiting.length
        /\ w.aiDisplay = waiting.aiDisplay /\ w.aiDisplayMaster = waiting.aiDisplayMaster
    BY <1>2 DEF Leaves, Fields
  <2>3. /\ w.start \in Int /\ w.end \in Int /\ w.length \in PageLengths
        /\ Indexes(w.aiDisplay, Len(waiting.aoData))
    BY <1>1, <2>2 DEF Base, Numbers, RowsValid
  <2> QED BY <1>1, <2>1, <2>2, <2>3, Moved
<1>5. Base(c) /\ c.aoData = << >> /\ Leaves(w, c, {"aoData", "aiDisplayMaster", "aiDisplay", "end"})
  BY <1>4, ClearTableBase
<1> HIDE DEF c
<1>6. /\ c.f = s.f /\ c.loading = s.loading
  BY <1>1, <1>2, <1>5 DEF Leaves, Fields
<1>7. /\ NewRows(c, rows) /\ ~c.loading
  BY <1>1, <1>3, <1>5, <1>6 DEF NewRows, Base, Pending
<1>8. Base(t) /\ Leaves(c, t, {"aoData", "aiDisplayMaster"})
  BY <1>5, <1>7, AddedBase
<1> HIDE DEF t
<1>9. /\ Leaves(t, v, {"recordsDisplay", "open", "aiDisplay", "answer"})
      /\ v.recordsDisplay = total /\ v.open = {} /\ v.aiDisplay = m
  <2> HIDE DEF m
  <2> QED BY <1>8 DEF Leaves, IsSettings, Fields
<1> HIDE DEF v
<1>10. /\ v.start = t.start /\ v.initStart = t.initStart /\ v.end = t.end
       /\ v.requests = t.requests /\ v.loading = t.loading /\ v.aoData = t.aoData
       /\ v.aiDisplayMaster = m /\ v.f = t.f
       /\ t.f = s.f
  BY <1>6, <1>8, <1>9 DEF Leaves, Fields
<1>11. RowsValid(v)
  BY <1>8, <1>9, <1>10 DEF Base, RowsValid
<1>12. Base(v)
  <2>1. Leaves(t, v, Aside \cup {"aoData", "aiDisplay", "aiDisplayMaster", "start", "initStart",
                                 "end", "loading", "requests", "recordsDisplay", "open"})
    BY <1>9 DEF Leaves, Aside
  <2>2. v.start \in Int /\ v.initStart \in Int /\ v.end \in Int
    BY <1>8, <1>10 DEF Base, Numbers
  <2>3. v.loading => \A i \in DOMAIN v.aoData : v.aoData[i].key \notin DOMAIN SourceRows
    BY <1>8, <1>10 DEF Base, Pending
  <2> QED BY <1>3, <1>8, <1>9, <1>10, <1>11, <2>1, <2>2, <2>3, BaseReplaced
<1>13. Started(v) /\ Ready(v)
  BY <1>1, <1>10 DEF Started, Ready
<1> DEFINE x == TakeInitStart(v)
<1>14. Base(x) /\ Started(x) /\ Ready(x)
  BY <1>12, <1>13, TakeInitStartReady
<1> HIDE DEF x
<1>15. Good(InsertRows(x))
  BY <1>14, InsertRowsGood
<1> QED BY <1>15 DEF x, v, m, t, c, w, total, rows, waiting

-----------------------------------------------------------------------------
(* A table as it is started, before the first draw.                        *)
LEMMA ConstructedBase ==
  ASSUME NEW f \in Features, NEW cookie, NEW length \in f.aLengthMenu,
         \A saved \in cookie : saved.start \in Int /\ saved.length \in PageLengths
  PROVE  LET s == Constructed(f, cookie, length)
         IN Base(s) /\ (s.initStart = -1 => Started(s)) /\ s.aiDisplay = s.aiDisplayMaster
<1> DEFINE s == Constructed(f, cookie, length)
           first == LoadState(f, cookie, length)
           rows == IF f.source = "dom"
                   THEN [i \in DOMAIN SourceTable |-> [SourceTable[i] EXCEPT !.node = i]]
                   ELSE << >>
           all == [i \in DOMAIN rows |-> i]
<1>1. first.start \in Int /\ first.length \in PageLengths
  <2>1. length \in PageLengths
    BY FeaturesAssumption DEF PageLengths
  <2>2. CASE f.bStateSave /\ cookie # {}
    <3>1. first \in cookie
      BY <2>2 DEF LoadState
    <3> HIDE DEF first
    <3> QED BY <3>1
  <2>3. CASE ~(f.bStateSave /\ cookie # {})
    <3>1. first.start = 0 /\ first.length = length
      BY <2>3 DEF LoadState
    <3> QED BY <2>1, <3>1
  <2> QED BY <2>2, <2>3
<1>2. RowsOK(rows)
  <2>1. CASE f.source = "dom"
    <3> DEFINE L == Len(SourceTable)
               new == [i \in DOMAIN SourceTable |-> [SourceTable[i] EXCEPT !.node = i]]
    <3>1. /\ SourceTable \in Seq(RowType)
          /\ \A i \in DOMAIN SourceTable : SourceTable[i].key = i
      BY SourceTableIs
    <3>2. L \in Nat /\ DOMAIN SourceTable = 1 .. L /\ \A i \in 1 .. L : SourceTable[i] \in RowType
      BY <3>1
    <3>3. \A i \in 1 .. L : new[i] \in RowType /\ new[i].node = i /\ new[i].key = i
      BY <3>1, <3>2 DEF RowType
    <3>4. new = [i \in 1 .. L |-> new[i]]
      BY <3>2
    <3> HIDE DEF new, L
    <3>5. new \in [1 .. L -> RowType]
      BY <3>3, <3>4
    <3>6. new \in Seq(RowType) /\ DOMAIN new = 1 .. L
      BY <3>2, <3>5
    <3>7. RowsOK(new)
      BY <3>3, <3>6 DEF RowsOK
    <3> QED BY <2>1, <3>7 DEF new
  <2>2. CASE f.source # "dom"
    BY <2>2, EmptyRows
  <2> QED BY <2>1, <2>2
<1> HIDE DEF first, rows
<1>3. Len(rows) \in Nat /\ DOMAIN rows = 1 .. Len(rows)
  BY <1>2 DEF RowsOK
<1>4. Indexes(all, Len(rows)) /\ ToSet(all) = 1 .. Len(rows)
  <2> DEFINE n == Len(rows)
             S == 1 .. n
  <2>1. n \in Nat /\ all = [i \in 1 .. n |-> i]
    BY <1>3
  <2> HIDE DEF n
  <2>2. all \in [1 .. n -> S]
    BY <2>1
  <2>3. DOMAIN all = 1 .. n /\ \A i \in 1 .. n : all[i] = i
    BY <2>1
  <2> HIDE DEF all, S
  <2>4. all \in Seq(S)
    BY <2>1, <2>2
  <2>5. ToSet(all) = 1 .. n
    BY <2>3 DEF ToSet
  <2> QED BY <2>3, <2>4, <2>5 DEF Indexes, Distinct, S, n
<1> HIDE DEF all
<1>5. s = [f |-> f, aoData |-> rows, aiDisplayMaster |-> all, aiDisplay |-> all,
           asDataSearch |-> << >>,
           sSearch |-> first.search, sColumn |-> first.column, aaSorting |-> first.sorting,
           start |-> first.start, initStart |-> first.start, ajaxStart |-> first.start,
           end |-> 0, length |-> first.length,
           body |-> << >>, open |-> {}, cookie |-> cookie,
           loading |-> f.source = "ajax",
           iDraw |-> 0, requests |-> {}, recordsDisplay |-> 0, answer |-> NoAnswer,
           loose |-> FALSE, unsorted |-> FALSE, stale |-> FALSE, adrift |-> FALSE]
  BY DEF Constructed, all, rows, first
<1>6. IsSettings(s)
  <2> HIDE DEF s
  <2>1. DOMAIN s = Fields
    BY <1>5 DEF Fields
  <2>2. s = [x \in DOMAIN s |-> s[x]]
    BY <1>5
  <2> QED BY <2>1, <2>2 DEF IsSettings
<1> HIDE DEF s
<1>7. /\ s.f = f /\ s.aoData = rows /\ s.aiDisplayMaster = all /\ s.aiDisplay = all
      /\ s.start = first.start /\ s.initStart = first.start /\ s.ajaxStart = first.start
      /\ s.end = 0 /\ s.length = first.length /\ s.body = << >> /\ s.open = {}
      /\ s.cookie = cookie /\ s.loading = (f.source = "ajax") /\ s.requests = {}
      /\ s.recordsDisplay = 0
  BY <1>5
<1>8. RowsValid(s)
  BY <1>2, <1>4, <1>7 DEF RowsValid
<1>9. Numbers(s)
  BY <1>1, <1>7 DEF Numbers
<1>10. Pending(s)
  <2>1. f.source = "ajax" => ~f.bServerSide /\ f.source # "dom"
    BY FeaturesAssumption
  <2>2. f.source = "ajax" => DOMAIN rows = {}
    BY <2>1 DEF rows
  <2> QED BY <1>7, <2>1, <2>2 DEF Pending
<1>11. BodyOK(s.body) /\ DetailsShown(s.body, s.open)
  BY <1>7 DEF BodyOK, DetailsShown, Distinct
<1>12. Base(s)
  BY <1>6, <1>7, <1>8, <1>9, <1>10, <1>11 DEF Base
<1>13. s.initStart = -1 => Started(s)
  BY <1>7 DEF Started
<1> QED BY <1>7, <1>12, <1>13 DEF s

LEMMA InitialiseGood ==
  ASSUME NEW f \in Features, NEW cookie, NEW length \in f.aLengthMenu,
         \A saved \in cookie : saved.start \in Int /\ saved.length \in PageLengths
  PROVE  Good(Initialise(Constructed(f, cookie, length)))
<1> DEFINE s == Constructed(f, cookie, length)
           r == Initialise(s)
           a == Sort(s)
           b == FilterComplete(s, s.sSearch, FALSE)
           t == [s EXCEPT !.aiDisplay = s.aiDisplayMaster]
           c == Draw(CalculateEnd(t))
<1>1. Base(s) /\ (s.initStart = -1 => Started(s)) /\ s.aiDisplay = s.aiDisplayMaster
  BY ConstructedBase
<1> HIDE DEF s
<1>2. t = s
  BY <1>1 DEF Base, IsSettings, Fields
<1>3. s.f.bFilter \in BOOLEAN /\ s.f.bSort \in BOOLEAN
  BY <1>1, FeaturesBoolean
<1> HIDE DEF t
<1>4. Good(a) /\ Good(b) /\ Good(c)
  BY <1>1, <1>2, SortGood, FilterCompleteGood, DrawAnew
<1> HIDE DEF a, b, c
<1>5. /\ s.f.bSort => r = a
      /\ ~s.f.bSort /\ s.f.bFilter => r = b
      /\ ~s.f.bSort /\ ~s.f.bFilter => r = c
  BY <1>3 DEF Initialise, a, b, c, t
<1> HIDE DEF r
<1>6. r = a \/ r = b \/ r = c
  BY <1>3, <1>5, Zenon
<1>7. Good(r)
  BY <1>4, <1>6
<1> QED BY <1>7 DEF r, s

-----------------------------------------------------------------------------
(* A sequence with one entry more.                                         *)
LEMMA InsertAtIs ==
  ASSUME NEW S, NEW seq \in Seq(S), NEW t \in 1 .. Len(seq) + 1, NEW e \in S
  PROVE  /\ InsertAt(seq, t, e) \in Seq(S) /\ Len(InsertAt(seq, t, e)) = Len(seq) + 1
         /\ \A i \in 1 .. Len(seq) + 1 :
              InsertAt(seq, t, e)[i] = IF i < t THEN seq[i] ELSE IF i = t THEN e ELSE seq[i - 1]
<1> DEFINE n == Len(seq)
           a == SubSeq(seq, 1, t - 1)
           b == SubSeq(seq, t, n)
           c == <<e>>
           y == (a \o c) \o b
<1>1. n \in Nat /\ t \in 1 .. n + 1
  OBVIOUS
<1>2. a \in Seq(S) /\ Len(a) = t - 1 /\ \A i \in 1 .. t - 1 : a[i] = seq[i]
  OBVIOUS
<1>3. b \in Seq(S) /\ Len(b) = n + 1 - t /\ \A i \in 1 .. n + 1 - t : b[i] = seq[t + i - 1]
  OBVIOUS
<1>4. c \in Seq(S) /\ Len(c) = 1 /\ c[1] = e
  OBVIOUS
<1>5. InsertAt(seq, t, e) = y
  BY DEF InsertAt
<1> HIDE DEF n, a, b, c
<1>6. /\ a \o c \in Seq(S) /\ Len(a \o c) = t
      /\ \A i \in 1 .. t - 1 : (a \o c)[i] = a[i]
      /\ (a \o c)[t] = c[1]
  <2>1. a \in Seq(S) /\ c \in Seq(S)
    BY <1>2, <1>4
  <2>2. a \o c \in Seq(S) /\ Len(a \o c) = Len(a) + Len(c)
    BY <2>1
  <2>3. (t - 1) + 1 = t
    BY <1>1
  <2>4. /\ \A i \in 1 .. Len(a) : (a \o c)[i] = a[i]
        /\ \A i \in 1 .. Len(c) : (a \o c)[Len(a) + i] = c[i]
    BY <2>1
  <2>5. (a \o c)[t] = c[1]
    <3>1. 1 \in 1 .. Len(c) /\ Len(a) + 1 = t
      BY <1>2, <1>4, <2>3
    <3>2. (a \o c)[Len(a) + 1] = c[1]
      BY <2>4, <3>1
    <3> QED BY <3>1, <3>2
  <2>6. Len(a \o c) = t
    BY <1>2, <1>4, <2>2, <2>3
  <2>7. \A i \in 1 .. t - 1 : (a \o c)[i] = a[i]
    BY <1>2, <2>4
  <2> QED BY <2>2, <2>5, <2>6, <2>7
<1> DEFINE d == a \o c
<1> HIDE DEF d
<1>7. /\ d \o b \in Seq(S) /\ Len(d \o b) = n + 1
      /\ \A i \in 1 .. t : (d \o b)[i] = d[i]
      /\ \A i \in 1 .. n + 1 - t : (d \o b)[t + i] = b[i]
  <2>1. d \in Seq(S) /\ b \in Seq(S) /\ Len(d) = t
    BY <1>3, <1>6 DEF d
  <2>2. d \o b \in Seq(S) /\ Len(d \o b) = Len(d) + Len(b)
    BY <2>1
  <2>3. t + (n + 1 - t) = n + 1
    BY <1>1
  <2>4. /\ \A i \in 1 .. Len(d) : (d \o b)[i] = d[i]
        /\ \A i \in 1 .. Len(b) : (d \o b)[Len(d) + i] = b[i]
    BY <2>1
  <2> QED BY <1>3, <2>1, <2>2, <2>3, <2>4
<1>8. y = d \o b
  BY DEF d
<1> HIDE DEF y
<1>9. ASSUME NEW i \in 1 .. n + 1
      PROVE  y[i] = IF i < t THEN seq[i] ELSE IF i = t THEN e ELSE seq[i - 1]
  <2>1. CASE i < t
    <3>1. i \in 1 .. t /\ i \in 1 .. t - 1
      BY <1>1, <2>1
    <3> QED BY <1>2, <1>6, <1>7, <1>8, <2>1, <3>1 DEF d
  <2>2. CASE i = t
    <3>1. t \in 1 .. t
      BY <1>1
    <3> QED BY <1>4, <1>6, <1>7, <1>8, <2>2, <3>1 DEF d
  <2>3. CASE i > t
    <3> DEFINE k == i - t
    <3>1. k \in 1 .. n + 1 - t /\ t + k = i /\ t + k - 1 = i - 1 /\ ~(i < t) /\ i # t
      BY <1>1, <2>3
    <3> HIDE DEF k
    <3>2. y[i] = b[k] /\ b[k] = seq[i - 1]
      BY <1>3, <1>7, <1>8, <3>1
    <3> QED BY <3>1, <3>2
  <2> QED BY <1>1, <2>1, <2>2, <2>3
<1> QED BY <1>5, <1>7, <1>8, <1>9 DEF n

LEMMA WithoutDetailIs ==
  ASSUME NEW body, BodyOK(body), NEW key
  PROVE  LET left == WithoutDetail(body, key)
         IN /\ BodyOK(left) /\ (body # << >> => left # << >>)
            /\ \A x : x \in ToSet(left) <=> x \in ToSet(body) /\ x # Detail(key)
<1> DEFINE places == {i \in DOMAIN body : body[i] # Detail(key)}
           left == WithoutDetail(body, key)
<1>1. left = ItemsAt(body, places) /\ places \in SUBSET DOMAIN body
  BY DEF WithoutDetail
<1>2. /\ body \in Seq(TrType) /\ \A i, j \in DOMAIN body : body[i] = body[j] => i = j
      /\ \A i \in DOMAIN body : body[i].tr = "detail" => i > 1 /\ body[i - 1] = Row(body[i].key)
  BY DEF BodyOK, Distinct
<1>3. \A i : i \in places <=> i \in DOMAIN body /\ body[i] # Detail(key)
  OBVIOUS
<1>4. \A k : Row(k) # Detail(key) /\ Detail(k).tr = "detail"
  BY DEF Row, Detail
<1> HIDE DEF places, left
<1>5. /\ left \in Seq(TrType) /\ Selects(left, body, places)
      /\ \A k, l \in DOMAIN left : left[k] = left[l] => k = l
      /\ ToSet(left) = {body[i] : i \in places}
  BY <1>1, <1>2, ItemsSelected, SelectedOnce
<1>6. /\ DOMAIN left = 1 .. Cardinality(places) /\ Cardinality(places) \in Nat
      /\ Increasing(places)
      /\ \A k \in 1 .. Cardinality(places) : left[k] = body[Place(places, k)]
      /\ \A k \in 1 .. Cardinality(places) : Place(places, k) \in places
      /\ \A i \in places : \E k \in 1 .. Cardinality(places) : Place(places, k) = i
  BY <1>5 DEF Selects, Increasing
<1>7. DOMAIN body = 1 .. Len(body) /\ Len(body) \in Nat
  BY <1>2
<1>8. \A i \in places : i \in Int
  BY <1>3, <1>7
<1>9. ASSUME NEW k \in DOMAIN left, left[k].tr = "detail"
      PROVE  k > 1 /\ left[k - 1] = Row(left[k].key)
  <2> DEFINE p == Place(places, k)
  <2>1. k \in 1 .. Cardinality(places) /\ p \in places /\ left[k] = body[p]
    BY <1>6
  <2> HIDE DEF p
  <2>2. p \in DOMAIN body /\ p > 1 /\ body[p - 1] = Row(body[p].key)
    BY <1>2, <1>3, <1>9, <2>1
  <2>3. p - 1 \in DOMAIN body
    BY <1>7, <2>2
  <2>4. p - 1 \in places
    BY <1>3, <1>4, <2>2, <2>3
  <2>5. k > 1 /\ Place(places, k - 1) = p - 1
    BY <1>6, <1>8, <2>1, <2>4, PlaceBefore DEF p
  <2>6. k - 1 \in 1 .. Cardinality(places)
    BY <1>6, <2>1, <2>5
  <2> QED BY <1>6, <2>1, <2>2, <2>5, <2>6
<1>10. BodyOK(left)
  BY <1>5, <1>9 DEF BodyOK, Distinct
<1>11. ASSUME body # << >>
       PROVE  left # << >>
  <2>1. 1 \in DOMAIN body
    BY <1>2, <1>7, <1>11
  <2>2. body[1] # Detail(key)
    BY <1>2, <1>4, <2>1
  <2>3. DOMAIN left # {}
    BY <1>3, <1>6, <2>1, <2>2
  <2> QED BY <2>3
<1>12. \A x : x \in ToSet(left) <=> x \in ToSet(body) /\ x # Detail(key)
  BY <1>3, <1>5 DEF ToSet
<1> QED BY <1>10, <1>11, <1>12 DEF left

LEMMA BehindRowIs ==
  ASSUME NEW body, BodyOK(body), NEW key \in Keys, Detail(key) \notin ToSet(body)
  PROVE  LET more == BehindRow(body, key)
         IN /\ BodyOK(more) /\ (body # << >> => more # << >>)
            /\ \A x : x \in ToSet(more) <=>
                        x \in ToSet(body) \/ (x = Detail(key) /\ Row(key) \in ToSet(body))
<1>1. CASE Row(key) \notin ToSet(body)
  BY <1>1 DEF BehindRow
<1>2. CASE Row(key) \in ToSet(body)
  <2> DEFINE at == CHOOSE i \in DOMAIN body : body[i] = Row(key)
             n == Len(body)
             e == Detail(key)
             more == InsertAt(body, at + 1, e)
  <2>1. BehindRow(body, key) = more
    BY <1>2 DEF BehindRow
  <2>2. /\ body \in Seq(TrType) /\ \A i, j \in DOMAIN body : body[i] = body[j] => i = j
        /\ \A i \in DOMAIN body : body[i].tr = "detail" => i > 1 /\ body[i - 1] = Row(body[i].key)
    BY DEF BodyOK, Distinct
  <2>3. n \in Nat /\ DOMAIN body = 1 .. n
    BY <2>2
  <2>4. at \in 1 .. n /\ body[at] = Row(key)
    <3>1. \E i \in DOMAIN body : body[i] = Row(key)
      BY <1>2 DEF ToSet
    <3> QED BY <2>3, <3>1
  <2>5. e \in TrType /\ e.tr = "detail" /\ e.key = key /\ \A i \in 1 .. n : body[i] # e
    <3>1. e \in TrType /\ e.tr = "detail" /\ e.key = key
      BY DEF Detail, TrType
    <3>2. \A i \in DOMAIN body : body[i] # e
      BY DEF ToSet
    <3> QED BY <2>3, <3>1, <3>2
  <2> HIDE DEF at, n, e, more
  <2>6. at + 1 \in 1 .. n + 1
    BY <2>3, <2>4
  <2>7. /\ more \in Seq(TrType) /\ Len(more) = n + 1
        /\ \A i \in 1 .. n + 1 :
             more[i] = IF i < at + 1 THEN body[i] ELSE IF i = at + 1 THEN e ELSE body[i - 1]
    <3> DEFINE t == at + 1
    <3>1. t \in 1 .. Len(body) + 1 /\ more = InsertAt(body, t, e)
      BY <2>6 DEF more, n
    <3> HIDE DEF t
    <3>2. /\ more \in Seq(TrType) /\ Len(more) = Len(body) + 1
          /\ \A i \in 1 .. Len(body) + 1 :
               more[i] = IF i < t THEN body[i] ELSE IF i = t THEN e ELSE body[i - 1]
      <4>1. body \in Seq(TrType) /\ e \in TrType
        BY <2>2, <2>5
      <4>2. t \in 1 .. Len(body) + 1
        BY <3>1
      <4>3. /\ InsertAt(body, t, e) \in Seq(TrType) /\ Len(InsertAt(body, t, e)) = Len(body) + 1
            /\ \A i \in 1 .. Len(body) + 1 :
                 InsertAt(body, t, e)[i] = IF i < t THEN body[i] ELSE IF i = t THEN e ELSE body[i - 1]
        BY <4>1, <4>2, InsertAtIs
      <4> QED BY <3>1, <4>3
    <3> QED BY <3>2 DEF t, n
  <2>8. DOMAIN more = 1 .. n + 1
    BY <2>3, <2>7
  <2>9. ASSUME NEW i \in 1 .. n + 1
        PROVE  \/ i <= at /\ i \in 1 .. n /\ more[i] = body[i]
               \/ i = at + 1 /\ more[i] = e
               \/ i > at + 1 /\ i - 1 \in 1 .. n /\ i - 1 > at /\ more[i] = body[i - 1]
    <3>1. i \in Int /\ 1 <= i /\ i <= n + 1 /\ at \in Int
      BY <2>3, <2>4
    <3>2. more[i] = IF i < at + 1 THEN body[i] ELSE IF i = at + 1 THEN e ELSE body[i - 1]
      BY <2>7
    <3> QED BY <2>3, <2>4, <3>1, <3>2
  <2>10. ASSUME NEW i \in 1 .. n + 1, NEW j \in 1 .. n + 1, more[i] = more[j]
         PROVE  i = j
    <3>1. i \in Int /\ j \in Int /\ at \in Int
      BY <2>3, <2>4
    <3>2. \A k, l \in 1 .. n : body[k] = body[l] => k = l
      BY <2>2, <2>3
    <3>3. \/ j <= at /\ j \in 1 .. n /\ more[j] = body[j]
          \/ j = at + 1 /\ more[j] = e
          \/ j > at + 1 /\ j - 1 \in 1 .. n /\ j - 1 > at /\ more[j] = body[j - 1]
      BY <2>9
    <3>4. CASE i <= at /\ i \in 1 .. n /\ more[i] = body[i]
      <4>1. more[j] # e
        BY <2>5, <2>10, <3>4
      <4>2. j > at + 1 /\ j - 1 \in 1 .. n /\ more[j] = body[j - 1] => i = j - 1
        BY <2>10, <3>2, <3>4
      <4>3. j \in 1 .. n /\ more[j] = body[j] => i = j
        BY <2>10, <3>2, <3>4
      <4> QED BY <3>1, <3>3, <3>4, <4>1, <4>2, <4>3
    <3>5. CASE i = at + 1 /\ more[i] = e
      <4>1. \A k \in 1 .. n : more[j] # body[k]
        BY <2>5, <2>10, <3>5
      <4> QED BY <3>3, <3>5, <4>1
    <3>6. CASE i > at + 1 /\ i - 1 \in 1 .. n /\ i - 1 > at /\ more[i] = body[i - 1]
      <4>1. more[j] # e
        BY <2>5, <2>10, <3>6
      <4>2. j \in 1 .. n /\ more[j] = body[j] => i - 1 = j
        BY <2>10, <3>2, <3>6
      <4>3. j - 1 \in 1 .. n /\ more[j] = body[j - 1] => i - 1 = j - 1
        BY <2>10, <3>2, <3>6
      <4> QED BY <3>1, <3>3, <3>6, <4>1, <4>2, <4>3
    <3> QED BY <2>9, <3>4, <3>5, <3>6
  <2>11. ASSUME NEW i \in 1 .. n + 1, more[i].tr = "detail"
         PROVE  i > 1 /\ more[i - 1] = Row(more[i].key)
    <3>1. i \in Int /\ at \in Int /\ 1 <= at /\ at <= n /\ n \in Int
      BY <2>3, <2>4
    <3>2. CASE i <= at /\ i \in 1 .. n /\ more[i] = body[i]
      <4>1. i > 1 /\ body[i - 1] = Row(body[i].key)
        BY <2>2, <2>3, <2>11, <3>2
      <4>2. i - 1 \in 1 .. n + 1 /\ i - 1 < at + 1
        BY <3>1, <3>2, <4>1
      <4>3. more[i - 1] = body[i - 1]
        BY <2>7, <4>2
      <4> QED BY <3>2, <4>1, <4>3
    <3>3. CASE i = at + 1 /\ more[i] = e
      <4>1. i > 1 /\ i - 1 = at /\ at \in 1 .. n + 1 /\ at < at + 1
        BY <3>1, <3>3
      <4>2. more[at] = body[at]
        BY <2>7, <4>1
      <4> QED BY <2>4, <2>5, <3>3, <4>1, <4>2
    <3>4. CASE i > at + 1 /\ i - 1 \in 1 .. n /\ i - 1 > at /\ more[i] = body[i - 1]
      <4>1. i - 1 > 1 /\ body[i - 1 - 1] = Row(body[i - 1].key)
        BY <2>2, <2>3, <2>11, <3>4
      <4>2. i - 1 # at + 1
        <5> SUFFICES ASSUME i - 1 = at + 1
                     PROVE  FALSE
          OBVIOUS
        <5>1. i - 1 - 1 = at
          BY <3>1
        <5>2. Row(body[i - 1].key) = Row(key)
          BY <2>4, <4>1, <5>1
        <5>3. body[i - 1].key = key
          BY <5>2 DEF Row
        <5>4. body[i - 1] \in TrType /\ body[i - 1].tr = "detail"
          BY <2>2, <2>3, <2>11, <3>4
        <5>5. body[i - 1] = e
          BY <5>3, <5>4 DEF TrType, Detail, e
        <5> QED BY <2>5, <3>4, <5>5
      <4>3. i > 1 /\ i - 1 \in 1 .. n + 1 /\ ~(i - 1 < at + 1)
        BY <3>1, <3>4
      <4>4. more[i - 1] = body[i - 1 - 1]
        BY <2>7, <4>2, <4>3
      <4> QED BY <3>4, <4>1, <4>3, <4>4
    <3> QED BY <2>9, <3>2, <3>3, <3>4
  <2>12. BodyOK(more)
    BY <2>7, <2>8, <2>10, <2>11 DEF BodyOK, Distinct
  <2>13. more # << >>
    BY <2>3, <2>7
  <2>14. ASSUME NEW x
         PROVE  x \in ToSet(more) <=> x \in ToSet(body) \/ x = e
    <3>1. /\ x \in ToSet(more) <=> \E i \in 1 .. n + 1 : more[i] = x
          /\ x \in ToSet(body) <=> \E i \in 1 .. n : body[i] = x
      BY <2>3, <2>8 DEF ToSet
    <3>2. ASSUME x \in ToSet(more)
          PROVE  x \in ToSet(body) \/ x = e
      BY <2>9, <3>1, <3>2
    <3>3. ASSUME NEW i \in 1 .. n, body[i] = x
          PROVE  \E j \in 1 .. n + 1 : more[j] = x
      <4>1. i \in Int /\ 1 <= i /\ i <= n /\ n \in Int /\ at \in Int
        BY <2>3, <2>4
      <4>2. CASE i <= at
        <5>1. i \in 1 .. n + 1 /\ i < at + 1
          BY <4>1, <4>2
        <5> QED BY <2>7, <3>3, <5>1
      <4>3. CASE i > at
        <5> DEFINE j == i + 1
        <5>1. j \in 1 .. n + 1 /\ ~(j < at + 1) /\ j # at + 1 /\ j - 1 = i
          BY <4>1, <4>3
        <5> HIDE DEF j
        <5>2. more[j] = body[i]
          BY <2>7, <5>1
        <5> QED BY <3>3, <5>1, <5>2
      <4> QED BY <4>1, <4>2, <4>3
    <3>4. ASSUME x = e
          PROVE  \E j \in 1 .. n + 1 : more[j] = x
      <4>1. at + 1 \in 1 .. n + 1 /\ ~(at + 1 < at + 1)
        BY <2>4, <2>6
      <4> QED BY <2>7, <3>4, <4>1
    <3> QED BY <3>1, <3>2, <3>3, <3>4
  <2> QED BY <1>2, <2>1, <2>12, <2>13, <2>14 DEF e
<1> QED BY <1>1, <1>2

(* The details of a row are opened or closed: the body changes, and open.  *)
LEMMA BodyChanged ==
  ASSUME NEW s, Base(s), Started(s), NEW body, NEW open,
         BodyOK(body), DetailsShown(body, open), s.body # << >> => body # << >>
  PROVE  LET r == [s EXCEPT !.open = open, !.body = body]
         IN Base(r) /\ Started(r) /\ (Shown(s) => Shown(r))
<1> DEFINE r == [s EXCEPT !.open = open, !.body = body]
<1>1. Leaves(s, r, {"open", "body"}) /\ r.open = open /\ r.body = body
  BY DEF Base, Leaves, IsSettings, Fields
<1> HIDE DEF r
<1>2. /\ r.f = s.f /\ r.aoData = s.aoData /\ r.aiDisplayMaster = s.aiDisplayMaster
      /\ r.aiDisplay = s.aiDisplay /\ r.start = s.start /\ r.initStart = s.initStart
      /\ r.ajaxStart = s.ajaxStart /\ r.end = s.end /\ r.length = s.length
      /\ r.loading = s.loading /\ r.requests = s.requests /\ r.cookie = s.cookie
      /\ r.recordsDisplay = s.recordsDisplay /\ r.adrift = s.adrift
  BY <1>1 DEF Leaves, Fields
<1>3. RowsValid(r) /\ Numbers(r) /\ Pending(r)
  BY <1>2 DEF Base, RowsValid, Numbers, Pending
<1>4. IsSettings(r) /\ r.f \in Features /\ BodyOK(r.body) /\ DetailsShown(r.body, r.open)
  BY <1>1, <1>2 DEF Leaves, Base
<1>5. Started(r) /\ (Shown(s) => Shown(r))
  BY <1>1, <1>2 DEF Started, Shown
<1> QED BY <1>3, <1>4, <1>5 DEF Base, r

LEMMA OpenGood ==
  ASSUME NEW s, Base(s), Started(s), NEW key \in Keys
  PROVE  LET r == [s EXCEPT !.open = @ \cup {key},
                            !.body = BehindRow(BeforeOpen(@, key), key)]
         IN Base(r) /\ Started(r) /\ (Shown(s) => Shown(r))
<1> DEFINE left == WithoutDetail(s.body, key)
           more == BehindRow(left, key)
           open == s.open \cup {key}
           r == [s EXCEPT !.open = @ \cup {key}, !.body = BehindRow(BeforeOpen(@, key), key)]
<1>1. BodyOK(s.body) /\ DetailsShown(s.body, s.open)
  BY DEF Base
<1>2. /\ BodyOK(left) /\ (s.body # << >> => left # << >>)
      /\ \A x : x \in ToSet(left) <=> x \in ToSet(s.body) /\ x # Detail(key)
  BY <1>1, WithoutDetailIs
<1> HIDE DEF left
<1>3. Detail(key) \notin ToSet(left)
  BY <1>2
<1>4. /\ BodyOK(more) /\ (left # << >> => more # << >>)
      /\ \A x : x \in ToSet(more) <=>
                  x \in ToSet(left) \/ (x = Detail(key) /\ Row(key) \in ToSet(left))
  BY <1>2, <1>3, BehindRowIs
<1> HIDE DEF more
<1>5. \A k : Row(k) # Detail(key) /\ (k # key => Detail(k) # Detail(key))
  BY DEF Row, Detail
<1>6. ASSUME NEW k \in open, Row(k) \in ToSet(more)
      PROVE  Detail(k) \in ToSet(more)
  <2>1. Row(k) \in ToSet(left) /\ Row(k) \in ToSet(s.body)
    BY <1>2, <1>4, <1>5, <1>6
  <2>2. CASE k = key
    BY <1>4, <2>1, <2>2
  <2>3. CASE k # key
    <3>1. k \in s.open
      BY <2>3
    <3>2. Detail(k) \in ToSet(s.body)
      BY <1>1, <2>1, <3>1 DEF DetailsShown
    <3> QED BY <1>2, <1>4, <1>5, <2>3, <3>2
  <2> QED BY <2>2, <2>3
<1>7. DetailsShown(more, open)
  BY <1>6 DEF DetailsShown
<1> HIDE DEF open
<1>8. s.body # << >> => more # << >>
  BY <1>2, <1>4
<1> DEFINE q == [s EXCEPT !.open = open, !.body = more]
<1>9. Base(q) /\ Started(q) /\ (Shown(s) => Shown(q))
  BY <1>4, <1>7, <1>8, BodyChanged
<1>10. r = q
  BY DEF BeforeOpen, open, more, left
<1> HIDE DEF q, r
<1>11. Base(r) /\ Started(r) /\ (Shown(s) => Shown(r))
  BY <1>9, <1>10
<1> QED BY <1>11 DEF r

LEMMA CloseGood ==
  ASSUME NEW s, Base(s), Started(s), NEW key
  PROVE  LET r == [s EXCEPT !.open = @ \ {key}, !.body = WithoutDetail(@, key)]
         IN Base(r) /\ Started(r) /\ (Shown(s) => Shown(r))
<1> DEFINE left == WithoutDetail(s.body, key)
           open == s.open \ {key}
           r == [s EXCEPT !.open = open, !.body = left]
<1>1. BodyOK(s.body) /\ DetailsShown(s.body, s.open)
  BY DEF Base
<1>2. /\ BodyOK(left) /\ (s.body # << >> => left # << >>)
      /\ \A x : x \in ToSet(left) <=> x \in ToSet(s.body) /\ x # Detail(key)
  BY <1>1, WithoutDetailIs
<1> HIDE DEF left
<1>3. \A k : k # key => Detail(k) # Detail(key)
  BY DEF Detail
<1>4. DetailsShown(left, open)
  BY <1>1, <1>2, <1>3 DEF DetailsShown
<1> HIDE DEF open
<1>5. Base(r) /\ Started(r) /\ (Shown(s) => Shown(r))
  BY <1>2, <1>4, BodyChanged
<1> HIDE DEF r
<1> QED BY <1>5 DEF r, open, left

(* A set of places has a first one.                                        *)
LEMMA SmallestOf ==
  ASSUME NEW n \in Nat, NEW places \in SUBSET (1 .. n), places # {}
  PROVE  \E k \in places : \A j \in places : k <= j
<1> DEFINE c == Cardinality(places)
<1>1. /\ c \in Nat
      /\ \A k \in 1 .. c : Place(places, k) \in places
      /\ \A k, l \in 1 .. c : k < l => Place(places, k) < Place(places, l)
      /\ \A i \in places : \E k \in 1 .. c : Place(places, k) = i
  BY PlacesIncreasing DEF Increasing
<1>2. \A i \in places : i \in Int
  OBVIOUS
<1> HIDE DEF c
<1>3. 1 \in 1 .. c
  <2>1. PICK i \in places : TRUE
    OBVIOUS
  <2>2. PICK k \in 1 .. c : Place(places, k) = i
    BY <1>1
  <2> QED BY <1>1, <2>2
<1>4. ASSUME NEW j \in places
      PROVE  Place(places, 1) <= j
  <2>1. PICK k \in 1 .. c : Place(places, k) = j
    BY <1>1
  <2>2. k = 1 \/ 1 < k
    BY <1>1
  <2>3. Place(places, 1) \in Int /\ j \in Int
    BY <1>1, <1>2, <1>3
  <2>4. 1 < k => Place(places, 1) < j
    BY <1>1, <1>3, <2>1
  <2> QED BY <2>1, <2>2, <2>3, <2>4
<1> QED BY <1>1, <1>3, <1>4

-----------------------------------------------------------------------------
(* The invariant: the settings are sound, the page begins with a row, and  *)
(* a table that was drawn is not blank.                                    *)
PageInv == Base(oSettings) /\ Started(oSettings) /\ (~undrawn => Shown(oSettings))

LEMMA DrawnKeeps ==
  ASSUME NEW r, Good(r), oSettings' = r
  PROVE  PageInv'
BY DEF PageInv, Good

LEMMA LeftKeeps ==
  ASSUME NEW r, Base(r), Started(r), oSettings' = r, undrawn' = TRUE
  PROVE  PageInv'
BY DEF PageInv

LEMMA InitPage ==
  Init => PageInv
<1> SUFFICES ASSUME Init
             PROVE  PageInv
  OBVIOUS
<1>1. PICK f \in Features : \E length \in f.aLengthMenu :
        oSettings = Initialise(Constructed(f, {}, length))
  BY DEF Init
<1>2. PICK length \in f.aLengthMenu : oSettings = Initialise(Constructed(f, {}, length))
  BY <1>1
<1>3. Good(oSettings)
  BY <1>2, InitialiseGood
<1> QED BY <1>3 DEF PageInv, Good

LEMMA ReloadKeeps ==
  ASSUME PageInv, Reload
  PROVE  PageInv'
<1>1. PICK length \in oSettings.f.aLengthMenu :
        oSettings' = Initialise(Constructed(oSettings.f, oSettings.cookie, length))
  BY DEF Reload
<1>2. /\ oSettings.f \in Features
      /\ \A saved \in oSettings.cookie : saved.start \in Int /\ saved.length \in PageLengths
  BY DEF PageInv, Base, Numbers
<1>3. Good(Initialise(Constructed(oSettings.f, oSettings.cookie, length)))
  BY <1>2, InitialiseGood
<1> QED BY <1>1, <1>3, DrawnKeeps

LEMMA AjaxLoadKeeps ==
  ASSUME PageInv, AjaxLoad
  PROVE  PageInv'
<1> DEFINE s == oSettings
           loaded == [AddRows(s, SourceTable) EXCEPT !.loading = FALSE, !.initStart = s.ajaxStart]
           shown == [loaded EXCEPT !.aiDisplay = loaded.aiDisplayMaster,
                       !.loose = loaded.sSearch # << >> \/ loaded.sColumn # << >>]
           a == Sort(loaded)
           b == Draw(CalculateEnd(shown))
<1>1. Base(s) /\ Started(s) /\ s.loading
  BY DEF PageInv, AjaxLoad
<1>2. Good(a) /\ Good(b)
  BY <1>1, AjaxLoadGood
<1>3. oSettings' = IF loaded.f.bSort THEN a ELSE b
  BY DEF AjaxLoad
<1> HIDE DEF a, b, loaded
<1>4. oSettings' = a \/ oSettings' = b
  BY <1>3
<1> QED BY <1>2, <1>4, DrawnKeeps

LEMMA TypeKeeps ==
  ASSUME PageInv, Type
  PROVE  PageInv'
<1>1. PICK input \in Inputs : oSettings' = FilterComplete(oSettings, input, FALSE)
  BY DEF Type, Drawn
<1>2. Good(FilterComplete(oSettings, input, FALSE))
  BY FilterCompleteGood DEF PageInv
<1> QED BY <1>1, <1>2, DrawnKeeps

(* The direction of the sorting is nothing the invariant speaks of.        *)
LEMMA SortedGood ==
  ASSUME NEW s, Base(s), NEW dir
  PROVE  Good(Sort([s EXCEPT !.aaSorting = dir]))
<1> DEFINE t == [s EXCEPT !.aaSorting = dir]
<1>1. Leaves(s, t, {"aaSorting"})
  BY DEF Base, Leaves, IsSettings, Fields
<1> HIDE DEF t
<1>2. Leaves(s, t, Aside \cup {"aiDisplay", "aiDisplayMaster", "start", "end", "length"})
  BY <1>1 DEF Leaves, Aside
<1>3. /\ t.start = s.start /\ t.end = s.end /\ t.length = s.length
      /\ t.aiDisplay = s.aiDisplay /\ t.aiDisplayMaster = s.aiDisplayMaster
  BY <1>1 DEF Leaves, Fields
<1>4. /\ t.start \in Int /\ t.end \in Int /\ t.length \in PageLengths
      /\ Indexes(t.aiDisplay, Len(s.aoData))
  BY <1>3 DEF Base, Numbers, RowsValid
<1>5. Base(t)
  BY <1>2, <1>3, <1>4, Moved
<1>6. Good(Sort(t))
  BY <1>5, SortGood
<1> QED BY <1>6 DEF t

LEMMA SortClickKeeps ==
  ASSUME PageInv, SortClick \/ CallSort
  PROVE  PageInv'
<1>1. PICK dir : oSettings' = Sort([oSettings EXCEPT !.aaSorting = dir])
  BY DEF SortClick, CallSort, Drawn
<1>2. Good(Sort([oSettings EXCEPT !.aaSorting = dir]))
  BY SortedGood DEF PageInv
<1> QED BY <1>1, <1>2, DrawnKeeps

LEMMA PageClickKeeps ==
  ASSUME PageInv, PageClick
  PROVE  PageInv'
<1>1. PICK action \in {"first", "previous", "next", "last"} :
        oSettings' = Draw(GoTo(oSettings, PageStart(oSettings, action)))
  BY DEF PageClick, Drawn
<1>2. StartOK(oSettings, PageStart(oSettings, action))
  BY PageStartOK DEF PageInv
<1>3. Good(Draw(GoTo(oSettings, PageStart(oSettings, action))))
  BY <1>2, GoToGood DEF PageInv
<1> QED BY <1>1, <1>3, DrawnKeeps

LEMMA PageNumberClickKeeps ==
  ASSUME PageInv, PageNumberClick
  PROVE  PageInv'
<1>1. PICK button \in PageButtons(RecordsDisplay(oSettings), oSettings.length,
                                  oSettings.start, ShowPages).buttons :
        oSettings' = Draw(GoTo(oSettings, NumberStart(oSettings, button - 1)))
  BY DEF PageNumberClick, Drawn
<1>2. StartOK(oSettings, NumberStart(oSettings, button - 1))
  BY NumberStartOK DEF PageInv, PageNumberClick
<1>3. Good(Draw(GoTo(oSettings, NumberStart(oSettings, button - 1))))
  BY <1>2, GoToGood DEF PageInv
<1> QED BY <1>1, <1>3, DrawnKeeps

LEMMA LengthChangeKeeps ==
  ASSUME PageInv, LengthChange
  PROVE  PageInv'
<1> DEFINE Changed(length) == CalculateEnd([oSettings EXCEPT !.length = length])
           Result(length) == Draw([Changed(length) EXCEPT !.start = LengthStart(Changed(length))])
<1>1. PICK length \in oSettings.f.aLengthMenu : oSettings' = Result(length)
  BY DEF LengthChange, Drawn
<1>2. length \in PageLengths /\ oSettings.f.bPaginate
  BY FeaturesAssumption DEF PageInv, Base, PageLengths, LengthChange
<1>3. Good(Result(length))
  BY <1>2, LengthChangeGood DEF PageInv
<1> HIDE DEF Result
<1> QED BY <1>1, <1>3, DrawnKeeps

LEMMA AddDataKeeps ==
  ASSUME PageInv, NEW redraw \in BOOLEAN, AddData(redraw)
  PROVE  PageInv'
<1> DEFINE s == oSettings
           key == CHOOSE k \in FreeKeys(s) : \A j \in FreeKeys(s) : k <= j
           Shows(text) == [AddRow(s, NewRow(key, text)) EXCEPT
                             !.aiDisplay = AddRow(s, NewRow(key, text)).aiDisplayMaster,
                             !.loose = TRUE, !.unsorted = TRUE]
           Left(text) == [Shows(text) EXCEPT !.adrift = TRUE]
<1>1. PICK text \in Texts :
        /\ FreeKeys(s) # {}
        /\ IF redraw THEN oSettings' = ReDraw(Shows(text))
           ELSE oSettings' = Left(text) /\ undrawn' = TRUE
  BY DEF AddData, Edited, Drawn
<1>2. key \in FreeKeys(s)
  <2> DEFINE F == FreeKeys(s)
  <2>1. PICK n \in Nat : Keys = 1 .. n
    BY KeysAre
  <2>2. F \in SUBSET (1 .. n) /\ F # {}
    BY <1>1, <2>1 DEF FreeKeys
  <2> HIDE DEF F
  <2>3. \E k \in F : \A j \in F : k <= j
    BY <2>2, SmallestOf
  <2> QED BY <2>3 DEF F
<1>3. Base(s) /\ Started(s)
  BY DEF PageInv
<1> HIDE DEF key, s
<1>4. Base(Shows(text)) /\ Started(Shows(text)) /\ Base(Left(text)) /\ Started(Left(text))
  BY <1>2, <1>3, AddDataBase
<1> HIDE DEF Shows, Left
<1>5. Good(ReDraw(Shows(text)))
  BY <1>4, ReDrawGood
<1> QED BY <1>1, <1>4, <1>5, DrawnKeeps, LeftKeeps

LEMMA ClearRowsKeeps ==
  ASSUME PageInv, NEW redraw \in BOOLEAN, ClearRows(redraw)
  PROVE  PageInv'
<1> DEFINE cleared == [ClearTable(oSettings) EXCEPT !.adrift = TRUE]
           left == [cleared EXCEPT !.adrift = TRUE]
           r == Draw(cleared)
<1>1. IF redraw THEN oSettings' = r ELSE oSettings' = left /\ undrawn' = TRUE
  BY DEF ClearRows, Edited, Drawn
<1>2. Base(cleared) /\ Good(r)
  BY ClearRowsGood DEF PageInv
<1> HIDE DEF cleared, r
<1>3. Base(left) /\ Started(left)
  BY <1>2, LeftBase
<1> HIDE DEF left
<1> QED BY <1>1, <1>2, <1>3, DrawnKeeps, LeftKeeps

LEMMA DeleteRowKeeps ==
  ASSUME PageInv, NEW redraw \in BOOLEAN, DeleteRow(redraw)
  PROVE  PageInv'
<1> DEFINE s == oSettings
           Removed(target) == [s EXCEPT
                      !.aoData = SplicedRows(s, target),
                      !.asDataSearch = SplicedSearch(s, target),
                      !.aiDisplayMaster = DeleteIndex(@, target),
                      !.aiDisplay = DeleteIndex(@, target),
                      !.stale = @ \/ IndexOf(s.aiDisplay, target) = {}]
           Moves(target) == [Removed(target) EXCEPT
                    !.start = StartAfterDelete(Removed(target)),
                    !.adrift = @ \/ Removed(target).length = -1]
<1>1. PICK target \in DOMAIN s.aoData :
        IF redraw THEN oSettings' = Draw(CalculateEnd(Moves(target)))
        ELSE oSettings' = [Moves(target) EXCEPT !.adrift = TRUE] /\ undrawn' = TRUE
  BY DEF DeleteRow, Edited, Drawn
<1>2. Base(s) /\ Started(s)
  BY DEF PageInv
<1> HIDE DEF s
<1>3. Base(Moves(target)) /\ Started(Moves(target))
  BY <1>2, DeleteRowBase
<1> HIDE DEF Moves
<1> DEFINE r == Draw(CalculateEnd(Moves(target)))
           left == [Moves(target) EXCEPT !.adrift = TRUE]
<1>4. Good(r)
  BY <1>3, DrawAnew
<1>5. Base(left) /\ Started(left)
  BY <1>3, LeftBase
<1>6. IF redraw THEN oSettings' = r ELSE oSettings' = left /\ undrawn' = TRUE
  BY <1>1
<1> HIDE DEF r, left
<1> QED BY <1>4, <1>5, <1>6, DrawnKeeps, LeftKeeps

LEMMA UpdateKeeps ==
  ASSUME PageInv, NEW redraw \in BOOLEAN, Update(redraw)
  PROVE  PageInv'
<1> DEFINE s == oSettings
           Changed(target, text) == [s EXCEPT
                      !.aoData[target].text = text,
                      !.asDataSearch = UpdatedSearch(s, target, text),
                      !.loose = @ \/ ~redraw \/ IndexOf(s.aiDisplay, target) = {},
                      !.unsorted = TRUE]
<1>1. PICK target \in DOMAIN s.aoData, text \in Texts :
        IF redraw THEN oSettings' = ReDraw(Changed(target, text))
        ELSE oSettings' = [Changed(target, text) EXCEPT !.adrift = TRUE] /\ undrawn' = TRUE
  BY DEF Update, Edited, Drawn
<1>2. Base(s) /\ Started(s)
  BY DEF PageInv
<1> HIDE DEF s
<1>3. Base(Changed(target, text)) /\ Started(Changed(target, text))
  BY <1>2, UpdateBase
<1> HIDE DEF Changed
<1> DEFINE r == ReDraw(Changed(target, text))
           left == [Changed(target, text) EXCEPT !.adrift = TRUE]
<1>4. Good(r)
  BY <1>3, ReDrawGood
<1>5. Base(left) /\ Started(left)
  BY <1>3, LeftBase
<1>6. IF redraw THEN oSettings' = r ELSE oSettings' = left /\ undrawn' = TRUE
  BY <1>1
<1> HIDE DEF r, left
<1> QED BY <1>4, <1>5, <1>6, DrawnKeeps, LeftKeeps

LEMMA CallFilterKeeps ==
  ASSUME PageInv, CallFilter
  PROVE  PageInv'
<1> DEFINE Column(input) == [oSettings EXCEPT !.sColumn = input]
<1>1. Base(oSettings)
  BY DEF PageInv
<1>2. ASSUME NEW input \in ColumnInputs
      PROVE  Base(Column(input))
  <2> DEFINE t == Column(input)
  <2>1. Leaves(oSettings, t, {"sColumn"})
    BY <1>1 DEF Base, Leaves, IsSettings, Fields
  <2> HIDE DEF t
  <2>2. Leaves(oSettings, t, Aside \cup {"aiDisplay", "aiDisplayMaster", "start", "end", "length"})
    BY <2>1 DEF Leaves, Aside
  <2>3. /\ t.start = oSettings.start /\ t.end = oSettings.end /\ t.length = oSettings.length
        /\ t.aiDisplay = oSettings.aiDisplay /\ t.aiDisplayMaster = oSettings.aiDisplayMaster
    BY <2>1 DEF Leaves, Fields
  <2>4. /\ t.start \in Int /\ t.end \in Int /\ t.length \in PageLengths
        /\ Indexes(t.aiDisplay, Len(oSettings.aoData))
    BY <1>1, <2>3 DEF Base, Numbers, RowsValid
  <2>5. Base(t)
    BY <1>1, <2>2, <2>3, <2>4, Moved
  <2> QED BY <2>5 DEF t
<1>3. \/ \E input \in Inputs : oSettings' = FilterComplete(oSettings, input, TRUE)
      \/ \E input \in ColumnInputs :
           oSettings' = FilterComplete(Column(input), oSettings.sSearch, TRUE)
  BY DEF CallFilter, Drawn
<1> HIDE DEF Column
<1>4. /\ \A input \in Inputs : Good(FilterComplete(oSettings, input, TRUE))
      /\ \A input \in ColumnInputs : Good(FilterComplete(Column(input), oSettings.sSearch, TRUE))
  BY <1>1, <1>2, FilterCompleteGood
<1> QED BY <1>3, <1>4, DrawnKeeps

LEMMA CallDrawKeeps ==
  ASSUME PageInv, CallDraw
  PROVE  PageInv'
<1> DEFINE a == ReDraw(oSettings)
           b == Draw(CalculateEnd(oSettings))
<1>1. Good(a) /\ Good(b)
  BY ReDrawGood, DrawAnew DEF PageInv
<1>2. oSettings' = a \/ oSettings' = b
  BY DEF CallDraw, Drawn
<1> HIDE DEF a, b
<1> QED BY <1>1, <1>2, DrawnKeeps

LEMMA CallPageChangeKeeps ==
  ASSUME PageInv, CallPageChange
  PROVE  PageInv'
<1> DEFINE s == oSettings
           starts == {PageStart(s, "next"), PageStart(s, "last")}
                       \cup {NumberStart(s, page) : page \in PageNumbers(s)}
           Moves(start, redraw) == [GoTo(s, start) EXCEPT
                         !.adrift = @ \/ ~redraw \/ start >= RecordsDisplay(s)]
<1>1. PICK start \in starts, redraw \in BOOLEAN :
        IF redraw THEN oSettings' = Draw(Moves(start, redraw))
        ELSE oSettings' = Moves(start, redraw) /\ undrawn' = TRUE
  BY DEF CallPageChange, Drawn
<1>2. Base(s) /\ Started(s)
  BY DEF PageInv
<1>3. start \in Int
  <2>1. PageStart(s, "next") \in Int /\ PageStart(s, "last") \in Int
    BY <1>2, PageStartOK DEF StartOK
  <2>2. ASSUME NEW page \in PageNumbers(s)
        PROVE  NumberStart(s, page) \in Int
    <3>1. page \in Int /\ s.length \in Int
      BY <1>2 DEF PageNumbers, Base, Numbers, PageLengths
    <3> QED BY <3>1 DEF NumberStart
  <2> QED BY <2>1, <2>2
<1> HIDE DEF s
<1>4. /\ Base(Moves(start, redraw)) /\ Started(Moves(start, redraw))
      /\ redraw => Good(Draw(Moves(start, redraw)))
  BY <1>2, <1>3, PageChangeGood
<1> HIDE DEF Moves
<1> QED BY <1>1, <1>4, DrawnKeeps, LeftKeeps

(* Nothing is drawn, and nothing undrawn.                                  *)
LEMMA SameKeeps ==
  ASSUME PageInv, NEW r, Base(r), Started(r), Shown(oSettings) => Shown(r),
         oSettings' = r, undrawn' = undrawn
  PROVE  PageInv'
BY DEF PageInv

LEMMA OpenKeeps ==
  ASSUME PageInv, Open
  PROVE  PageInv'
<1> DEFINE s == oSettings
           Opened(key) == [s EXCEPT !.open = @ \cup {key},
                                    !.body = BehindRow(BeforeOpen(@, key), key)]
<1>1. PICK i \in Nodes(s) : oSettings' = Opened(s.aoData[i].key) /\ undrawn' = undrawn
  BY DEF Open
<1>2. s.aoData[i].key \in Keys
  <2>1. i \in DOMAIN s.aoData /\ s.aoData \in Seq(RowType)
    BY <1>1 DEF Nodes, PageInv, Base, RowsValid, RowsOK
  <2>2. s.aoData[i] \in RowType
    BY <2>1
  <2> QED BY <2>2 DEF RowType
<1> DEFINE r == Opened(s.aoData[i].key)
<1>3. Base(r) /\ Started(r) /\ (Shown(s) => Shown(r))
  BY <1>2, OpenGood DEF PageInv
<1> HIDE DEF r
<1>4. oSettings' = r /\ undrawn' = undrawn
  BY <1>1 DEF r
<1> QED BY <1>3, <1>4, SameKeeps

LEMMA CloseKeeps ==
  ASSUME PageInv, Close
  PROVE  PageInv'
<1> DEFINE s == oSettings
           Closed(key) == [s EXCEPT !.open = @ \ {key}, !.body = WithoutDetail(@, key)]
<1>1. PICK key \in s.open : oSettings' = Closed(key) /\ undrawn' = undrawn
  BY DEF Close
<1> DEFINE r == Closed(key)
<1>2. Base(r) /\ Started(r) /\ (Shown(s) => Shown(r))
  BY CloseGood DEF PageInv
<1> HIDE DEF r
<1>3. oSettings' = r /\ undrawn' = undrawn
  BY <1>1 DEF r
<1> QED BY <1>2, <1>3, SameKeeps

LEMMA AnswerKeeps ==
  ASSUME PageInv, Answer \/ RequestFails
  PROVE  PageInv'
<1> DEFINE s == oSettings
           Waiting(request) == [s EXCEPT !.requests = @ \ {request}]
           Refilled(request) ==
             AddRows(ClearTable([Waiting(request) EXCEPT !.iDraw = request.sEcho]),
                     AnswerRows(request.params).rows)
           Shows(request) == [Refilled(request) EXCEPT
                                !.recordsDisplay = AnswerRows(request.params).total,
                                !.open = {},
                                !.aiDisplay = Refilled(request).aiDisplayMaster,
                                !.answer = request]
           Taken(request) == InsertRows(TakeInitStart(Shows(request)))
<1>1. PICK request \in s.requests :
        /\ oSettings' = Taken(request) \/ oSettings' = Waiting(request)
        /\ undrawn' = undrawn
  BY DEF Answer, RequestFails
<1>2. Base(s) /\ Started(s)
  BY DEF PageInv
<1> HIDE DEF s
<1> DEFINE a == Taken(request)
           b == Waiting(request)
<1>3. Good(a)
  BY <1>2, AnswerGood
<1>4. Base(b) /\ Started(b) /\ Shown(b)
  BY <1>2, WaitingGood
<1> HIDE DEF a
<1>5. oSettings' = a \/ (oSettings' = b /\ undrawn' = undrawn)
  BY <1>1 DEF a
<1> HIDE DEF b
<1> QED BY <1>3, <1>4, <1>5, DrawnKeeps, SameKeeps DEF s

LEMMA NextPage ==
  PageInv /\ [Next]_vars => PageInv'
<1> SUFFICES ASSUME PageInv, [Next]_vars
             PROVE  PageInv'
  OBVIOUS
<1>1. CASE Reload \/ AjaxLoad \/ Answer \/ RequestFails
  BY <1>1, ReloadKeeps, AjaxLoadKeeps, AnswerKeeps
<1>2. CASE Type \/ SortClick \/ PageClick \/ PageNumberClick \/ LengthChange
  BY <1>2, TypeKeeps, SortClickKeeps, PageClickKeeps, PageNumberClickKeeps, LengthChangeKeeps
<1>3. CASE \E redraw \in BOOLEAN :
             AddData(redraw) \/ ClearRows(redraw) \/ DeleteRow(redraw) \/ Update(redraw)
  BY <1>3, AddDataKeeps, ClearRowsKeeps, DeleteRowKeeps, UpdateKeeps
<1>4. CASE CallFilter \/ CallSort \/ CallDraw \/ CallPageChange \/ Open \/ Close
  BY <1>4, CallFilterKeeps, SortClickKeeps, CallDrawKeeps, CallPageChangeKeeps, OpenKeeps,
     CloseKeeps
<1>5. CASE UNCHANGED vars
  BY <1>5 DEF PageInv, vars
<1> QED BY <1>1, <1>2, <1>3, <1>4, <1>5 DEF Next

(* The index arrays stay true to the rows: rows that are added, removed,   *)
(* replaced by an answer, sorted, searched or drawn never leave an index   *)
(* of a row that is not there, twice, or a tr that thinks it is another's. *)
THEOREM IndicesAlwaysValid == Spec => []IndicesValid
<1>1. PageInv => IndicesValid
  <2> SUFFICES ASSUME PageInv
               PROVE  IndicesValid
    OBVIOUS
  <2>1. RowsValid(oSettings) /\ DOMAIN oSettings.aoData = 1 .. Len(oSettings.aoData)
    BY DEF PageInv, Base, RowsValid, RowsOK
  <2>2. ToSet(oSettings.aiDisplay) \subseteq 1 .. Len(oSettings.aoData)
    <3> DEFINE S == 1 .. Len(oSettings.aoData)
               seq == oSettings.aiDisplay
    <3>1. seq \in Seq(S)
      BY <2>1 DEF RowsValid, Indexes
    <3> HIDE DEF S, seq
    <3>2. ToSet(seq) \subseteq S
      BY <3>1 DEF ToSet
    <3> QED BY <3>2 DEF S, seq
  <2> QED BY <2>1, <2>2 DEF IndicesValid, RowsValid, RowsOK, Indexes, Distinct
<1> QED BY <1>1, InitPage, NextPage, PTL DEF Spec

(* A row and its details are drawn once, the details directly behind their *)
(* row, whatever is drawn, opened or closed.                               *)
THEOREM DetailsAlwaysWithRows == Spec => []DetailsStayWithRows
<1>1. PageInv => DetailsStayWithRows
  BY DEF PageInv, Base, BodyOK, DetailsShown, DetailsStayWithRows, Distinct
<1> QED BY <1>1, InitPage, NextPage, PTL DEF Spec

(* Sorting, typing, paging, the menu of lengths and removals never lead to *)
(* a blank page while rows are displayed.                                  *)
THEOREM NeverBlank == Spec => []NoBlankPage
<1>1. PageInv => NoBlankPage
  BY DEF PageInv, Shown, NoBlankPage, ClientSide
<1> QED BY <1>1, InitPage, NextPage, PTL DEF Spec
-----------------------------------------------------------------------------
(***************************************************************************)
(* Places of places: a sequence filtered twice, and a sequence filtered    *)
(* after it was changed.                                                   *)
(***************************************************************************)
LEMMA CountUp ==
  ASSUME NEW m \in Nat, NEW T, NEW e \in [1 .. m -> T],
         \A k, l \in 1 .. m : e[k] = e[l] => k = l,
         \A t \in T : \E k \in 1 .. m : e[k] = t
  PROVE  IsFiniteSet(T) /\ Cardinality(T) = m
<1> DEFINE S == 1 .. m
<1>1. IsFiniteSet(S) /\ Cardinality(S) = m
  <2>1. m - 1 + 1 = m
    OBVIOUS
  <2>2. IsFiniteSet(S) /\ Cardinality(S) = IF 1 > m THEN 0 ELSE m - 1 + 1
    BY FS_Interval
  <2> QED BY <2>1, <2>2
<1>2. e \in Bijection(S, T)
  <2>1. e \in Surjection(S, T)
    BY Zenon DEF Surjection
  <2>2. e \in Injection(S, T)
    BY Zenon DEF Injection, IsInjective
  <2> QED BY <2>1, <2>2 DEF Bijection
<1>3. ExistsBijection(S, T)
  BY <1>2 DEF ExistsBijection
<1> HIDE DEF S
<1> QED BY <1>1, <1>3, FS_Bijection

(* A set of places has one enumeration that increases.                     *)
LEMMA PlaceIs ==
  ASSUME NEW n \in Nat, NEW places \in SUBSET (1 .. n), NEW m \in Nat, NEW e \in [1 .. m -> places],
         \A k, l \in 1 .. m : k < l => e[k] < e[l],
         \A i \in places : \E k \in 1 .. m : e[k] = i
  PROVE  Cardinality(places) = m /\ \A k \in 1 .. m : Place(places, k) = e[k]
<1>1. \A i \in places : i \in Nat
  OBVIOUS
<1>2. \A k \in 1 .. m : e[k] \in places /\ e[k] \in Nat
  <2>1. \A k \in 1 .. m : e[k] \in places
    OBVIOUS
  <2> QED BY <1>1, <2>1
<1>3. ASSUME NEW k \in 1 .. m, NEW l \in 1 .. m, e[k] = e[l]
      PROVE  k = l
  <2>1. e[k] \in Nat /\ ~(e[k] < e[l]) /\ ~(e[l] < e[k])
    BY <1>2, <1>3
  <2>2. ~(k < l) /\ ~(l < k)
    BY <2>1
  <2> QED BY <2>2
<1>4. IsFiniteSet(places) /\ Cardinality(places) = m
  BY <1>3, CountUp
<1>5. ASSUME NEW k \in 1 .. m
      PROVE  Cardinality({j \in places : j < e[k]}) = k - 1
  <2> DEFINE T == {j \in places : j < e[k]}
             g == [l \in 1 .. k - 1 |-> e[l]]
  <2>1. k - 1 \in Nat /\ 1 .. k - 1 \subseteq 1 .. m /\ \A l \in 1 .. k - 1 : l < k
    OBVIOUS
  <2>2. \A l \in 1 .. k - 1 : e[l] \in T
    BY <1>2, <2>1
  <2>3. \A t \in T : \E l \in 1 .. k - 1 : e[l] = t
    <3> SUFFICES ASSUME NEW t \in T
                 PROVE  \E l \in 1 .. k - 1 : e[l] = t
      OBVIOUS
    <3>1. PICK l \in 1 .. m : e[l] = t
      OBVIOUS
    <3>2. e[l] \in Nat /\ e[k] \in Nat /\ e[l] < e[k]
      BY <1>2, <3>1
    <3>3. ~(e[k] < e[l]) /\ e[k] # e[l]
      BY <3>2
    <3>4. ~(k < l) /\ k # l
      BY <3>3
    <3>5. l \in 1 .. k - 1
      BY <3>4
    <3> QED BY <3>1, <3>5
  <2> HIDE DEF T
  <2>4. g \in [1 .. k - 1 -> T]
    BY <2>2
  <2>5. \A l, j \in 1 .. k - 1 : g[l] = g[j] => l = j
    BY <1>3, <2>1
  <2>6. \A t \in T : \E l \in 1 .. k - 1 : g[l] = t
    BY <2>3
  <2> HIDE DEF g
  <2>7. Cardinality(T) = k - 1
    BY <2>1, <2>4, <2>5, <2>6, CountUp
  <2> QED BY <2>7 DEF T
<1>6. Increasing(places)
  BY PlacesIncreasing
<1>7. ASSUME NEW k \in 1 .. m
      PROVE  Place(places, k) = e[k]
  <2> DEFINE c(i) == Cardinality({j \in places : j < i})
             p == Place(places, k)
  <2>1. p \in places /\ c(p) = k - 1
    <3>1. e[k] \in places /\ c(e[k]) = k - 1
      BY <1>2, <1>5
    <3> HIDE DEF c
    <3>2. p = CHOOSE i \in places : c(i) = k - 1
      BY DEF Place, c
    <3> QED BY <3>1, <3>2
  <2>2. PICK l \in 1 .. m : e[l] = p
    BY <2>1
  <2>3. c(p) = l - 1
    BY <1>5, <2>2
  <2>4. l = k
    <3> HIDE DEF p, c
    <3> QED BY <2>1, <2>3
  <2> QED BY <2>2, <2>4
<1> QED BY <1>4, <1>7

(* What is left of what is left.                                           *)
LEMMA ItemsOfItems ==
  ASSUME NEW S, NEW items \in Seq(S), NEW P \in SUBSET DOMAIN items,
         NEW Q \in SUBSET DOMAIN ItemsAt(items, P)
  PROVE  ItemsAt(ItemsAt(items, P), Q) = ItemsAt(items, {Place(P, k) : k \in Q})
<1> DEFINE n == Len(items)
           y == ItemsAt(items, P)
           c == Cardinality(P)
           R == {Place(P, k) : k \in Q}
           m == Cardinality(Q)
           e == [k \in 1 .. m |-> Place(P, Place(Q, k))]
<1>1. n \in Nat /\ P \in SUBSET (1 .. n)
  OBVIOUS
<1>2. Selects(y, items, P) /\ y \in Seq(S)
  BY ItemsSelected
<1>3. /\ c \in Nat /\ DOMAIN y = 1 .. c /\ Increasing(P)
      /\ \A k \in 1 .. c : y[k] = items[Place(P, k)] /\ Place(P, k) \in P
      /\ \A k, l \in 1 .. c : k < l => Place(P, k) < Place(P, l)
  BY <1>2 DEF Selects, Increasing
<1>4. Q \in SUBSET (1 .. c) /\ Q \in SUBSET DOMAIN y
  BY <1>3
<1> HIDE DEF n, y, c
<1>5. Increasing(Q)
  BY <1>3, <1>4, PlacesIncreasing
<1>6. /\ m \in Nat
      /\ \A k \in 1 .. m : Place(Q, k) \in Q
      /\ \A k, l \in 1 .. m : k < l => Place(Q, k) < Place(Q, l)
      /\ \A i \in Q : \E k \in 1 .. m : Place(Q, k) = i
  BY <1>5 DEF Increasing
<1> HIDE DEF m
<1>7. R \in SUBSET (1 .. n)
  BY <1>1, <1>3, <1>4
<1>8. e \in [1 .. m -> R]
  BY <1>6
<1>9. \A k, l \in 1 .. m : k < l => e[k] < e[l]
  BY <1>3, <1>4, <1>6
<1>10. \A i \in R : \E k \in 1 .. m : e[k] = i
  <2> SUFFICES ASSUME NEW i \in Q
               PROVE  \E k \in 1 .. m : e[k] = Place(P, i)
    OBVIOUS
  <2>1. PICK k \in 1 .. m : Place(Q, k) = i
    BY <1>6
  <2> QED BY <2>1
<1>11. \A k \in 1 .. m : e[k] = Place(P, Place(Q, k))
  OBVIOUS
<1> HIDE DEF R, e
<1>12. Cardinality(R) = m /\ \A k \in 1 .. m : Place(R, k) = e[k]
  <2>1. n \in Nat /\ m \in Nat
    BY <1>1, <1>6
  <2> QED BY <2>1, <1>7, <1>8, <1>9, <1>10, PlaceIs
<1>13. ItemsAt(y, Q) = [k \in 1 .. m |-> y[Place(Q, k)]]
  BY DEF ItemsAt, m
<1>14. ItemsAt(items, R) = [k \in 1 .. m |-> items[Place(R, k)]]
  BY <1>12 DEF ItemsAt
<1>15. ASSUME NEW k \in 1 .. m
       PROVE  y[Place(Q, k)] = items[Place(R, k)]
  <2>1. Place(Q, k) \in 1 .. c
    BY <1>4, <1>6
  <2> QED BY <1>3, <1>11, <1>12, <2>1
<1>16. ItemsAt(y, Q) = ItemsAt(items, R)
  BY <1>13, <1>14, <1>15
<1> QED BY <1>16 DEF y, R

(* Of the items at the places P, those at the places in R.                 *)
Chosen(y, Q, P, R) == \A k \in DOMAIN y : k \in Q <=> Place(P, k) \in R

LEMMA FilteredTwice ==
  ASSUME NEW S, NEW items \in Seq(S), NEW P \in SUBSET DOMAIN items, NEW R \in SUBSET DOMAIN items,
         NEW y, y = ItemsAt(items, P), NEW Q \in SUBSET DOMAIN y,
         Chosen(y, Q, P, R)
  PROVE  ItemsAt(y, Q) = ItemsAt(items, P \cap R)
<1>1. Selects(y, items, P)
  BY ItemsSelected
<1>2. /\ DOMAIN y = 1 .. Cardinality(P)
      /\ \A k \in DOMAIN y : Place(P, k) \in P
      /\ \A i \in P : \E k \in DOMAIN y : Place(P, k) = i
  BY <1>1 DEF Selects, Increasing
<1>3. {Place(P, k) : k \in Q} = P \cap R
  BY <1>2 DEF Chosen
<1> QED BY <1>3, ItemsOfItems

-----------------------------------------------------------------------------
(***************************************************************************)
(* The rows of a body, without the details among them.                     *)
(***************************************************************************)
LEMMA RowsOfSome ==
  ASSUME NEW body \in Seq(TrType), NEW P \in SUBSET DOMAIN body,
         \A i \in DOMAIN body : body[i].tr = "row" => i \in P
  PROVE  RowsOf(ItemsAt(body, P)) = RowsOf(body)
<1> DEFINE y == ItemsAt(body, P)
           Q == {i \in DOMAIN y : y[i].tr = "row"}
           R == {i \in DOMAIN body : body[i].tr = "row"}
<1>1. Selects(y, body, P)
  BY ItemsSelected
<1>2. \A k \in DOMAIN y : y[k] = body[Place(P, k)] /\ Place(P, k) \in P
  <2> HIDE DEF y
  <2> QED BY <1>1 DEF Selects, Increasing
<1>3. R \in SUBSET DOMAIN body /\ P \cap R = R
  OBVIOUS
<1>4. Q \in SUBSET DOMAIN y /\ \A k \in DOMAIN y : k \in Q <=> Place(P, k) \in R
  <2> HIDE DEF y
  <2> QED BY <1>2
<1>5. RowsOf(y) = ItemsAt(y, Q) /\ RowsOf(body) = ItemsAt(body, R)
  BY DEF RowsOf
<1> HIDE DEF Q, R
<1>6. ItemsAt(y, Q) = ItemsAt(body, P \cap R)
  <2>1. y = ItemsAt(body, P)
    OBVIOUS
  <2> HIDE DEF y
  <2>2. Chosen(y, Q, P, R)
    BY <1>4 DEF Chosen
  <2> QED BY <1>3, <1>4, <2>1, <2>2, FilteredTwice
<1> QED BY <1>3, <1>5, <1>6

LEMMA RowsOfWithout ==
  ASSUME NEW body \in Seq(TrType), NEW key
  PROVE  RowsOf(WithoutDetail(body, key)) = RowsOf(body)
<1> DEFINE P == {i \in DOMAIN body : body[i] # Detail(key)}
<1>1. Detail(key).tr # "row"
  BY DEF Detail
<1>2. P \in SUBSET DOMAIN body /\ \A i \in DOMAIN body : body[i].tr = "row" => i \in P
  BY <1>1
<1>3. WithoutDetail(body, key) = ItemsAt(body, P)
  BY DEF WithoutDetail
<1> HIDE DEF P
<1> QED BY <1>2, <1>3, RowsOfSome

LEMMA RowsOfBehind ==
  ASSUME NEW body \in Seq(TrType), NEW key \in Keys
  PROVE  RowsOf(BehindRow(body, key)) = RowsOf(body)
<1> SUFFICES ASSUME Row(key) \in ToSet(body)
             PROVE  RowsOf(BehindRow(body, key)) = RowsOf(body)
  BY DEF BehindRow
<1> DEFINE n == Len(body)
           r == CHOOSE i \in DOMAIN body : body[i] = Row(key)
           t == r + 1
           more == InsertAt(body, t, Detail(key))
           R == {i \in DOMAIN body : body[i].tr = "row"}
           T == {i \in DOMAIN more : more[i].tr = "row"}
           Shift(i) == IF i < t THEN i ELSE i + 1
           m == Cardinality(R)
           e == [k \in 1 .. m |-> Shift(Place(R, k))]
<1>1. BehindRow(body, key) = more
  BY DEF BehindRow
<1>2. Detail(key) \in TrType /\ Detail(key).tr # "row"
  BY DEF Detail, TrType
<1>3. r \in DOMAIN body
  <2>1. \E i \in DOMAIN body : body[i] = Row(key)
    BY DEF ToSet
  <2> QED BY <2>1
<1>4. n \in Nat /\ DOMAIN body = 1 .. n
  OBVIOUS
<1>5. t \in 1 .. n + 1
  <2> HIDE DEF r, n
  <2> QED BY <1>3, <1>4
<1> HIDE DEF r, t
<1>6. /\ more \in Seq(TrType) /\ Len(more) = n + 1
      /\ \A i \in 1 .. n + 1 :
           more[i] = IF i < t THEN body[i] ELSE IF i = t THEN Detail(key) ELSE body[i - 1]
  BY <1>2, <1>5, InsertAtIs
<1> HIDE DEF more, n
<1>7. DOMAIN more = 1 .. n + 1
  BY <1>4, <1>6
<1>8. t \in Int /\ \A i \in 1 .. n : Shift(i) \in 1 .. n + 1 /\ Shift(i) \in Int
  BY <1>4, <1>5
<1>9. \A i \in 1 .. n : more[Shift(i)] = body[i]
  <2> SUFFICES ASSUME NEW i \in 1 .. n
               PROVE  more[Shift(i)] = body[i]
    OBVIOUS
  <2>1. CASE i < t
    BY <1>4, <1>6, <2>1
  <2>2. CASE ~(i < t)
    <3>1. Shift(i) = i + 1 /\ i + 1 \in 1 .. n + 1 /\ ~(i + 1 < t) /\ i + 1 # t /\ (i + 1) - 1 = i
      BY <1>4, <1>8, <2>2
    <3> QED BY <1>6, <3>1
  <2> QED BY <2>1, <2>2
<1>10. \A i, j \in 1 .. n : i < j => Shift(i) < Shift(j)
  BY <1>8
<1>11. \A j \in 1 .. n + 1 : j # t => \E i \in 1 .. n : Shift(i) = j
  <2> SUFFICES ASSUME NEW j \in 1 .. n + 1, j # t
               PROVE  \E i \in 1 .. n : Shift(i) = j
    OBVIOUS
  <2>1. CASE j < t
    <3>1. j \in 1 .. n /\ Shift(j) = j
      BY <1>4, <1>5, <2>1
    <3> QED BY <3>1
  <2>2. CASE ~(j < t)
    <3>1. j - 1 \in 1 .. n /\ ~(j - 1 < t) /\ (j - 1) + 1 = j
      BY <1>4, <1>5, <2>2
    <3>2. Shift(j - 1) = j
      BY <3>1
    <3> QED BY <3>1, <3>2
  <2> QED BY <2>1, <2>2
<1> HIDE DEF Shift
<1>12. more[t] = Detail(key)
  BY <1>5, <1>6, <1>8
<1>13. R \in SUBSET (1 .. n) /\ T \in SUBSET (1 .. n + 1) /\ n + 1 \in Nat
  BY <1>4, <1>7
<1>14. \A i \in R : Shift(i) \in T
  BY <1>4, <1>7, <1>8, <1>9
<1>15. \A j \in T : \E i \in R : Shift(i) = j
  <2> SUFFICES ASSUME NEW j \in T
               PROVE  \E i \in R : Shift(i) = j
    OBVIOUS
  <2>1. j \in 1 .. n + 1 /\ more[j].tr = "row" /\ j # t
    BY <1>2, <1>7, <1>12
  <2>2. PICK i \in 1 .. n : Shift(i) = j
    BY <1>11, <2>1
  <2> QED BY <1>4, <1>9, <2>1, <2>2
<1>16. RowsOf(more) = ItemsAt(more, T) /\ RowsOf(body) = ItemsAt(body, R)
  BY DEF RowsOf
<1> HIDE DEF R, T
<1>17. /\ m \in Nat
       /\ \A k \in 1 .. m : Place(R, k) \in R
       /\ \A k, l \in 1 .. m : k < l => Place(R, k) < Place(R, l)
       /\ \A i \in R : \E k \in 1 .. m : Place(R, k) = i
  BY <1>4, <1>13, PlacesIncreasing DEF Increasing
<1> HIDE DEF m
<1>18. e \in [1 .. m -> T]
  BY <1>14, <1>17
<1>19. \A k \in 1 .. m : e[k] = Shift(Place(R, k))
  OBVIOUS
<1> HIDE DEF e
<1>20. \A k, l \in 1 .. m : k < l => e[k] < e[l]
  <2> SUFFICES ASSUME NEW k \in 1 .. m, NEW l \in 1 .. m, k < l
               PROVE  e[k] < e[l]
    OBVIOUS
  <2>1. Place(R, k) \in 1 .. n /\ Place(R, l) \in 1 .. n /\ Place(R, k) < Place(R, l)
    BY <1>13, <1>17
  <2>2. Shift(Place(R, k)) < Shift(Place(R, l))
    BY <1>10, <2>1, Zenon
  <2> QED BY <1>19, <2>2, Zenon
<1>21. \A j \in T : \E k \in 1 .. m : e[k] = j
  <2> SUFFICES ASSUME NEW j \in T
               PROVE  \E k \in 1 .. m : e[k] = j
    OBVIOUS
  <2>1. PICK i \in R : Shift(i) = j
    BY <1>15
  <2>2. PICK k \in 1 .. m : Place(R, k) = i
    BY <1>17
  <2> QED BY <1>19, <2>1, <2>2
<1>22. Cardinality(T) = m /\ \A k \in 1 .. m : Place(T, k) = e[k]
  <2> DEFINE n1 == n + 1
  <2>1. n1 \in Nat /\ T \in SUBSET (1 .. n1)
    BY <1>13
  <2> HIDE DEF n1
  <2>2. m \in Nat
    BY <1>17
  <2> QED BY <1>18, <1>20, <1>21, <2>1, <2>2, PlaceIs, Zenon
<1>23. \A k \in 1 .. m : more[Place(T, k)] = body[Place(R, k)]
  <2> SUFFICES ASSUME NEW k \in 1 .. m
               PROVE  more[Place(T, k)] = body[Place(R, k)]
    OBVIOUS
  <2>1. Place(T, k) = Shift(Place(R, k))
    BY <1>19, <1>22, Zenon
  <2>2. Place(R, k) \in 1 .. n
    BY <1>13, <1>17
  <2> QED BY <1>9, <2>1, <2>2, Zenon
<1>24. /\ ItemsAt(more, T) = [k \in 1 .. m |-> more[Place(T, k)]]
       /\ ItemsAt(body, R) = [k \in 1 .. m |-> body[Place(R, k)]]
  BY <1>22 DEF ItemsAt, m
<1>25. ItemsAt(more, T) = ItemsAt(body, R)
  BY <1>23, <1>24
<1> QED BY <1>1, <1>16, <1>25

(* The rows of a page, and nothing of what is open, are the rows of the    *)
(* body.                                                                   *)
LEMMA RowsOfBody ==
  ASSUME NEW s, RowsOK(s.aoData), Indexes(Page(s), Len(s.aoData))
  PROVE  RowsOf(BodyOf(s)) = [j \in DOMAIN Page(s) |-> Row(s.aoData[Page(s)[j]].key)]
<1> DEFINE page == Page(s)
           all == AllTrs(s, page)
           P == {p \in DOMAIN all : all[p].tr = "detail" => all[p].key \in s.open}
           R == {p \in DOMAIN all : all[p].tr = "row"}
           L == Len(page)
           e == [j \in 1 .. L |-> 2 * j - 1]
<1>1. /\ all \in Seq(TrType) /\ Len(all) = 2 * Len(page)
      /\ \A j \in DOMAIN page :
           /\ all[2 * j - 1] = Row(s.aoData[page[j]].key)
           /\ all[2 * j] = Detail(s.aoData[page[j]].key)
  BY AllTrsIs
<1>2. BodyOf(s) = ItemsAt(all, P) /\ P \in SUBSET DOMAIN all
  BY DEF BodyOf
<1>3. \A p \in DOMAIN all : all[p].tr = "row" => p \in P
  OBVIOUS
<1>4. L \in Nat /\ DOMAIN page = 1 .. L
  BY DEF Indexes
<1>5. \A k : Row(k).tr = "row" /\ Detail(k).tr # "row"
  BY DEF Row, Detail
<1> HIDE DEF page, all
<1>6. RowsOf(BodyOf(s)) = RowsOf(all)
  <2> HIDE DEF P
  <2> QED BY <1>1, <1>2, <1>3, RowsOfSome
<1>7. RowsOf(all) = ItemsAt(all, R)
  BY DEF RowsOf
<1> HIDE DEF L
<1>8. DOMAIN all = 1 .. 2 * L /\ 2 * L \in Nat
  BY <1>1, <1>4 DEF L
<1>9. \A j \in 1 .. L : 2 * j - 1 \in 1 .. 2 * L
  BY <1>4
<1>10. \A j \in 1 .. L : 2 * j - 1 \in R
  <2> SUFFICES ASSUME NEW j \in 1 .. L
               PROVE  2 * j - 1 \in R
    OBVIOUS
  <2> DEFINE p == 2 * j - 1
  <2>1. j \in DOMAIN page
    BY <1>4
  <2>2. all[p] = Row(s.aoData[page[j]].key)
    BY <1>1, <2>1
  <2>3. all[p].tr = "row"
    BY <1>5, <2>2, Zenon
  <2>4. p \in DOMAIN all
    BY <1>8, <1>9
  <2> HIDE DEF p
  <2>5. p \in R
    BY <2>3, <2>4
  <2> QED BY <2>5 DEF p
<1>11. \A p \in R : \E j \in 1 .. L : 2 * j - 1 = p
  <2> SUFFICES ASSUME NEW p \in R
               PROVE  \E j \in 1 .. L : 2 * j - 1 = p
    OBVIOUS
  <2>1. p \in 1 .. 2 * L
    BY <1>8
  <2>2. PICK j \in 1 .. L : p = 2 * j - 1 \/ p = 2 * j
    BY <1>4, <2>1, Pairs
  <2>3. p # 2 * j
    BY <1>1, <1>4, <1>5
  <2> QED BY <2>2, <2>3
<1>12. R \in SUBSET (1 .. 2 * L)
  BY <1>8
<1> HIDE DEF R
<1>13. e \in [1 .. L -> R] /\ \A j \in 1 .. L : e[j] = 2 * j - 1
  BY <1>10
<1> HIDE DEF e
<1>14. \A j, k \in 1 .. L : j < k => e[j] < e[k]
  BY <1>4, <1>13
<1>15. \A p \in R : \E j \in 1 .. L : e[j] = p
  BY <1>11, <1>13
<1>16. Cardinality(R) = L /\ \A j \in 1 .. L : Place(R, j) = e[j]
  <2> DEFINE n == 2 * L
  <2>1. n \in Nat /\ R \in SUBSET (1 .. n)
    BY <1>8, <1>12
  <2>2. L \in Nat /\ e \in [1 .. L -> R]
    BY <1>4, <1>13
  <2> HIDE DEF n
  <2> QED BY <1>14, <1>15, <2>1, <2>2, PlaceIs, Zenon
<1>17. ItemsAt(all, R) = [j \in 1 .. L |-> all[Place(R, j)]]
  BY <1>16 DEF ItemsAt
<1>18. \A j \in 1 .. L : all[Place(R, j)] = Row(s.aoData[page[j]].key)
  BY <1>1, <1>4, <1>13, <1>16
<1>19. ItemsAt(all, R) = [j \in DOMAIN page |-> Row(s.aoData[page[j]].key)]
  BY <1>4, <1>17, <1>18
<1> QED BY <1>6, <1>7, <1>19 DEF page

-----------------------------------------------------------------------------
(***************************************************************************)
(* A table with a server: every draw asks for what the table is set to.    *)
(***************************************************************************)
Asked(s, r) ==
  /\ r.f = s.f /\ r.answer = s.answer
  /\ s.f.bServerSide =>
       /\ r.initStart = -1 /\ r.iDraw = s.iDraw + 1
       /\ r.requests = s.requests \cup {[sEcho |-> r.iDraw, params |-> Params(r)]}

LEMMA SameParams ==
  ASSUME NEW s, NEW r, r.f = s.f, r.start = s.start, r.length = s.length,
         r.sSearch = s.sSearch, r.sColumn = s.sColumn, r.aaSorting = s.aaSorting
  PROVE  Params(r) = Params(s)
BY DEF Params

LEMMA DrawAsks ==
  ASSUME NEW s, IsSettings(s)
  PROVE  Asked(s, Draw(s))
<1> DEFINE t == TakeInitStart(s)
           r == AjaxUpdate(t)
<1>1. Leaves(s, t, {"start", "initStart", "end"})
  BY TakeInitStartLeaves
<1>2. t.initStart = -1
  <2> DEFINE u == [s EXCEPT !.start = InitStart(s), !.initStart = -1]
  <2>1. IsSettings(u) /\ u.initStart = -1
    BY DEF IsSettings, Fields
  <2> HIDE DEF u
  <2>2. CalculateEnd(u).initStart = -1
    BY <2>1, CalculateEndLeaves DEF Leaves, Fields
  <2>3. s.initStart = -1 => t = s
    BY DEF TakeInitStart
  <2>4. s.initStart # -1 => t = CalculateEnd(u)
    BY DEF TakeInitStart, u
  <2> HIDE DEF t
  <2> QED BY <2>2, <2>3, <2>4
<1> HIDE DEF t
<1>3. Leaves(t, r, {"iDraw", "requests"})
  BY <1>1, AjaxUpdateLeaves DEF Leaves
<1>4. /\ r.iDraw = t.iDraw + 1
      /\ r.requests = t.requests \cup {[sEcho |-> t.iDraw + 1, params |-> Params(t)]}
  BY <1>1 DEF AjaxUpdate, Leaves, IsSettings, Fields
<1> HIDE DEF r
<1>5. /\ t.iDraw = s.iDraw /\ t.requests = s.requests /\ r.initStart = -1 /\ r.f = s.f
      /\ r.answer = s.answer
  BY <1>1, <1>2, <1>3 DEF Leaves, Fields
<1>6. Params(r) = Params(t)
  <2>1. /\ r.f = t.f /\ r.start = t.start /\ r.length = t.length /\ r.sSearch = t.sSearch
        /\ r.sColumn = t.sColumn /\ r.aaSorting = t.aaSorting
    BY <1>3 DEF Leaves, Fields
  <2> QED BY <2>1, SameParams
<1>7. s.f.bServerSide => Draw(s) = r
  <2>1. t.f = s.f
    BY <1>1 DEF Leaves, Fields
  <2> QED BY <2>1 DEF Draw, t, r
<1>8. Draw(s).f = s.f /\ Draw(s).answer = s.answer
  BY DrawLeaves DEF Leaves, Fields, DrawChanges
<1> QED BY <1>4, <1>5, <1>6, <1>7, <1>8 DEF Asked

(* What is done before a draw, if it leaves the requests.                  *)
LEMMA AskedAfter ==
  ASSUME NEW s, NEW changed, NEW t, Leaves(s, t, changed),
         changed \cap {"f", "answer", "iDraw", "requests"} = {}, NEW r, Asked(t, r)
  PROVE  Asked(s, r)
<1>1. {"f", "answer", "iDraw", "requests"} \subseteq Fields \ changed
  BY DEF Fields
<1>2. t.f = s.f /\ t.answer = s.answer /\ t.iDraw = s.iDraw /\ t.requests = s.requests
  BY <1>1 DEF Leaves
<1> QED BY <1>2 DEF Asked

LEMMA DrawnAnew ==
  ASSUME NEW s, IsSettings(s)
  PROVE  Asked(s, Draw(CalculateEnd(s)))
<1>1. Leaves(s, CalculateEnd(s), {"end"})
  BY CalculateEndLeaves
<1>2. Asked(CalculateEnd(s), Draw(CalculateEnd(s)))
  BY <1>1, DrawAsks DEF Leaves
<1> QED BY <1>1, <1>2, AskedAfter

LEMMA FilterCompleteAsks ==
  ASSUME NEW s, IsSettings(s), NEW input, NEW force \in BOOLEAN
  PROVE  Asked(s, FilterComplete(s, input, force))
<1> DEFINE t == Filtered(s, input, force)
           u == Draw(CalculateEnd(t))
           r == BuildSearchArray(u)
<1>1. Leaves(s, t, {"aiDisplay", "loose", "sSearch", "start", "adrift"})
  BY FilteredLeaves
<1> HIDE DEF t
<1>2. Asked(t, u)
  BY <1>1, DrawnAnew DEF Leaves
<1>3. Asked(s, u)
  BY <1>1, <1>2, AskedAfter
<1>4. IsSettings(u)
  <2>1. IsSettings(CalculateEnd(t))
    BY <1>1, CalculateEndLeaves DEF Leaves
  <2> QED BY <2>1, DrawLeaves DEF Leaves
<1> HIDE DEF u
<1>5. r.f = u.f /\ r.answer = u.answer /\ (u.f.bServerSide => r = u)
  BY <1>4, BuildSearchArrayLeaves DEF Leaves, Fields, BuildSearchArray
<1> HIDE DEF r
<1>6. Asked(s, r)
  BY <1>3, <1>5 DEF Asked
<1>7. FilterComplete(s, input, force) = r
  BY FilterCompleteIs DEF r, u, t
<1> QED BY <1>6, <1>7

LEMMA SortAsks ==
  ASSUME NEW s, IsSettings(s)
  PROVE  Asked(s, Sort(s))
<1> DEFINE t == Ranked(s)
           u == Unfiltered(t)
           r == AfterSort(t)
<1>1. Leaves(s, t, {"aiDisplayMaster", "unsorted"})
  BY RankedLeaves
<1>2. Sort(s) = r
  BY DEF Sort, Ranked
<1> HIDE DEF t
<1>3. Asked(t, FilterComplete(t, t.sSearch, TRUE))
  BY <1>1, FilterCompleteAsks DEF Leaves
<1>4. Leaves(t, u, {"aiDisplay", "start", "adrift", "loose"})
  BY <1>1, UnfilteredLeaves DEF Leaves
<1>5. r = FilterComplete(t, t.sSearch, TRUE) \/ r = Draw(CalculateEnd(u))
  BY AfterSortIs
<1> HIDE DEF u, r
<1>6. Asked(t, Draw(CalculateEnd(u)))
  <2>1. Asked(u, Draw(CalculateEnd(u)))
    BY <1>4, DrawnAnew DEF Leaves
  <2> QED BY <1>4, <2>1, AskedAfter
<1>7. Asked(t, r)
  BY <1>3, <1>5, <1>6
<1> QED BY <1>1, <1>2, <1>7, AskedAfter

LEMMA ReDrawAsks ==
  ASSUME NEW s, IsSettings(s), s.f.bSort \in BOOLEAN, s.f.bFilter \in BOOLEAN
  PROVE  Asked(s, ReDraw(s))
<1> DEFINE a == Sort(s)
           b == FilterComplete(s, s.sSearch, FALSE)
           c == Draw(CalculateEnd(s))
<1>1. Asked(s, a) /\ Asked(s, b) /\ Asked(s, c)
  BY SortAsks, FilterCompleteAsks, DrawnAnew
<1>2. /\ s.f.bSort => ReDraw(s) = a
      /\ ~s.f.bSort /\ s.f.bFilter => ReDraw(s) = b
      /\ ~s.f.bSort /\ ~s.f.bFilter => ReDraw(s) = c
  BY DEF ReDraw
<1> HIDE DEF a, b, c
<1>3. ReDraw(s) = a \/ ReDraw(s) = b \/ ReDraw(s) = c
  BY <1>2, Zenon
<1> QED BY <1>1, <1>3

-----------------------------------------------------------------------------
(* Requests and answers are numbered, none higher than iDraw.              *)
Numbered(s) ==
  /\ ~s.f.bServerSide => s.answer = NoAnswer
  /\ s.f.bServerSide =>
       /\ s.iDraw \in Nat
       /\ \A request \in s.requests : request.sEcho \in Nat /\ request.sEcho <= s.iDraw
       /\ s.answer # NoAnswer => s.answer.sEcho \in Nat /\ s.answer.sEcho <= s.iDraw

\* A table with a server was sent to its first page when it was started.
Begun(s) == s.f.bServerSide => s.initStart = -1

(* The newest request, and its answer, are about what the table is set to, *)
(* and the answer is what the body shows.                                  *)
Answered(s, changes) ==
  /\ \A request \in s.requests : request.sEcho = s.iDraw => request.params = Params(s)
  /\ s.answer # NoAnswer /\ s.answer.sEcho = s.iDraw =>
       LET rows == AnswerRows(s.answer.params).rows
       IN /\ s.answer.params = Params(s)
          /\ changes = 0 => RowsOf(s.body) = [i \in DOMAIN rows |-> Row(rows[i].key)]

AskInv ==
  /\ Numbered(oSettings) /\ Begun(oSettings) /\ edits \in Nat
  /\ ~undrawn /\ oSettings.f.bServerSide => Answered(oSettings, edits)

LEMMA AskedGood ==
  ASSUME NEW s, s.f.bServerSide \in BOOLEAN, Numbered(s), NEW r, Asked(s, r), NEW changes
  PROVE  /\ Numbered(r) /\ Begun(r)
         /\ r.f.bServerSide => Answered(r, changes)
<1>1. r.f = s.f /\ r.answer = s.answer
  BY DEF Asked
<1>2. CASE ~s.f.bServerSide
  BY <1>1, <1>2 DEF Numbered, Begun
<1>3. CASE s.f.bServerSide
  <2>1. /\ r.initStart = -1 /\ r.iDraw = s.iDraw + 1
        /\ r.requests = s.requests \cup {[sEcho |-> r.iDraw, params |-> Params(r)]}
    BY <1>3 DEF Asked
  <2>2. s.iDraw \in Nat /\ r.iDraw \in Nat /\ s.iDraw < r.iDraw
    BY <1>3, <2>1 DEF Numbered
  <2>3. ASSUME NEW request \in r.requests
        PROVE  /\ request.sEcho \in Nat /\ request.sEcho <= r.iDraw
               /\ request.sEcho = r.iDraw => request.params = Params(r)
    <3>1. CASE request \in s.requests
      <4>1. request.sEcho \in Nat /\ request.sEcho <= s.iDraw
        BY <1>3, <3>1 DEF Numbered
      <4> QED BY <2>2, <4>1
    <3>2. CASE request = [sEcho |-> r.iDraw, params |-> Params(r)]
      BY <2>2, <3>2
    <3> QED BY <2>1, <3>1, <3>2
  <2>4. r.answer # NoAnswer => r.answer.sEcho \in Nat /\ r.answer.sEcho < r.iDraw
    <3>1. s.answer # NoAnswer => s.answer.sEcho \in Nat /\ s.answer.sEcho <= s.iDraw
      BY <1>3 DEF Numbered
    <3> QED BY <1>1, <2>2, <3>1
  <2>5. Numbered(r)
    BY <1>1, <1>3, <2>2, <2>3, <2>4 DEF Numbered
  <2>6. Answered(r, changes)
    <3>1. r.answer # NoAnswer => r.answer.sEcho # r.iDraw
      BY <2>2, <2>4
    <3> QED BY <2>3, <3>1 DEF Answered
  <2> QED BY <2>1, <2>5, <2>6 DEF Begun
<1> QED BY <1>2, <1>3

\* What tells of the requests.
Asking == {"f", "answer", "iDraw", "requests", "initStart"}

LEMMA NumberedAfter ==
  ASSUME NEW s, Numbered(s), NEW r, Leaves(s, r, Fields \ Asking)
  PROVE  Numbered(r) /\ (Begun(s) => Begun(r))
<1>1. r.f = s.f /\ r.answer = s.answer /\ r.iDraw = s.iDraw /\ r.requests = s.requests
      /\ r.initStart = s.initStart
  BY DEF Leaves, Asking, Fields
<1> QED BY <1>1 DEF Numbered, Begun

LEMMA ServerSide ==
  ASSUME PageInv
  PROVE  /\ IsSettings(oSettings) /\ oSettings.f.bServerSide \in BOOLEAN
         /\ oSettings.f.bSort \in BOOLEAN /\ oSettings.f.bFilter \in BOOLEAN
BY FeaturesBoolean DEF PageInv, Base

(* A step that changes something and draws.                                *)
LEMMA DrawnAsks ==
  ASSUME PageInv, AskInv, NEW t, Leaves(oSettings, t, Fields \ Asking), NEW r, Asked(t, r),
         oSettings' = r, edits' \in Nat
  PROVE  AskInv'
<1>1. t.f = oSettings.f
  BY DEF Leaves, Asking, Fields
<1>2. t.f.bServerSide \in BOOLEAN
  BY <1>1, ServerSide
<1>3. Numbered(t)
  BY NumberedAfter DEF AskInv
<1>4. Numbered(r) /\ Begun(r) /\ (r.f.bServerSide => Answered(r, edits'))
  BY <1>2, <1>3, AskedGood
<1> QED BY <1>4 DEF AskInv

LEMMA LeftAsks ==
  ASSUME PageInv, AskInv, NEW r, Leaves(oSettings, r, Fields \ Asking),
         oSettings' = r, edits' \in Nat, undrawn' = TRUE
  PROVE  AskInv'
<1>1. Numbered(r) /\ Begun(r)
  BY NumberedAfter DEF AskInv
<1> QED BY <1>1 DEF AskInv

LEMMA EditedAsks ==
  ASSUME PageInv, AskInv, NEW t, Leaves(oSettings, t, Fields \ Asking), NEW r, Asked(t, r),
         NEW redraw \in BOOLEAN, Edited(r, t, redraw)
  PROVE  AskInv'
<1>1. edits' \in Nat
  BY DEF Edited, AskInv
<1>2. CASE redraw
  BY <1>1, <1>2, DrawnAsks DEF Edited, Drawn
<1>3. CASE ~redraw
  <2> DEFINE u == [t EXCEPT !.adrift = TRUE]
  <2>1. oSettings' = u /\ undrawn' = TRUE
    BY <1>3 DEF Edited
  <2>2. Leaves(t, u, {"adrift"})
    BY DEF Leaves, IsSettings, Fields
  <2> HIDE DEF u
  <2>3. Leaves(oSettings, u, Fields \ Asking)
    BY <2>2 DEF Leaves, Asking
  <2> QED BY <1>1, <2>1, <2>3, LeftAsks
<1> QED BY <1>2, <1>3

LEMMA UserAsks ==
  ASSUME PageInv, AskInv, Type \/ SortClick \/ PageClick \/ PageNumberClick \/ LengthChange
  PROVE  AskInv'
<1> DEFINE s == oSettings
<1>1. IsSettings(s) /\ edits \in Nat
  BY ServerSide DEF AskInv
<1>2. Leaves(s, s, Fields \ Asking)
  BY <1>1 DEF Leaves
<1>3. ASSUME NEW start
      PROVE  Asked(s, Draw(GoTo(s, start)))
  <2> DEFINE t == [s EXCEPT !.start = start]
  <2>1. Leaves(s, t, {"start"})
    BY <1>1 DEF Leaves, IsSettings, Fields
  <2>2. GoTo(s, start) = CalculateEnd(t)
    BY DEF GoTo
  <2> HIDE DEF t
  <2>3. Asked(t, Draw(CalculateEnd(t)))
    BY <2>1, DrawnAnew DEF Leaves
  <2> QED BY <2>1, <2>2, <2>3, AskedAfter
<1>4. CASE Type
  <2>1. PICK input : s' = FilterComplete(s, input, FALSE)
    BY <1>4 DEF Type, Drawn
  <2>2. edits' = edits
    BY <1>4 DEF Type
  <2> HIDE DEF s
  <2>3. Asked(s, FilterComplete(s, input, FALSE))
    BY <1>1, FilterCompleteAsks
  <2> QED BY <1>1, <1>2, <2>1, <2>2, <2>3, DrawnAsks DEF s
<1>5. CASE SortClick
  <2>1. PICK dir : s' = Sort([s EXCEPT !.aaSorting = dir])
    BY <1>5 DEF SortClick, Drawn
  <2>2. edits' = edits
    BY <1>5 DEF SortClick
  <2> DEFINE t == [s EXCEPT !.aaSorting = dir]
  <2>3. Leaves(s, t, {"aaSorting"})
    BY <1>1 DEF Leaves, IsSettings, Fields
  <2>4. s' = Sort(t)
    BY <2>1
  <2> HIDE DEF t
  <2>5. Leaves(s, t, Fields \ Asking) /\ Asked(t, Sort(t))
    BY <2>3, SortAsks DEF Leaves, Asking
  <2> QED BY <1>1, <2>2, <2>4, <2>5, DrawnAsks
<1>6. CASE PageClick
  <2>1. PICK start : s' = Draw(GoTo(s, start))
    BY <1>6 DEF PageClick, Drawn
  <2>2. edits' = edits
    BY <1>6 DEF PageClick
  <2> QED BY <1>1, <1>2, <1>3, <2>1, <2>2, DrawnAsks
<1>7. CASE PageNumberClick
  <2>1. PICK start : s' = Draw(GoTo(s, start))
    BY <1>7 DEF PageNumberClick, Drawn
  <2>2. edits' = edits
    BY <1>7 DEF PageNumberClick
  <2> QED BY <1>1, <1>2, <1>3, <2>1, <2>2, DrawnAsks
<1>8. CASE LengthChange
  <2> DEFINE T(length) == [s EXCEPT !.length = length]
             C(length) == CalculateEnd(T(length))
             U(length) == [C(length) EXCEPT !.start = LengthStart(C(length))]
  <2>1. PICK length : s' = Draw(U(length))
    BY <1>8 DEF LengthChange, Drawn
  <2>2. edits' = edits
    BY <1>8 DEF LengthChange
  <2> DEFINE t == T(length)
             c == C(length)
             u == U(length)
  <2>3. Leaves(s, t, {"length"})
    BY <1>1 DEF Leaves, IsSettings, Fields
  <2> HIDE DEF T
  <2>4. Leaves(t, c, {"end"})
    BY <2>3, CalculateEndLeaves DEF Leaves
  <2> HIDE DEF C
  <2>5. Leaves(c, u, {"start"})
    BY <2>4 DEF Leaves, IsSettings, Fields
  <2> HIDE DEF U
  <2>6. Leaves(s, u, Fields \ Asking)
    BY <2>3, <2>4, <2>5 DEF Leaves, Asking
  <2>7. Asked(u, Draw(u))
    BY <2>5, DrawAsks DEF Leaves
  <2> QED BY <1>1, <2>1, <2>2, <2>6, <2>7, DrawnAsks
<1> QED BY <1>4, <1>5, <1>6, <1>7, <1>8

LEMMA CallsAsk ==
  ASSUME PageInv, AskInv, CallFilter \/ CallSort \/ CallDraw \/ CallPageChange
  PROVE  AskInv'
<1> DEFINE s == oSettings
<1>1. IsSettings(s) /\ edits \in Nat /\ s.f.bSort \in BOOLEAN /\ s.f.bFilter \in BOOLEAN
  BY ServerSide DEF AskInv
<1>2. Leaves(s, s, Fields \ Asking)
  BY <1>1 DEF Leaves
<1>3. edits' = edits
  BY DEF CallFilter, CallSort, CallDraw, CallPageChange
<1>4. CASE CallFilter
  <2> DEFINE T(input) == [s EXCEPT !.sColumn = input]
  <2>1. PICK input : \/ s' = FilterComplete(s, input, TRUE)
                     \/ s' = FilterComplete(T(input), s.sSearch, TRUE)
    BY <1>4 DEF CallFilter, Drawn
  <2> DEFINE t == T(input)
  <2>2. Leaves(s, t, {"sColumn"})
    BY <1>1 DEF Leaves, IsSettings, Fields
  <2> HIDE DEF T
  <2>3. Leaves(s, t, Fields \ Asking) /\ Asked(t, FilterComplete(t, s.sSearch, TRUE))
    BY <2>2, FilterCompleteAsks DEF Leaves, Asking
  <2>4. Asked(s, FilterComplete(s, input, TRUE))
    BY <1>1, FilterCompleteAsks
  <2> QED BY <1>1, <1>2, <1>3, <2>1, <2>3, <2>4, DrawnAsks
<1>5. CASE CallSort
  <2> DEFINE T(dir) == [s EXCEPT !.aaSorting = dir]
  <2>1. PICK dir : s' = Sort(T(dir))
    BY <1>5 DEF CallSort, Drawn
  <2> DEFINE t == T(dir)
  <2>2. Leaves(s, t, {"aaSorting"})
    BY <1>1 DEF Leaves, IsSettings, Fields
  <2> HIDE DEF T
  <2>3. Leaves(s, t, Fields \ Asking) /\ Asked(t, Sort(t))
    BY <2>2, SortAsks DEF Leaves, Asking
  <2> QED BY <1>1, <1>3, <2>1, <2>3, DrawnAsks
<1>6. CASE CallDraw
  <2>1. s' = ReDraw(s) \/ s' = Draw(CalculateEnd(s))
    BY <1>6 DEF CallDraw, Drawn
  <2>2. Asked(s, ReDraw(s)) /\ Asked(s, Draw(CalculateEnd(s)))
    BY <1>1, ReDrawAsks, DrawnAnew
  <2> QED BY <1>1, <1>2, <1>3, <2>1, <2>2, DrawnAsks
<1>7. CASE CallPageChange
  <2> DEFINE G(start) == GoTo(s, start)
             M(start, adrift) == [G(start) EXCEPT !.adrift = adrift]
  <2>1. PICK start, adrift : s' = Draw(M(start, adrift)) \/ (s' = M(start, adrift) /\ undrawn' = TRUE)
    <3>1. PICK start \in {PageStart(s, "next"), PageStart(s, "last")}
                          \cup {NumberStart(s, page) : page \in PageNumbers(s)},
               redraw \in BOOLEAN :
            LET moved == [GoTo(s, start) EXCEPT
                            !.adrift = @ \/ ~redraw \/ start >= RecordsDisplay(s)]
            IN IF redraw THEN Drawn(Draw(moved)) ELSE oSettings' = moved /\ undrawn' = TRUE
      BY <1>7 DEF CallPageChange
    <3> DEFINE adrift == GoTo(s, start).adrift \/ ~redraw \/ start >= RecordsDisplay(s)
    <3>2. IF redraw THEN s' = Draw(M(start, adrift)) ELSE s' = M(start, adrift) /\ undrawn' = TRUE
      BY <3>1 DEF Drawn
    <3> HIDE DEF adrift, M
    <3> QED BY <3>2
  <2> DEFINE t == [s EXCEPT !.start = start]
             c == CalculateEnd(t)
             u == M(start, adrift)
  <2>2. Leaves(s, t, {"start"})
    BY <1>1 DEF Leaves, IsSettings, Fields
  <2>3. G(start) = c
    BY DEF GoTo
  <2> HIDE DEF t
  <2>4. Leaves(t, c, {"end"})
    BY <2>2, CalculateEndLeaves DEF Leaves
  <2> HIDE DEF G, c
  <2>5. Leaves(c, u, {"adrift"})
    BY <2>3, <2>4 DEF Leaves, IsSettings, Fields
  <2> HIDE DEF M
  <2>6. Leaves(s, u, Fields \ Asking)
    BY <2>2, <2>4, <2>5 DEF Leaves, Asking
  <2>7. Asked(u, Draw(u))
    BY <2>5, DrawAsks DEF Leaves
  <2> QED BY <1>1, <1>3, <2>1, <2>6, <2>7, DrawnAsks, LeftAsks
<1> QED BY <1>4, <1>5, <1>6, <1>7

LEMMA EndSame ==
  ASSUME NEW s, IsSettings(s), NEW r, IsSettings(r), r.f = s.f, r.start = s.start,
         r.length = s.length, r.aiDisplay = s.aiDisplay
  PROVE  CalculateEnd(r).end = CalculateEnd(s).end
<1> DEFINE End(x) == IF \/ ~x.f.bPaginate
                        \/ x.start + x.length > Len(x.aiDisplay)
                        \/ x.length = -1
                     THEN Len(x.aiDisplay)
                     ELSE x.start + x.length
<1>1. ASSUME NEW x, IsSettings(x)
      PROVE  CalculateEnd(x).end = End(x)
  <2> DEFINE e == End(x)
  <2>1. CalculateEnd(x) = [x EXCEPT !.end = e]
    BY DEF CalculateEnd
  <2> HIDE DEF e
  <2>2. CalculateEnd(x).end = e
    BY <1>1, <2>1 DEF IsSettings, Fields
  <2> QED BY <2>2 DEF e
<1>2. End(r) = End(s)
  OBVIOUS
<1> HIDE DEF End
<1> QED BY <1>1, <1>2

\* Computing the end again changes nothing.
LEMMA EndAgain ==
  ASSUME NEW s, IsSettings(s)
  PROVE  CalculateEnd(CalculateEnd(s)).end = CalculateEnd(s).end
<1> DEFINE c == CalculateEnd(s)
<1>1. Leaves(s, c, {"end"})
  BY CalculateEndLeaves
<1> HIDE DEF c
<1>2. IsSettings(c) /\ c.f = s.f /\ c.start = s.start /\ c.length = s.length
      /\ c.aiDisplay = s.aiDisplay
  BY <1>1 DEF Leaves, Fields
<1>3. CalculateEnd(c).end = CalculateEnd(s).end
  BY <1>2, EndSame
<1> QED BY <1>3 DEF c

(* What a change of rows leaves to be drawn.                               *)
EditChanges ==
  {"aoData", "aiDisplayMaster", "aiDisplay", "asDataSearch", "start", "end", "adrift", "loose",
   "unsorted", "stale"}

EditOf(s, t, r) ==
  /\ Leaves(s, t, EditChanges) /\ Base(t) /\ Started(t)
  /\ t.start = s.start \/ t.start >= 0
  /\ \/ r = ReDraw(t)
     \/ r = Draw(CalculateEnd(t))
     \/ r = Draw(t) /\ t.end = CalculateEnd(t).end

LEMMA AddDataIs ==
  ASSUME PageInv, NEW redraw \in BOOLEAN, AddData(redraw)
  PROVE  \E t, r : EditOf(oSettings, t, r) /\ Edited(r, t, redraw)
<1> DEFINE s == oSettings
           key == CHOOSE k \in FreeKeys(s) : \A j \in FreeKeys(s) : k <= j
           A(text) == AddRow(s, NewRow(key, text))
           T(text) == [A(text) EXCEPT !.aiDisplay = A(text).aiDisplayMaster,
                                      !.loose = TRUE, !.unsorted = TRUE]
<1>1. PICK text \in Texts : FreeKeys(s) # {} /\ Edited(ReDraw(T(text)), T(text), redraw)
  BY DEF AddData
<1>2. key \in FreeKeys(s)
  <2> DEFINE F == FreeKeys(s)
  <2>1. PICK n \in Nat : Keys = 1 .. n
    BY KeysAre
  <2>2. F \in SUBSET (1 .. n) /\ F # {}
    BY <1>1, <2>1 DEF FreeKeys
  <2> HIDE DEF F
  <2>3. \E k \in F : \A j \in F : k <= j
    BY <2>2, SmallestOf
  <2> QED BY <2>3 DEF F
<1>3. Base(s) /\ Started(s)
  BY DEF PageInv
<1> HIDE DEF key, s
<1> DEFINE a == A(text)
           t == T(text)
<1>4. Base(t) /\ Started(t)
  BY <1>2, <1>3, AddDataBase
<1>5. Leaves(s, a, {"aoData", "aiDisplayMaster"})
  BY <1>3, AddRowsLeaves DEF AddRow, Base
<1> HIDE DEF A
<1>6. Leaves(a, t, {"aiDisplay", "loose", "unsorted"})
  BY <1>5 DEF Leaves, IsSettings, Fields
<1> HIDE DEF T
<1>7. Leaves(s, t, EditChanges) /\ t.start = s.start
  BY <1>5, <1>6 DEF Leaves, EditChanges, Fields
<1> QED BY <1>1, <1>4, <1>7 DEF EditOf, s

LEMMA ClearRowsIs ==
  ASSUME PageInv, NEW redraw \in BOOLEAN, ClearRows(redraw)
  PROVE  \E t, r : EditOf(oSettings, t, r) /\ Edited(r, t, redraw)
<1> DEFINE s == oSettings
           e == [s EXCEPT !.aoData = << >>, !.aiDisplayMaster = << >>, !.aiDisplay = << >>]
           c == ClearTable(s)
           t == [c EXCEPT !.adrift = TRUE]
<1>1. Edited(Draw(t), t, redraw)
  BY DEF ClearRows
<1>2. Base(s)
  BY DEF PageInv
<1>3. Base(t) /\ Started(t)
  BY <1>2, ClearRowsGood
<1> HIDE DEF s
<1>4. c.end = CalculateEnd(c).end
  <2>1. IsSettings(e)
    BY <1>2 DEF Base, IsSettings, Fields
  <2>2. c = CalculateEnd(e)
    BY DEF ClearTable
  <2> HIDE DEF e, c
  <2> QED BY <2>1, <2>2, EndAgain
<1>5. Leaves(s, c, {"aoData", "aiDisplayMaster", "aiDisplay", "end"})
  BY <1>2, ClearTableLeaves DEF Base
<1> HIDE DEF c
<1>6. Leaves(c, t, {"adrift"})
  BY <1>5 DEF Leaves, IsSettings, Fields
<1> HIDE DEF t
<1>7. Leaves(s, t, EditChanges) /\ t.start = s.start
  BY <1>5, <1>6 DEF Leaves, EditChanges, Fields
<1>8. t.end = CalculateEnd(t).end
  <2>1. /\ t.f = c.f /\ t.start = c.start /\ t.length = c.length /\ t.aiDisplay = c.aiDisplay
        /\ t.end = c.end /\ IsSettings(c) /\ IsSettings(t)
    BY <1>6 DEF Leaves, Fields
  <2>2. CalculateEnd(t).end = CalculateEnd(c).end
    BY <2>1, EndSame
  <2> QED BY <1>4, <2>1, <2>2
<1> QED BY <1>1, <1>3, <1>7, <1>8 DEF EditOf, s

LEMMA DeleteRowIs ==
  ASSUME PageInv, NEW redraw \in BOOLEAN, DeleteRow(redraw)
  PROVE  \E t, r : EditOf(oSettings, t, r) /\ Edited(r, t, redraw)
<1> DEFINE s == oSettings
           R(target) == [s EXCEPT
                      !.aoData = SplicedRows(s, target),
                      !.asDataSearch = SplicedSearch(s, target),
                      !.aiDisplayMaster = DeleteIndex(@, target),
                      !.aiDisplay = DeleteIndex(@, target),
                      !.stale = @ \/ IndexOf(s.aiDisplay, target) = {}]
           T(target) == [R(target) EXCEPT
                    !.start = StartAfterDelete(R(target)),
                    !.adrift = @ \/ R(target).length = -1]
<1>1. PICK target \in DOMAIN s.aoData : Edited(Draw(CalculateEnd(T(target))), T(target), redraw)
  BY DEF DeleteRow
<1>2. Base(s) /\ Started(s)
  BY DEF PageInv
<1> HIDE DEF s
<1>3. Base(T(target)) /\ Started(T(target))
  BY <1>2, DeleteRowBase
<1> DEFINE p == R(target)
           start == StartAfterDelete(p)
           adrift == p.adrift \/ p.length = -1
           t == [p EXCEPT !.start = start, !.adrift = adrift]
<1>4. T(target) = t
  OBVIOUS
<1>5. Leaves(s, p, {"aoData", "asDataSearch", "aiDisplayMaster", "aiDisplay", "stale"})
  <2> DEFINE data == SplicedRows(s, target)
             search == SplicedSearch(s, target)
             master == DeleteIndex(s.aiDisplayMaster, target)
             display == DeleteIndex(s.aiDisplay, target)
             stale == s.stale \/ IndexOf(s.aiDisplay, target) = {}
             q == [s EXCEPT !.aoData = data, !.asDataSearch = search, !.aiDisplayMaster = master,
                            !.aiDisplay = display, !.stale = stale]
  <2>1. p = q
    OBVIOUS
  <2> HIDE DEF p, data, search, master, display, stale
  <2>2. Leaves(s, q, {"aoData", "asDataSearch", "aiDisplayMaster", "aiDisplay", "stale"})
    BY <1>2 DEF Base, Leaves, IsSettings, Fields
  <2> QED BY <2>1, <2>2
<1> HIDE DEF R, T, p
<1>6. start = p.start \/ start >= 0
  <2>1. p.start \in Int /\ p.length \in Int
    <3>1. p.start = s.start /\ p.length = s.length
      BY <1>5 DEF Leaves, Fields
    <3> QED BY <1>2, <3>1 DEF Base, Numbers, PageLengths
  <2>2. start = p.start \/ start = NotBelow0(p.start - p.length)
    BY DEF StartAfterDelete
  <2> HIDE DEF start
  <2> QED BY <2>1, <2>2 DEF NotBelow0
<1> HIDE DEF start, adrift
<1>7. Leaves(p, t, {"start", "adrift"}) /\ t.start = start
  BY <1>5 DEF Leaves, IsSettings, Fields
<1> HIDE DEF t
<1>8. Leaves(s, t, EditChanges) /\ (t.start = s.start \/ t.start >= 0)
  BY <1>5, <1>6, <1>7 DEF Leaves, EditChanges, Fields
<1> QED BY <1>1, <1>3, <1>4, <1>8 DEF EditOf, s

LEMMA UpdateIs ==
  ASSUME PageInv, NEW redraw \in BOOLEAN, Update(redraw)
  PROVE  \E t, r : EditOf(oSettings, t, r) /\ Edited(r, t, redraw)
<1> DEFINE s == oSettings
           T(target, text) == [s EXCEPT
                      !.aoData[target].text = text,
                      !.asDataSearch = UpdatedSearch(s, target, text),
                      !.loose = @ \/ ~redraw \/ IndexOf(s.aiDisplay, target) = {},
                      !.unsorted = TRUE]
<1>1. PICK target \in DOMAIN s.aoData : \E text \in Texts :
        Edited(ReDraw(T(target, text)), T(target, text), redraw)
  BY DEF Update
<1>2. PICK text \in Texts : Edited(ReDraw(T(target, text)), T(target, text), redraw)
  BY <1>1
<1>3. Base(s) /\ Started(s)
  BY DEF PageInv
<1> HIDE DEF s
<1>4. Base(T(target, text)) /\ Started(T(target, text))
  BY <1>3, UpdateBase
<1> DEFINE data == [s.aoData EXCEPT ![target].text = text]
           search == UpdatedSearch(s, target, text)
           loose == s.loose \/ ~redraw \/ IndexOf(s.aiDisplay, target) = {}
           t == [s EXCEPT !.aoData = data, !.asDataSearch = search, !.loose = loose,
                          !.unsorted = TRUE]
<1>5. T(target, text) = t
  OBVIOUS
<1> HIDE DEF T, data, search, loose
<1>6. Leaves(s, t, {"aoData", "asDataSearch", "loose", "unsorted"})
  BY <1>3 DEF Base, Leaves, IsSettings, Fields
<1> HIDE DEF t
<1>7. Leaves(s, t, EditChanges) /\ t.start = s.start
  BY <1>6 DEF Leaves, EditChanges, Fields
<1> QED BY <1>2, <1>4, <1>5, <1>7 DEF EditOf, s

\* A change of rows leaves what is asked alone.
LEMMA EditsAsk ==
  ASSUME PageInv, AskInv, NEW redraw \in BOOLEAN,
         AddData(redraw) \/ ClearRows(redraw) \/ DeleteRow(redraw) \/ Update(redraw)
  PROVE  AskInv'
<1> DEFINE s == oSettings
<1>1. PICK t, r : EditOf(s, t, r) /\ Edited(r, t, redraw)
  BY AddDataIs, ClearRowsIs, DeleteRowIs, UpdateIs
<1>2. Leaves(s, t, EditChanges) /\ IsSettings(t)
  BY <1>1 DEF EditOf, Base
<1>3. Leaves(s, t, Fields \ Asking)
  BY <1>2 DEF Leaves, EditChanges, Fields, Asking
<1>4. t.f.bSort \in BOOLEAN /\ t.f.bFilter \in BOOLEAN
  BY <1>1, FeaturesBoolean DEF EditOf
<1> DEFINE a == ReDraw(t)
           b == Draw(CalculateEnd(t))
           c == Draw(t)
<1>5. Asked(t, a) /\ Asked(t, b) /\ Asked(t, c)
  BY <1>2, <1>4, ReDrawAsks, DrawAsks, DrawnAnew
<1>6. r = a \/ r = b \/ r = c
  BY <1>1 DEF EditOf
<1> HIDE DEF a, b, c
<1>7. Asked(t, r)
  BY <1>5, <1>6
<1> QED BY <1>1, <1>3, <1>7, EditedAsks

-----------------------------------------------------------------------------
(* A table asks as soon as it is started, and starts from nothing when the *)
(* page is loaded again.                                                   *)
LEMMA StartAsks ==
  ASSUME NEW f \in Features, NEW cookie, NEW length \in f.aLengthMenu,
         \A saved \in cookie : saved.start \in Int /\ saved.length \in PageLengths,
         NEW changes
  PROVE  LET r == Initialise(Constructed(f, cookie, length))
         IN Numbered(r) /\ Begun(r) /\ (r.f.bServerSide => Answered(r, changes))
<1> DEFINE s == Constructed(f, cookie, length)
           r == Initialise(s)
           a == Sort(s)
           b == FilterComplete(s, s.sSearch, FALSE)
           t == [s EXCEPT !.aiDisplay = s.aiDisplayMaster]
           c == Draw(CalculateEnd(t))
<1>1. Base(s)
  BY ConstructedBase
<1>2. s.iDraw = 0 /\ s.requests = {} /\ s.answer = NoAnswer
  BY DEF Constructed
<1> HIDE DEF s
<1>3. s.f.bFilter \in BOOLEAN /\ s.f.bSort \in BOOLEAN /\ s.f.bServerSide \in BOOLEAN
      /\ IsSettings(s)
  BY <1>1, FeaturesBoolean DEF Base
<1>4. Numbered(s)
  BY <1>2 DEF Numbered
<1>5. Leaves(s, t, {"aiDisplay"})
  BY <1>3 DEF Leaves, IsSettings, Fields
<1> HIDE DEF t
<1>6. Asked(s, a) /\ Asked(s, b) /\ Asked(s, c)
  <2>1. Asked(t, c)
    BY <1>5, DrawnAnew DEF Leaves
  <2> HIDE DEF a, b, c
  <2>2. Asked(s, c)
    BY <1>5, <2>1, AskedAfter
  <2> QED BY <1>3, <2>2, SortAsks, FilterCompleteAsks DEF a, b
<1> HIDE DEF a, b, c
<1>7. /\ s.f.bSort => r = a
      /\ ~s.f.bSort /\ s.f.bFilter => r = b
      /\ ~s.f.bSort /\ ~s.f.bFilter => r = c
  BY <1>3 DEF Initialise, a, b, c, t
<1> HIDE DEF r
<1>9. r = a \/ r = b \/ r = c
  BY <1>3, <1>7, Zenon
<1>10. Asked(s, r)
  BY <1>6, <1>9
<1>11. Numbered(r) /\ Begun(r) /\ (r.f.bServerSide => Answered(r, changes))
  BY <1>3, <1>4, <1>10, AskedGood
<1> QED BY <1>11 DEF r, s

(* The rows of an Ajax source come to a table that has no server.          *)
LEMMA AjaxLoadAsks ==
  ASSUME PageInv, AskInv, AjaxLoad
  PROVE  AskInv'
<1> DEFINE s == oSettings
           t == AddRows(s, SourceTable)
           u == [t EXCEPT !.loading = FALSE, !.initStart = s.ajaxStart]
           v == [u EXCEPT !.aiDisplay = u.aiDisplayMaster,
                          !.loose = u.sSearch # << >> \/ u.sColumn # << >>]
           a == Sort(u)
           b == Draw(CalculateEnd(v))
<1>1. IsSettings(s) /\ ~s.f.bServerSide /\ s.answer = NoAnswer /\ edits \in Nat
  BY DEF PageInv, Base, Pending, AjaxLoad, AskInv, Numbered
<1>2. oSettings' = (IF u.f.bSort THEN a ELSE b) /\ edits' = edits
  BY DEF AjaxLoad
<1>3. Leaves(s, t, {"aoData", "aiDisplayMaster"})
  BY <1>1, AddRowsLeaves
<1> HIDE DEF t
<1>4. Leaves(t, u, {"loading", "initStart"})
  BY <1>3 DEF Leaves, IsSettings, Fields
<1> HIDE DEF u
<1>5. Leaves(u, v, {"aiDisplay", "loose"})
  BY <1>4 DEF Leaves, IsSettings, Fields
<1> HIDE DEF v
<1>6. Asked(u, a)
  BY <1>4, SortAsks DEF Leaves
<1>7. Asked(u, b)
  <2>1. Asked(v, b)
    BY <1>5, DrawnAnew DEF Leaves
  <2> HIDE DEF b
  <2> QED BY <1>5, <2>1, AskedAfter
<1>8. u.f = s.f /\ u.answer = s.answer
  BY <1>3, <1>4 DEF Leaves, Fields
<1> HIDE DEF a, b
<1>9. oSettings'.f = s.f /\ oSettings'.answer = s.answer
  BY <1>2, <1>6, <1>7, <1>8 DEF Asked
<1> HIDE DEF s
<1>10. Numbered(oSettings)' /\ Begun(oSettings)'
  BY <1>1, <1>9 DEF Numbered, Begun
<1>11. (~oSettings.f.bServerSide)'
  BY <1>1, <1>9
<1> QED BY <1>1, <1>2, <1>10, <1>11 DEF AskInv

(* The settings after an answer that is taken, and what they show.         *)
Taken(s, request) ==
  LET waiting == [s EXCEPT !.requests = @ \ {request}]
      answered == AnswerRows(request.params)
      refilled == AddRows(ClearTable([waiting EXCEPT !.iDraw = request.sEcho]), answered.rows)
      shown == [refilled EXCEPT !.recordsDisplay = answered.total,
                                !.open = {},
                                !.aiDisplay = refilled.aiDisplayMaster,
                                !.answer = request]
  IN InsertRows(TakeInitStart(shown))

LEMMA AnswerShows ==
  ASSUME NEW s, Base(s), Started(s), s.initStart = -1, NEW request \in s.requests
  PROVE  LET answered == AnswerRows(request.params)
             r == Taken(s, request)
         IN /\ r.f = s.f /\ r.answer = request /\ r.iDraw = request.sEcho
            /\ r.initStart = -1 /\ r.requests = s.requests \ {request}
            /\ Params(r) = Params(s)
            /\ RowsOf(r.body) = [i \in DOMAIN answered.rows |-> Row(answered.rows[i].key)]
<1> DEFINE waiting == [s EXCEPT !.requests = @ \ {request}]
           rows == AnswerRows(request.params).rows
           total == AnswerRows(request.params).total
           w == [waiting EXCEPT !.iDraw = request.sEcho]
           c == ClearTable(w)
           t == AddRows(c, rows)
           m == t.aiDisplayMaster
           v == [t EXCEPT !.recordsDisplay = total, !.open = {}, !.aiDisplay = m,
                          !.answer = request]
<1>1. Base(waiting) /\ Leaves(s, waiting, {"requests"}) /\ s.f.bServerSide
  BY WaitingGood
<1>2. waiting.requests = s.requests \ {request}
  BY DEF Base, IsSettings, Fields
<1> HIDE DEF waiting
<1>3. Leaves(waiting, w, {"iDraw"}) /\ w.iDraw = request.sEcho
  BY <1>1 DEF Leaves, IsSettings, Fields
<1>4. /\ total \in Nat /\ rows \in Seq(RowType)
      /\ \A i \in DOMAIN rows : rows[i].node = NoNode
      /\ \A i, j \in DOMAIN rows : rows[i].key = rows[j].key => i = j
  <2>1. request.params.start \in Int /\ request.params.length \in PageLengths
    BY DEF Base, Numbers
  <2> QED BY <2>1, AnswerRowsAre
<1> HIDE DEF w, rows, total
<1>5. /\ Leaves(w, c, {"aoData", "aiDisplayMaster", "aiDisplay", "end"})
      /\ c.aoData = << >> /\ c.aiDisplayMaster = << >> /\ c.aiDisplay = << >>
  BY <1>3, ClearTableLeaves DEF Leaves
<1> HIDE DEF c
<1>6. c.f = s.f /\ c.f.bDeferRender \in BOOLEAN
  <2>1. c.f = s.f
    BY <1>1, <1>3, <1>5 DEF Leaves, Fields
  <2> QED BY <2>1, FeaturesBoolean
<1>7. IsSettings(c) /\ RowsValid(c)
  BY <1>5, EmptyRows DEF Leaves, RowsValid
<1>8. \A i \in DOMAIN rows, j \in DOMAIN c.aoData : rows[i].key # c.aoData[j].key
  BY <1>5
<1>9. /\ RowsValid(t) /\ SameCells(c.aoData \o rows, t.aoData)
      /\ m = c.aiDisplayMaster \o [k \in DOMAIN rows |-> Len(c.aoData) + k]
      /\ Leaves(c, t, {"aoData", "aiDisplayMaster"})
  BY <1>4, <1>6, <1>7, <1>8, AddRowsKeeps, AddRowsLeaves
<1> HIDE DEF t
<1>10. m = [k \in DOMAIN rows |-> k] /\ SameCells(rows, t.aoData)
  <2>1. c.aoData \o rows = rows
    BY <1>4, <1>5
  <2>2. [k \in DOMAIN rows |-> Len(c.aoData) + k] = [k \in DOMAIN rows |-> k]
    BY <1>4, <1>5
  <2>3. [k \in DOMAIN rows |-> k] \in Seq(Nat)
    BY <1>4
  <2> DEFINE q == [k \in DOMAIN rows |-> k]
  <2> HIDE DEF q, m
  <2>4. m = << >> \o q /\ q \in Seq(Nat)
    BY <1>5, <1>9, <2>2, <2>3 DEF q
  <2>5. m = q
    BY <2>4
  <2> QED BY <1>9, <2>1, <2>5 DEF q
<1>11. /\ Leaves(t, v, {"recordsDisplay", "open", "aiDisplay", "answer"})
       /\ v.aiDisplay = m /\ v.answer = request
  <2> HIDE DEF m
  <2> QED BY <1>9 DEF Leaves, IsSettings, Fields
<1> HIDE DEF v
<1>12. /\ v.f = s.f /\ v.initStart = -1 /\ v.iDraw = request.sEcho
       /\ v.requests = s.requests \ {request} /\ v.aoData = t.aoData
       /\ v.start = s.start /\ v.length = s.length /\ v.sSearch = s.sSearch
       /\ v.sColumn = s.sColumn /\ v.aaSorting = s.aaSorting /\ IsSettings(v)
  BY <1>1, <1>2, <1>3, <1>5, <1>9, <1>11 DEF Leaves, Fields
<1>13. TakeInitStart(v) = v
  BY <1>12 DEF TakeInitStart
<1>14. RowsOf(BodyOf(v)) = [i \in DOMAIN rows |-> Row(rows[i].key)]
  <2>1. Page(v) = m
    BY <1>1, <1>11, <1>12 DEF Page
  <2>2. RowsOK(v.aoData) /\ Indexes(m, Len(v.aoData))
    BY <1>9, <1>12 DEF RowsValid
  <2>3. RowsOf(BodyOf(v)) = [j \in DOMAIN m |-> Row(v.aoData[m[j]].key)]
    <3> HIDE DEF m
    <3> QED BY <2>1, <2>2, RowsOfBody
  <2>4. \A i \in DOMAIN rows : m[i] = i /\ v.aoData[i].key = rows[i].key
    BY <1>10, <1>12 DEF SameCells
  <2>5. DOMAIN m = DOMAIN rows
    BY <1>10
  <2> HIDE DEF m
  <2> QED BY <2>3, <2>4, <2>5
<1> DEFINE r == InsertRows(v)
<1>15. Leaves(v, r, {"body", "aoData", "cookie"}) /\ r.body = BodyOf(v)
  <2> DEFINE x == [v EXCEPT !.body = BodyOf(v)]
             y == CreateTrs(x, ToSet(Page(v)))
  <2>1. r = SaveState(y)
    BY <1>1, <1>12 DEF InsertRows
  <2>2. x.body = BodyOf(v) /\ Leaves(v, x, {"body"})
    BY <1>12 DEF Leaves, IsSettings, Fields
  <2> HIDE DEF x
  <2>3. Leaves(x, y, {"aoData"})
    BY <2>2, CreateTrsLeaves DEF Leaves
  <2> HIDE DEF y
  <2>4. Leaves(y, SaveState(y), {"cookie"})
    BY <2>3, SaveStateLeaves DEF Leaves
  <2>5. SaveState(y).body = x.body
    BY <2>3, <2>4 DEF Leaves, Fields
  <2>6. Leaves(v, r, {"body", "aoData", "cookie"})
    BY <1>12, InsertRowsLeaves
  <2> QED BY <2>1, <2>2, <2>5, <2>6
<1> HIDE DEF r
<1>16. /\ r.f = s.f /\ r.answer = request /\ r.iDraw = request.sEcho
       /\ r.initStart = -1 /\ r.requests = s.requests \ {request}
       /\ r.start = s.start /\ r.length = s.length /\ r.sSearch = s.sSearch
       /\ r.sColumn = s.sColumn /\ r.aaSorting = s.aaSorting
  BY <1>11, <1>12, <1>15 DEF Leaves, Fields
<1>17. Params(r) = Params(s)
  BY <1>16, SameParams
<1>18. RowsOf(r.body) = [i \in DOMAIN rows |-> Row(rows[i].key)]
  BY <1>14, <1>15
<1>19. Taken(s, request) = r
  <2>1. Taken(s, request) = InsertRows(TakeInitStart(v))
    BY DEF Taken, v, m, t, c, w, total, rows, waiting
  <2> QED BY <1>13, <2>1 DEF r
<1> QED BY <1>16, <1>17, <1>18, <1>19 DEF rows

LEMMA AnswerAsks ==
  ASSUME PageInv, AskInv, Answer \/ RequestFails
  PROVE  AskInv'
<1> DEFINE s == oSettings
           Waiting(request) == [s EXCEPT !.requests = @ \ {request}]
<1>1. PICK request \in s.requests :
        /\ \/ request.sEcho >= s.iDraw /\ oSettings' = Taken(s, request)
           \/ oSettings' = Waiting(request)
        /\ undrawn' = undrawn /\ edits' = edits
  <2>1. CASE Answer
    <3>1. PICK request \in s.requests :
            oSettings' = IF Takes(s, request.sEcho) THEN Taken(s, request) ELSE Waiting(request)
      BY <2>1 DEF Answer, Taken
    <3> HIDE DEF Waiting
    <3>2. \/ request.sEcho >= s.iDraw /\ oSettings' = Taken(s, request)
          \/ oSettings' = Waiting(request)
      BY <3>1 DEF Takes
    <3> QED BY <2>1, <3>2 DEF Answer
  <2>2. CASE RequestFails
    BY <2>2 DEF RequestFails
  <2> QED BY <2>1, <2>2
<1>2. /\ Base(s) /\ Started(s) /\ s.f.bServerSide
      /\ Numbered(s) /\ s.initStart = -1 /\ edits \in Nat
      /\ ~undrawn => Answered(s, edits)
  BY DEF PageInv, AskInv, Begun, Base, Pending
<1>3. s.iDraw \in Nat /\ request.sEcho \in Nat /\ request.sEcho <= s.iDraw
  BY <1>2 DEF Numbered
<1> DEFINE a == Taken(s, request)
           b == Waiting(request)
<1>4. CASE request.sEcho >= s.iDraw /\ oSettings' = a
  <2> DEFINE rows == AnswerRows(request.params).rows
  <2>1. /\ a.f = s.f /\ a.answer = request /\ a.iDraw = request.sEcho
        /\ a.initStart = -1 /\ a.requests = s.requests \ {request}
        /\ Params(a) = Params(s)
        /\ RowsOf(a.body) = [i \in DOMAIN rows |-> Row(rows[i].key)]
    BY <1>2, AnswerShows
  <2> HIDE DEF a
  <2>2. a.iDraw = s.iDraw /\ request.sEcho = s.iDraw
    BY <1>3, <1>4, <2>1
  <2>3. Numbered(a) /\ Begun(a)
    BY <1>2, <1>3, <2>1, <2>2 DEF Numbered, Begun
  <2>4. ASSUME ~undrawn
        PROVE  Answered(a, edits)
    <3>1. \A other \in s.requests : other.sEcho = s.iDraw => other.params = Params(s)
      BY <1>2, <2>4 DEF Answered
    <3>2. request.params = Params(s)
      BY <2>2, <3>1
    <3>3. \A other \in a.requests : other.sEcho = a.iDraw => other.params = Params(a)
      BY <2>1, <2>2, <3>1
    <3> QED BY <2>1, <3>2, <3>3 DEF Answered
  <2> QED BY <1>1, <1>2, <1>4, <2>3, <2>4 DEF AskInv
<1>5. CASE oSettings' = b
  <2>1. Leaves(s, b, {"requests"}) /\ b.requests = s.requests \ {request}
    BY <1>2 DEF Base, Leaves, IsSettings, Fields
  <2> HIDE DEF b
  <2>2. /\ b.f = s.f /\ b.answer = s.answer /\ b.iDraw = s.iDraw /\ b.initStart = s.initStart
        /\ b.start = s.start /\ b.length = s.length /\ b.sSearch = s.sSearch
        /\ b.sColumn = s.sColumn /\ b.aaSorting = s.aaSorting /\ b.body = s.body
    BY <2>1 DEF Leaves, Fields
  <2>3. Params(b) = Params(s)
    BY <2>2, SameParams
  <2>4. Numbered(b) /\ Begun(b)
    BY <1>2, <2>1, <2>2 DEF Numbered, Begun
  <2>5. Answered(s, edits) => Answered(b, edits)
    BY <2>1, <2>2, <2>3 DEF Answered
  <2> QED BY <1>1, <1>2, <1>5, <2>4, <2>5 DEF AskInv
<1> QED BY <1>1, <1>4, <1>5

(* Details are opened or closed: the rows stay.                            *)
LEMMA BodyAsks ==
  ASSUME PageInv, AskInv, NEW r, Leaves(oSettings, r, {"open", "body"}),
         RowsOf(r.body) = RowsOf(oSettings.body), oSettings' = r, UNCHANGED <<edits, undrawn>>
  PROVE  AskInv'
<1> DEFINE s == oSettings
<1>1. /\ r.f = s.f /\ r.answer = s.answer /\ r.iDraw = s.iDraw /\ r.initStart = s.initStart
      /\ r.start = s.start /\ r.length = s.length /\ r.sSearch = s.sSearch
      /\ r.sColumn = s.sColumn /\ r.aaSorting = s.aaSorting /\ r.requests = s.requests
  BY DEF Leaves, Fields
<1>2. Params(r) = Params(s)
  BY <1>1, SameParams
<1>3. Numbered(r) /\ Begun(r)
  BY <1>1 DEF Numbered, Begun, AskInv
<1>4. Answered(s, edits) => Answered(r, edits)
  BY <1>1, <1>2 DEF Answered
<1> QED BY <1>1, <1>3, <1>4 DEF AskInv

\* Details that are opened or closed leave the rows of the body.
LEMMA DetailsAre ==
  ASSUME PageInv, Open \/ Close
  PROVE  \E r : /\ Leaves(oSettings, r, {"open", "body"}) /\ RowsOf(r.body) = RowsOf(oSettings.body)
                /\ oSettings' = r /\ UNCHANGED <<edits, undrawn>>
<1> DEFINE s == oSettings
           Changed(open, body) == [s EXCEPT !.open = open, !.body = body]
<1>1. IsSettings(s) /\ s.body \in Seq(TrType)
  BY DEF PageInv, Base, BodyOK
<1>2. PICK open, body : /\ oSettings' = Changed(open, body) /\ UNCHANGED <<edits, undrawn>>
                        /\ RowsOf(body) = RowsOf(s.body)
  <2>1. CASE Open
    <3>1. PICK i \in Nodes(s) :
            /\ oSettings' = Changed(s.open \cup {s.aoData[i].key},
                                    BehindRow(BeforeOpen(s.body, s.aoData[i].key), s.aoData[i].key))
            /\ UNCHANGED <<edits, undrawn>>
      BY <2>1 DEF Open
    <3> DEFINE key == s.aoData[i].key
               left == WithoutDetail(s.body, key)
    <3>2. key \in Keys
      <4>1. i \in DOMAIN s.aoData /\ s.aoData \in Seq(RowType)
        BY <3>1 DEF Nodes, PageInv, Base, RowsValid, RowsOK
      <4>2. s.aoData[i] \in RowType
        BY <4>1
      <4> QED BY <4>2 DEF RowType
    <3> HIDE DEF key
    <3>3. left \in Seq(TrType)
      <4>1. BodyOK(s.body)
        BY DEF PageInv, Base
      <4> QED BY <4>1, WithoutDetailIs DEF BodyOK
    <3>4. RowsOf(BehindRow(left, key)) = RowsOf(s.body)
      BY <1>1, <3>2, <3>3, RowsOfWithout, RowsOfBehind
    <3> QED BY <3>1, <3>4 DEF BeforeOpen, key
  <2>2. CASE Close
    <3>1. PICK key : /\ oSettings' = Changed(s.open \ {key}, WithoutDetail(s.body, key))
                     /\ UNCHANGED <<edits, undrawn>>
      BY <2>2 DEF Close
    <3>2. RowsOf(WithoutDetail(s.body, key)) = RowsOf(s.body)
      BY <1>1, RowsOfWithout
    <3> QED BY <3>1, <3>2
  <2> QED BY <2>1, <2>2
<1> DEFINE r == Changed(open, body)
<1>3. Leaves(s, r, {"open", "body"}) /\ r.body = body
  BY <1>1 DEF Leaves, IsSettings, Fields
<1> HIDE DEF r
<1> QED BY <1>2, <1>3 DEF r

LEMMA DetailsAsk ==
  ASSUME PageInv, AskInv, Open \/ Close
  PROVE  AskInv'
BY DetailsAre, BodyAsks

LEMMA NextAsks ==
  PageInv /\ AskInv /\ [Next]_vars => AskInv'
<1> SUFFICES ASSUME PageInv, AskInv, [Next]_vars
             PROVE  AskInv'
  OBVIOUS
<1>1. CASE Reload
  <2>1. PICK length \in oSettings.f.aLengthMenu :
          oSettings' = Initialise(Constructed(oSettings.f, oSettings.cookie, length))
    BY <1>1 DEF Reload
  <2>2. /\ oSettings.f \in Features /\ edits' \in Nat
        /\ \A saved \in oSettings.cookie : saved.start \in Int /\ saved.length \in PageLengths
    BY <1>1 DEF Reload, PageInv, Base, Numbers, AskInv
  <2> DEFINE r == Initialise(Constructed(oSettings.f, oSettings.cookie, length))
  <2>3. Numbered(r) /\ Begun(r) /\ (r.f.bServerSide => Answered(r, edits'))
    BY <2>2, StartAsks
  <2> HIDE DEF r
  <2>4. oSettings' = r
    BY <2>1 DEF r
  <2> QED BY <2>2, <2>3, <2>4 DEF AskInv
<1>2. CASE AjaxLoad \/ Answer \/ RequestFails
  BY <1>2, AjaxLoadAsks, AnswerAsks
<1>3. CASE Type \/ SortClick \/ PageClick \/ PageNumberClick \/ LengthChange
  BY <1>3, UserAsks
<1>4. CASE \E redraw \in BOOLEAN :
             AddData(redraw) \/ ClearRows(redraw) \/ DeleteRow(redraw) \/ Update(redraw)
  BY <1>4, EditsAsk
<1>5. CASE CallFilter \/ CallSort \/ CallDraw \/ CallPageChange \/ Open \/ Close
  BY <1>5, CallsAsk, DetailsAsk
<1>6. CASE UNCHANGED vars
  BY <1>6 DEF vars, AskInv
<1> QED BY <1>1, <1>2, <1>3, <1>4, <1>5, <1>6 DEF Next

(* A server that answers late, out of order or not at all: what is shown   *)
(* once the newest request is answered is what the table is set to.        *)
THEOREM NewestAnswerAlwaysShown == Spec => []NewestAnswerShown
<1>1. PageInv /\ AskInv => NewestAnswerShown
  <2> SUFFICES ASSUME PageInv, AskInv, oSettings.answer # NoAnswer,
                      oSettings.answer.sEcho = oSettings.iDraw, ~undrawn
               PROVE  LET rows == AnswerRows(Params(oSettings)).rows
                      IN /\ oSettings.answer.params = Params(oSettings)
                         /\ edits = 0 => RowsOf(oSettings.body) =
                                           [i \in DOMAIN rows |-> Row(rows[i].key)]
    BY DEF NewestAnswerShown
  <2>1. oSettings.f.bServerSide
    BY ServerSide DEF AskInv, Numbered
  <2> QED BY <2>1 DEF AskInv, Answered
<1>2. Init => AskInv
  <2> SUFFICES ASSUME Init
               PROVE  AskInv
    OBVIOUS
  <2>1. PICK f \in Features : \E length \in f.aLengthMenu :
          oSettings = Initialise(Constructed(f, {}, length))
    BY DEF Init
  <2>2. PICK length \in f.aLengthMenu : oSettings = Initialise(Constructed(f, {}, length))
    BY <2>1
  <2>3. edits \in Nat
    BY DEF Init
  <2>4. Numbered(oSettings) /\ Begun(oSettings)
        /\ (oSettings.f.bServerSide => Answered(oSettings, edits))
    BY <2>2, StartAsks
  <2> QED BY <2>3, <2>4 DEF AskInv
<1> QED BY <1>1, <1>2, InitPage, NextPage, NextAsks, PTL DEF Spec

-----------------------------------------------------------------------------
(***************************************************************************)
(* The entries of a sequence that are in a set.                            *)
(***************************************************************************)
Kept(seq, K) == ItemsAt(seq, {k \in DOMAIN seq : seq[k] \in K})

LEMMA KeptKept ==
  ASSUME NEW S, NEW seq \in Seq(S), NEW K, NEW L
  PROVE  Kept(Kept(seq, K), L) = Kept(seq, K \cap L)
<1> DEFINE P == {k \in DOMAIN seq : seq[k] \in K}
           R == {k \in DOMAIN seq : seq[k] \in L}
           y == Kept(seq, K)
           Q == {k \in DOMAIN y : y[k] \in L}
<1>1. y = ItemsAt(seq, P) /\ P \in SUBSET DOMAIN seq /\ R \in SUBSET DOMAIN seq
  BY DEF Kept
<1>2. P \cap R = {k \in DOMAIN seq : seq[k] \in K \cap L}
  OBVIOUS
<1>3. Kept(y, L) = ItemsAt(y, Q)
  BY DEF Kept
<1>4. \A k \in DOMAIN seq : k \in R <=> seq[k] \in L
  OBVIOUS
<1> HIDE DEF P, R, y
<1>5. Selects(y, seq, P)
  BY <1>1, ItemsSelected
<1>6. \A k \in DOMAIN y : y[k] = seq[Place(P, k)] /\ Place(P, k) \in DOMAIN seq
  BY <1>1, <1>5 DEF Selects, Increasing
<1>7. Q \in SUBSET DOMAIN y /\ Chosen(y, Q, P, R)
  BY <1>4, <1>6 DEF Chosen
<1> HIDE DEF Q
<1>8. ItemsAt(y, Q) = ItemsAt(seq, P \cap R)
  BY <1>1, <1>7, FilteredTwice
<1> QED BY <1>2, <1>3, <1>8 DEF Kept, y

(* The entries kept, given by their places.                                *)
Lists(seq, K, m, e) ==
  /\ \A k, l \in 1 .. m : k < l => e[k] < e[l]
  /\ \A k \in 1 .. m : seq[e[k]] \in K
  /\ \A i \in DOMAIN seq : seq[i] \in K => \E k \in 1 .. m : e[k] = i

EntriesAt(seq, m, e) == [k \in 1 .. m |-> seq[e[k]]]

LEMMA KeptEquals ==
  ASSUME NEW S, NEW seq \in Seq(S), NEW K, NEW m \in Nat, NEW e \in [1 .. m -> DOMAIN seq],
         Lists(seq, K, m, e)
  PROVE  Kept(seq, K) = EntriesAt(seq, m, e)
<1> DEFINE n == Len(seq)
           P == {k \in DOMAIN seq : seq[k] \in K}
<1>1. n \in Nat /\ DOMAIN seq = 1 .. n
  OBVIOUS
<1>2. P \in SUBSET (1 .. n) /\ \A i \in P : \E k \in 1 .. m : e[k] = i
  BY <1>1 DEF Lists
<1>3. e \in [1 .. m -> P]
  <2>1. \A k \in 1 .. m : e[k] \in DOMAIN seq
    OBVIOUS
  <2>2. \A k \in 1 .. m : e[k] \in P
    BY <2>1 DEF Lists
  <2>3. e = [k \in 1 .. m |-> e[k]]
    OBVIOUS
  <2> HIDE DEF P
  <2> QED BY <2>2, <2>3
<1>4. Kept(seq, K) = ItemsAt(seq, P)
  BY DEF Kept
<1> HIDE DEF P, n
<1>5. Cardinality(P) = m /\ \A k \in 1 .. m : Place(P, k) = e[k]
  <2>1. n \in Nat /\ P \in SUBSET (1 .. n)
    BY <1>1, <1>2
  <2>2. m \in Nat /\ \A i \in P : \E k \in 1 .. m : e[k] = i
    BY <1>2
  <2>3. \A k, l \in 1 .. m : k < l => e[k] < e[l]
    BY DEF Lists
  <2> QED BY <1>3, <2>1, <2>2, <2>3, PlaceIs, Zenon
<1> QED BY <1>4, <1>5 DEF ItemsAt, EntriesAt

LEMMA KeptAll ==
  ASSUME NEW S, NEW seq \in Seq(S), NEW K, \A k \in DOMAIN seq : seq[k] \in K
  PROVE  Kept(seq, K) = seq
<1> DEFINE n == Len(seq)
           e == [k \in 1 .. n |-> k]
<1>1. n \in Nat /\ DOMAIN seq = 1 .. n
  OBVIOUS
<1>2. seq = [k \in 1 .. n |-> seq[k]]
  OBVIOUS
<1>3. e \in [1 .. n -> DOMAIN seq] /\ \A k \in 1 .. n : e[k] = k
  OBVIOUS
<1> HIDE DEF n, e
<1>4. \A k, l \in 1 .. n : k < l => e[k] < e[l]
  BY <1>3
<1>5. \A k \in 1 .. n : seq[e[k]] \in K
  BY <1>1, <1>3
<1>6. \A i \in DOMAIN seq : seq[i] \in K => \E k \in 1 .. n : e[k] = i
  BY <1>1, <1>3
<1>7. Kept(seq, K) = EntriesAt(seq, n, e)
  <2>1. Lists(seq, K, n, e)
    BY <1>4, <1>5, <1>6 DEF Lists
  <2> QED BY <1>1, <1>3, <2>1, KeptEquals, Zenon
<1> QED BY <1>2, <1>3, <1>7 DEF EntriesAt

LEMMA KeptSame ==
  ASSUME NEW seq, NEW K, NEW L, \A k \in DOMAIN seq : seq[k] \in K <=> seq[k] \in L
  PROVE  Kept(seq, K) = Kept(seq, L)
<1>1. {k \in DOMAIN seq : seq[k] \in K} = {k \in DOMAIN seq : seq[k] \in L}
  OBVIOUS
<1> QED BY <1>1 DEF Kept

(* What is kept is what it was kept by, and comes in the same order.       *)
LEMMA KeptIs ==
  ASSUME NEW S, NEW seq \in Seq(S), NEW K
  PROVE  LET y == Kept(seq, K)
         IN /\ y \in Seq(S)
            /\ \A k \in DOMAIN y : y[k] \in K
            /\ \A i \in DOMAIN seq : seq[i] \in K => \E k \in DOMAIN y : y[k] = seq[i]
            /\ \A k, l \in DOMAIN y :
                 k < l => \E i, j \in DOMAIN seq : i < j /\ y[k] = seq[i] /\ y[l] = seq[j]
            /\ Len(y) <= Len(seq)
<1> DEFINE P == {k \in DOMAIN seq : seq[k] \in K}
           y == Kept(seq, K)
           c == Cardinality(P)
<1>1. y = ItemsAt(seq, P) /\ P \in SUBSET DOMAIN seq /\ \A k \in P : seq[k] \in K
  BY DEF Kept
<1>2. \A i \in DOMAIN seq : seq[i] \in K => i \in P
  OBVIOUS
<1> HIDE DEF P, y
<1>3. y \in Seq(S) /\ Selects(y, seq, P)
  BY <1>1, ItemsSelected
<1>4. /\ c \in Nat /\ DOMAIN y = 1 .. c /\ Len(y) = c
      /\ \A k \in 1 .. c : Place(P, k) \in P /\ y[k] = seq[Place(P, k)]
      /\ \A k, l \in 1 .. c : k < l => Place(P, k) < Place(P, l)
      /\ \A i \in P : \E k \in 1 .. c : Place(P, k) = i
  BY <1>3 DEF Selects, Increasing
<1>5. c <= Len(seq)
  <2> DEFINE n == Len(seq)
             N == 1 .. n
  <2>1. n \in Nat /\ P \in SUBSET N
    BY <1>1
  <2> HIDE DEF n
  <2>2. n - 1 + 1 = n /\ (1 > n => n = 0) /\ n \in Int
    BY <2>1
  <2>3. IsFiniteSet(N) /\ Cardinality(N) = n
    BY <2>1, <2>2, FS_Interval
  <2> HIDE DEF N
  <2> QED BY <2>1, <2>3, FS_Subset DEF n
<1> HIDE DEF c
<1>6. \A k \in DOMAIN y : y[k] \in K
  BY <1>1, <1>4
<1>7. ASSUME NEW i \in DOMAIN seq, seq[i] \in K
      PROVE  \E k \in DOMAIN y : y[k] = seq[i]
  <2>1. PICK k \in 1 .. c : Place(P, k) = i
    BY <1>2, <1>4, <1>7
  <2> QED BY <1>4, <2>1
<1>8. ASSUME NEW k \in DOMAIN y, NEW l \in DOMAIN y, k < l
      PROVE  \E i, j \in DOMAIN seq : i < j /\ y[k] = seq[i] /\ y[l] = seq[j]
  <2>1. Place(P, k) \in DOMAIN seq /\ Place(P, l) \in DOMAIN seq /\ Place(P, k) < Place(P, l)
    BY <1>1, <1>4, <1>8
  <2> QED BY <1>4, <2>1
<1> QED BY <1>3, <1>4, <1>5, <1>6, <1>7, <1>8 DEF y

-----------------------------------------------------------------------------
(***************************************************************************)
(* What is displayed is the master searched: ListOK says so of a table     *)
(* that is not loose, and what keeps it so - that what was typed is of the *)
(* inputs, that asDataSearch has the texts displayed where a search may    *)
(* refine them, and that the master is sorted.                             *)
(***************************************************************************)
FoundRows(s) == {i \in DOMAIN s.aoData : Found(s, i)}

AcceptedRows(s, input) == {i \in DOMAIN s.aoData : Accepts(input, s.aoData[i].text)}

Phrases(input, column) == input \in Inputs \cup {<< >>} /\ column \in ColumnInputs \cup {<< >>}

Typed(s) ==
  /\ Phrases(s.sSearch, s.sColumn)
  /\ \A saved \in s.cookie : Phrases(saved.search, saved.column)

Exact(s) == s.aiDisplay = Kept(s.aiDisplayMaster, FoundRows(s))

Remembered(s) ==
  ~s.loose /\ ~s.stale /\ Len(s.aiDisplay) # Len(s.aiDisplayMaster)
    => s.asDataSearch = TextsAt(s, s.aiDisplay)

Sorted(s, seq) == \A i, j \in DOMAIN seq : i < j => ~Before(s, seq[j], seq[i])

MasterSorted(s) ==
  s.f.bSort /\ s.aaSorting # "none" /\ ~s.unsorted => Sorted(s, s.aiDisplayMaster)

Listed(s) == (~s.loose => Exact(s)) /\ Remembered(s)

ListOK(s) == Typed(s) /\ (~s.f.bServerSide => Listed(s) /\ MasterSorted(s))

(* What a search may refine: what is displayed has all that is found.      *)
Covered(s) == \E A : s.aiDisplay = Kept(s.aiDisplayMaster, A) /\ FoundRows(s) \subseteq A

Refinable(s) ==
  ~s.loose /\ ~s.stale /\ Len(s.aiDisplay) # Len(s.aiDisplayMaster)
    => s.asDataSearch = TextsAt(s, s.aiDisplay) /\ Covered(s)

LEMMA RowsAre ==
  ASSUME NEW s, Base(s)
  PROVE  /\ IsSettings(s) /\ Len(s.aoData) \in Nat /\ DOMAIN s.aoData = 1 .. Len(s.aoData)
         /\ \A i \in DOMAIN s.aoData : s.aoData[i].text \in CellTexts
         /\ s.aiDisplayMaster \in Seq(DOMAIN s.aoData)
         /\ s.aiDisplay \in Seq(DOMAIN s.aoData)
<1>1. s.aoData \in Seq(RowType)
  BY DEF Base, RowsValid, RowsOK
<1>2. \A i \in DOMAIN s.aoData : s.aoData[i] \in RowType
  BY <1>1
<1>3. /\ s.aiDisplayMaster \in Seq(1 .. Len(s.aoData)) /\ s.aiDisplay \in Seq(1 .. Len(s.aoData))
      /\ IsSettings(s)
  BY DEF Base, RowsValid, Indexes
<1>4. Len(s.aoData) \in Nat /\ DOMAIN s.aoData = 1 .. Len(s.aoData)
  BY <1>1
<1> QED BY <1>2, <1>3, <1>4 DEF RowType

LEMMA ListedRefinable ==
  ASSUME NEW s, Listed(s)
  PROVE  Refinable(s)
BY DEF Listed, Exact, Remembered, Refinable, Covered

LEMMA AcceptedIs ==
  ASSUME NEW s, NEW seq \in Seq(DOMAIN s.aoData), NEW input
  PROVE  Accepted(s, seq, input) = Kept(seq, AcceptedRows(s, input))
<1>1. \A k \in DOMAIN seq : seq[k] \in DOMAIN s.aoData
  OBVIOUS
<1>2. {k \in DOMAIN seq : Accepts(input, s.aoData[seq[k]].text)}
        = {k \in DOMAIN seq : seq[k] \in AcceptedRows(s, input)}
  BY <1>1 DEF AcceptedRows
<1> QED BY <1>2 DEF Accepted, Kept

LEMMA RefinedIs ==
  ASSUME NEW s, s.aiDisplay \in Seq(DOMAIN s.aoData), NEW input,
         s.asDataSearch = TextsAt(s, s.aiDisplay)
  PROVE  Refined(s, input) = Kept(s.aiDisplay, AcceptedRows(s, input))
<1> DEFINE y == s.aiDisplay
<1>1. \A k \in DOMAIN y : y[k] \in DOMAIN s.aoData
  OBVIOUS
<1>2. /\ DOMAIN s.asDataSearch = DOMAIN y
      /\ \A k \in DOMAIN y : s.asDataSearch[k] = s.aoData[y[k]].text
  BY DEF TextsAt
<1>3. {k \in DOMAIN y : k \in DOMAIN s.asDataSearch => Accepts(input, s.asDataSearch[k])}
        = {k \in DOMAIN y : y[k] \in AcceptedRows(s, input)}
  BY <1>1, <1>2 DEF AcceptedRows
<1> QED BY <1>3 DEF Refined, Kept

LEMMA AcceptsAll ==
  ASSUME NEW s, Base(s)
  PROVE  AcceptedRows(s, << >>) = DOMAIN s.aoData
BY RowsAre, AcceptsAssumption DEF AcceptedRows

LEMMA AcceptsMore ==
  ASSUME NEW s, Base(s), NEW input \in Inputs \cup {<< >>}, NEW longer \in Inputs \cup {<< >>},
         IsPrefix(input, longer), longer # << >>
  PROVE  AcceptedRows(s, longer) \subseteq AcceptedRows(s, input)
<1>1. CASE input = << >>
  BY <1>1, AcceptsAll DEF AcceptedRows
<1>2. CASE input # << >>
  <2>1. input \in Inputs /\ longer \in Inputs
    BY <1>2
  <2> QED BY <2>1, RowsAre, AcceptsAssumption DEF AcceptedRows
<1> QED BY <1>1, <1>2

(* The display that _fnFilter leaves, in the master.                       *)
LEMMA FilterKeeps ==
  ASSUME NEW s, Base(s), s.f.bFilter, Phrases(s.sSearch, s.sColumn),
         NEW input \in Inputs \cup {<< >>}, NEW force \in BOOLEAN, force \/ Refinable(s),
         ~Filter(s, input, force).loose
  PROVE  \E G : /\ Filter(s, input, force).aiDisplay = Kept(s.aiDisplayMaster, G)
                /\ G \subseteq AcceptedRows(s, input)
                /\ AcceptedRows(s, input) \cap AcceptedRows(s, s.sColumn) \subseteq G
<1> DEFINE t == Filter(s, input, force)
           Acc == AcceptedRows(s, input)
           Col == AcceptedRows(s, s.sColumn)
           m == s.aiDisplayMaster
<1>1. DOMAIN s = Fields
  BY DEF Base, IsSettings
<1>2. m \in Seq(DOMAIN s.aoData) /\ s.aiDisplay \in Seq(DOMAIN s.aoData)
  BY RowsAre
<1>3. CASE input = << >>
  <2>1. t.aiDisplay = m
    BY <1>1, <1>3 DEF Filter, Fields
  <2>2. Acc = DOMAIN s.aoData
    BY <1>3, AcceptsAll
  <2>3. \A k \in DOMAIN m : m[k] \in Acc
    BY <1>2, <2>2
  <2>4. Kept(m, Acc) = m
    BY <1>2, <2>3, KeptAll
  <2> QED BY <2>1, <2>4
<1>4. CASE input # << >> /\ ~force /\ Refines(s, input)
  <2>1. t = [s EXCEPT !.aiDisplay = Refined(s, input), !.loose = s.loose \/ s.stale]
    BY <1>4 DEF Filter
  <2>2. t.aiDisplay = Refined(s, input) /\ ~s.loose /\ ~s.stale
    <3>1. t.aiDisplay = Refined(s, input) /\ t.loose = (s.loose \/ s.stale)
      BY <1>1, <2>1 DEF Fields
    <3>2. ~t.loose
      OBVIOUS
    <3> HIDE DEF t
    <3> QED BY <3>1, <3>2
  <2>3. IsPrefix(s.sSearch, input) /\ Len(s.aiDisplay) # Len(m)
    BY <1>4 DEF Refines
  <2>4. s.asDataSearch = TextsAt(s, s.aiDisplay) /\ Covered(s)
    BY <1>4, <2>2, <2>3 DEF Refinable
  <2>5. PICK A : s.aiDisplay = Kept(m, A) /\ FoundRows(s) \subseteq A
    BY <2>4 DEF Covered
  <2>6. t.aiDisplay = Kept(s.aiDisplay, Acc)
    BY <1>2, <2>2, <2>4, RefinedIs
  <2>7. Kept(Kept(m, A), Acc) = Kept(m, A \cap Acc)
    BY <1>2, KeptKept
  <2>8. Acc \subseteq AcceptedRows(s, s.sSearch)
    <3>1. s.sSearch \in Inputs \cup {<< >>}
      BY DEF Phrases
    <3> QED BY <1>4, <2>3, <3>1, AcceptsMore
  <2>9. AcceptedRows(s, s.sSearch) \cap Col = FoundRows(s)
    BY DEF AcceptedRows, FoundRows, Found
  <2>10. t.aiDisplay = Kept(m, A \cap Acc) /\ Acc \cap Col \subseteq A \cap Acc
    BY <2>5, <2>6, <2>7, <2>8, <2>9
  <2> QED BY <2>10
<1>5. CASE input # << >> /\ ~(~force /\ Refines(s, input))
  <2>1. t.aiDisplay = Accepted(s, m, input)
    BY <1>1, <1>5 DEF Filter, Fields
  <2>2. t.aiDisplay = Kept(m, Acc)
    BY <1>2, <2>1, AcceptedIs
  <2> QED BY <2>2
<1> QED BY <1>3, <1>4, <1>5

(* The same list, of rows that differ in their trs only.                   *)
ListFields ==
  {"f", "aiDisplay", "aiDisplayMaster", "sSearch", "sColumn", "aaSorting", "asDataSearch",
   "loose", "unsorted", "stale"}

SameRows(s, r) ==
  /\ r.f = s.f /\ r.aaSorting = s.aaSorting /\ r.sSearch = s.sSearch /\ r.sColumn = s.sColumn
  /\ DOMAIN r.aoData = DOMAIN s.aoData
  /\ \A i \in DOMAIN s.aoData : r.aoData[i].text = s.aoData[i].text

SameList(s, r) ==
  SameRows(s, r) /\ \A x \in ListFields : r[x] = s[x]

LEMMA SameRowsFound ==
  ASSUME NEW s, NEW r, SameRows(s, r)
  PROVE  /\ FoundRows(r) = FoundRows(s)
         /\ \A a, b \in DOMAIN s.aoData : Before(r, a, b) <=> Before(s, a, b)
         /\ \A seq \in Seq(DOMAIN s.aoData) :
              TextsAt(r, seq) = TextsAt(s, seq) /\ (Sorted(s, seq) => Sorted(r, seq))
<1>1. \A i \in DOMAIN s.aoData : Found(r, i) <=> Found(s, i)
  BY DEF SameRows, Found
<1>2. FoundRows(r) = FoundRows(s)
  BY <1>1 DEF FoundRows, SameRows
<1>3. \A a, b \in DOMAIN s.aoData : Before(r, a, b) <=> Before(s, a, b)
  BY DEF SameRows, Before
<1>4. ASSUME NEW seq \in Seq(DOMAIN s.aoData)
      PROVE  TextsAt(r, seq) = TextsAt(s, seq) /\ (Sorted(s, seq) => Sorted(r, seq))
  <2>1. \A k \in DOMAIN seq : seq[k] \in DOMAIN s.aoData
    OBVIOUS
  <2>2. TextsAt(r, seq) = TextsAt(s, seq)
    BY <2>1 DEF TextsAt, SameRows
  <2>3. Sorted(s, seq) => Sorted(r, seq)
    BY <1>3, <2>1 DEF Sorted
  <2> QED BY <2>2, <2>3
<1> QED BY <1>2, <1>3, <1>4

LEMMA SameListOK ==
  ASSUME NEW s, Base(s), NEW r, SameList(s, r), ListOK(s),
         \A saved \in r.cookie : Phrases(saved.search, saved.column)
  PROVE  ListOK(r)
<1>1. /\ r.f = s.f /\ r.aiDisplay = s.aiDisplay /\ r.aiDisplayMaster = s.aiDisplayMaster
      /\ r.sSearch = s.sSearch /\ r.sColumn = s.sColumn /\ r.aaSorting = s.aaSorting
      /\ r.asDataSearch = s.asDataSearch /\ r.loose = s.loose /\ r.unsorted = s.unsorted
      /\ r.stale = s.stale
  BY DEF SameList, ListFields
<1>2. s.aiDisplay \in Seq(DOMAIN s.aoData) /\ s.aiDisplayMaster \in Seq(DOMAIN s.aoData)
  BY RowsAre
<1>3. /\ FoundRows(r) = FoundRows(s) /\ TextsAt(r, s.aiDisplay) = TextsAt(s, s.aiDisplay)
      /\ Sorted(s, s.aiDisplayMaster) => Sorted(r, s.aiDisplayMaster)
  BY <1>2, SameRowsFound DEF SameList
<1>4. Typed(r)
  BY <1>1 DEF ListOK, Typed
<1>5. ASSUME ~s.f.bServerSide
      PROVE  Listed(r) /\ MasterSorted(r)
  <2>1. Listed(s) /\ MasterSorted(s)
    BY <1>5 DEF ListOK
  <2> QED BY <1>1, <1>3, <2>1 DEF Listed, Exact, Remembered, MasterSorted
<1> QED BY <1>1, <1>4, <1>5 DEF ListOK

(* Drawing leaves the list, and saves what was typed.                      *)
LEMMA InsertRowsTyped ==
  ASSUME NEW s, IsSettings(s), Typed(s)
  PROVE  Typed(InsertRows(s))
<1> DEFINE t == [s EXCEPT !.body = BodyOf(s)]
           u == CreateTrs(t, ToSet(Page(s)))
           r == InsertRows(s)
<1>1. Leaves(s, t, {"body"})
  BY DEF Leaves, IsSettings
<1>2. r = s \/ r = SaveState(u)
  BY DEF InsertRows
<1> HIDE DEF t, r
<1>3. Leaves(t, u, {"aoData"})
  BY <1>1, CreateTrsLeaves DEF Leaves
<1> HIDE DEF u
<1>4. Leaves(u, SaveState(u), {"cookie"})
  BY <1>3, SaveStateLeaves DEF Leaves
<1>5. /\ u.sSearch = s.sSearch /\ u.sColumn = s.sColumn /\ u.cookie = s.cookie
      /\ SaveState(u).sSearch = s.sSearch /\ SaveState(u).sColumn = s.sColumn
  BY <1>1, <1>3, <1>4 DEF Leaves, Fields
<1>6. SavedState(u).search = s.sSearch /\ SavedState(u).column = s.sColumn
  BY <1>5 DEF SavedState
<1>7. SaveState(u).cookie = s.cookie \/ SaveState(u).cookie = {SavedState(u)}
  BY <1>4, <1>5 DEF SaveState, Leaves, IsSettings, Fields
<1>8. Typed(SaveState(u))
  BY <1>5, <1>6, <1>7 DEF Typed
<1> QED BY <1>2, <1>8 DEF r

LEMMA InsertRowsSame ==
  ASSUME NEW s, IsSettings(s), RowsOK(s.aoData)
  PROVE  /\ SameList(s, InsertRows(s))
         /\ Typed(s) => Typed(InsertRows(s))
<1> DEFINE t == [s EXCEPT !.body = BodyOf(s)]
           u == CreateTrs(t, ToSet(Page(s)))
           r == InsertRows(s)
<1>1. Leaves(s, t, {"body"})
  BY DEF Leaves, IsSettings
<1>2. r = s \/ r = SaveState(u)
  BY DEF InsertRows
<1>3. Typed(s) => Typed(r)
  BY InsertRowsTyped
<1> HIDE DEF t, r
<1>4. IsSettings(t) /\ t.aoData = s.aoData
  BY <1>1 DEF Leaves, Fields
<1>5. Leaves(t, u, {"aoData"}) /\ SameCells(s.aoData, u.aoData) /\ RowsOK(u.aoData)
  BY <1>4, CreateTrsLeaves, CreateTrsKeeps
<1> HIDE DEF u
<1>6. Leaves(u, SaveState(u), {"cookie"})
  BY <1>5, SaveStateLeaves DEF Leaves
<1>7. r = s \/ (Leaves(s, r, {"body", "aoData", "cookie"}) /\ r.aoData = u.aoData)
  BY <1>1, <1>2, <1>5, <1>6 DEF Leaves, Fields
<1>8. /\ DOMAIN u.aoData = DOMAIN s.aoData
      /\ \A i \in DOMAIN s.aoData : u.aoData[i].text = s.aoData[i].text
  <2>1. DOMAIN s.aoData = 1 .. Len(s.aoData) /\ DOMAIN u.aoData = 1 .. Len(u.aoData)
    BY <1>5 DEF RowsOK
  <2> QED BY <1>5, <2>1 DEF SameCells
<1>9. ASSUME Leaves(s, r, {"body", "aoData", "cookie"}), r.aoData = u.aoData
      PROVE  SameList(s, r)
  <2>1. \A x \in ListFields : r[x] = s[x]
    BY <1>9 DEF Leaves, Fields, ListFields
  <2>2. r.f = s.f /\ r.aaSorting = s.aaSorting /\ r.sSearch = s.sSearch /\ r.sColumn = s.sColumn
    BY <2>1 DEF ListFields
  <2> QED BY <1>8, <1>9, <2>1, <2>2 DEF SameList, SameRows
<1>10. SameList(s, r)
  BY <1>7, <1>9 DEF SameList, SameRows
<1> QED BY <1>3, <1>10 DEF r

LEMMA LeavesSame ==
  ASSUME NEW s, NEW r, Leaves(s, r, Fields \ (ListFields \cup {"aoData", "cookie"}))
  PROVE  SameList(s, r) /\ (Typed(s) => Typed(r)) /\ r.cookie = s.cookie
<1>1. \A x \in ListFields \cup {"aoData", "cookie"} : r[x] = s[x]
  BY DEF Leaves, Fields, ListFields
<1>2. /\ r.f = s.f /\ r.aaSorting = s.aaSorting /\ r.sSearch = s.sSearch /\ r.sColumn = s.sColumn
      /\ r.aoData = s.aoData /\ r.cookie = s.cookie
  BY <1>1 DEF ListFields
<1> QED BY <1>1, <1>2 DEF SameList, SameRows, Typed

LEMMA SameListTwice ==
  ASSUME NEW s, NEW t, NEW u, SameList(s, t), SameList(t, u)
  PROVE  SameList(s, u)
BY DEF SameList, SameRows

LEMMA DrawSame ==
  ASSUME NEW s, IsSettings(s), RowsOK(s.aoData)
  PROVE  SameList(s, Draw(s)) /\ (Typed(s) => Typed(Draw(s)))
<1> DEFINE t == TakeInitStart(s)
<1>1. Leaves(s, t, {"start", "initStart", "end"})
  BY TakeInitStartLeaves
<1>2. Draw(s) = IF s.f.bServerSide THEN AjaxUpdate(t) ELSE InsertRows(t)
  BY DEF Draw
<1> HIDE DEF t
<1>3. SameList(s, t) /\ (Typed(s) => Typed(t))
  <2>1. Leaves(s, t, Fields \ (ListFields \cup {"aoData", "cookie"}))
    BY <1>1 DEF Leaves, Fields, ListFields
  <2> QED BY <2>1, LeavesSame
<1>4. SameList(t, InsertRows(t)) /\ (Typed(t) => Typed(InsertRows(t)))
  <2>1. IsSettings(t) /\ t.aoData = s.aoData
    BY <1>1 DEF Leaves, Fields
  <2> QED BY <2>1, InsertRowsSame
<1>5. SameList(t, AjaxUpdate(t)) /\ (Typed(t) => Typed(AjaxUpdate(t)))
  <2>1. Leaves(t, AjaxUpdate(t), {"iDraw", "requests"})
    BY <1>1, AjaxUpdateLeaves DEF Leaves
  <2>2. Leaves(t, AjaxUpdate(t), Fields \ (ListFields \cup {"aoData", "cookie"}))
    BY <2>1 DEF Leaves, Fields, ListFields
  <2> QED BY <2>2, LeavesSame
<1> QED BY <1>2, <1>3, <1>4, <1>5, SameListTwice

(* Another page of the same list.                                          *)
LEMMA PageShows ==
  ASSUME NEW s, Base(s), NEW r, Leaves(s, r, {"start", "initStart", "end", "length", "adrift"})
  PROVE  /\ SameList(s, r) /\ SameList(s, Draw(r)) /\ (Typed(s) => Typed(r) /\ Typed(Draw(r)))
         /\ ListOK(s) => ListOK(r) /\ ListOK(Draw(r))
<1>1. SameList(s, r) /\ (Typed(s) => Typed(r))
  <2>1. Leaves(s, r, Fields \ (ListFields \cup {"aoData", "cookie"}))
    BY DEF Leaves, Fields, ListFields
  <2> QED BY <2>1, LeavesSame
<1>2. IsSettings(r) /\ r.aoData = s.aoData /\ RowsOK(s.aoData)
  BY DEF Leaves, Fields, Base, RowsValid
<1>3. SameList(r, Draw(r)) /\ (Typed(r) => Typed(Draw(r)))
  BY <1>2, DrawSame
<1>4. SameList(s, Draw(r))
  BY <1>1, <1>3, SameListTwice
<1>5. ASSUME ListOK(s)
      PROVE  ListOK(r) /\ ListOK(Draw(r))
  <2>1. Typed(r) /\ Typed(Draw(r))
    BY <1>1, <1>3, <1>5 DEF ListOK
  <2> QED BY <1>1, <1>4, <1>5, <2>1, SameListOK DEF Typed
<1> QED BY <1>1, <1>3, <1>4, <1>5

LEMMA DrawnAgain ==
  ASSUME NEW s, Base(s)
  PROVE  /\ SameList(s, Draw(CalculateEnd(s)))
         /\ Typed(s) => Typed(Draw(CalculateEnd(s)))
         /\ ListOK(s) => ListOK(Draw(CalculateEnd(s)))
<1> DEFINE t == CalculateEnd(s)
<1>1. Leaves(s, t, {"end"})
  BY CalculateEndLeaves DEF Base
<1> HIDE DEF t
<1>2. Leaves(s, t, {"start", "initStart", "end", "length", "adrift"})
  BY <1>1 DEF Leaves
<1>3. /\ SameList(s, Draw(t)) /\ (Typed(s) => Typed(Draw(t))) /\ (ListOK(s) => ListOK(Draw(t)))
  BY <1>2, PageShows
<1> QED BY <1>3 DEF t

(***************************************************************************)
(* Searching and sorting anew.                                             *)
(***************************************************************************)
LEMMA FilteredExact ==
  ASSUME NEW s, Base(s), s.f.bFilter, ~s.f.bServerSide, Phrases(s.sSearch, s.sColumn),
         NEW input \in Inputs \cup {<< >>}, NEW force \in BOOLEAN, force \/ Refinable(s),
         ~Filtered(s, input, force).loose
  PROVE  Exact(Filtered(s, input, force))
<1> DEFINE t == Filter(s, input, force)
           u == FilterColumn(t)
           r == Filtered(s, input, force)
           m == s.aiDisplayMaster
           Acc == AcceptedRows(s, input)
           Col == AcceptedRows(s, s.sColumn)
<1>1. IsSettings(s) /\ m \in Seq(DOMAIN s.aoData)
  BY RowsAre
<1>2. Leaves(s, t, {"aiDisplay", "loose"})
  BY <1>1, FilterLeaves
<1>3. Leaves(t, u, {"aiDisplay"})
  BY <1>2, FilterColumnLeaves DEF Leaves
<1>4. r = [u EXCEPT !.sSearch = input, !.start = 0, !.adrift = FALSE]
  BY DEF Filtered
<1> HIDE DEF r
<1>5. /\ t.aoData = s.aoData /\ t.sColumn = s.sColumn /\ u.loose = t.loose
      /\ IsSettings(t) /\ IsSettings(u)
  BY <1>2, <1>3 DEF Leaves, Fields
<1>6. Leaves(s, r, {"aiDisplay", "loose", "sSearch", "start", "adrift"})
  BY <1>1, FilteredLeaves DEF r
<1>7. /\ r.aoData = s.aoData /\ r.sColumn = s.sColumn /\ r.f = s.f /\ r.aiDisplayMaster = m
  BY <1>6 DEF Leaves, Fields
<1>8. r.sSearch = input /\ r.aiDisplay = u.aiDisplay /\ r.loose = u.loose
  <2> HIDE DEF u
  <2> QED BY <1>4, <1>5 DEF IsSettings, Fields
<1>9. PICK G : /\ t.aiDisplay = Kept(m, G) /\ G \subseteq Acc /\ Acc \cap Col \subseteq G
  <2>1. ~t.loose
    BY <1>5, <1>8 DEF r
  <2> QED BY <2>1, FilterKeeps
<1>10. FoundRows(r) = Acc \cap Col
  BY <1>7, <1>8 DEF FoundRows, Found, AcceptedRows
<1>11. t.aiDisplay \in Seq(DOMAIN s.aoData)
  <2>1. DOMAIN s.aoData = 1 .. Len(s.aoData)
    BY RowsAre
  <2> QED BY <2>1, FilterIndexes DEF Indexes
<1>12. u.aiDisplay = Kept(m, G \cap Col)
  <2>1. CASE s.sColumn = << >>
    <3>1. u = t
      BY <1>5, <2>1 DEF FilterColumn
    <3>2. Col = DOMAIN s.aoData
      BY <2>1, AcceptsAll
    <3>3. G \subseteq DOMAIN s.aoData
      BY <1>9 DEF AcceptedRows
    <3>4. G \cap Col = G
      BY <3>2, <3>3
    <3> HIDE DEF u, t, Col
    <3> QED BY <1>9, <3>1, <3>4
  <2>2. CASE s.sColumn # << >>
    <3>1. u.aiDisplay = Accepted(t, t.aiDisplay, s.sColumn)
      <4> HIDE DEF t
      <4> QED BY <1>5, <2>2 DEF FilterColumn, IsSettings, Fields
    <3>2. AcceptedRows(t, s.sColumn) = Col
      BY <1>5 DEF AcceptedRows
    <3>3. Accepted(t, t.aiDisplay, s.sColumn) = Kept(t.aiDisplay, Col)
      <4> HIDE DEF t, Col
      <4> QED BY <1>5, <1>11, <3>2, AcceptedIs
    <3>4. Kept(Kept(m, G), Col) = Kept(m, G \cap Col)
      BY <1>1, KeptKept
    <3> HIDE DEF t, Col
    <3> QED BY <1>9, <3>1, <3>3, <3>4
  <2> QED BY <2>1, <2>2
<1>13. G \cap Col = Acc \cap Col
  BY <1>9
<1> HIDE DEF t, u, Acc, Col, m
<1>14. Exact(r)
  BY <1>7, <1>8, <1>10, <1>12, <1>13 DEF Exact
<1> QED BY <1>14 DEF r

LEMMA FilterCompleteShows ==
  ASSUME NEW s, Base(s), s.f.bFilter, Typed(s), NEW input \in Inputs \cup {<< >>},
         NEW force \in BOOLEAN,
         ~s.f.bServerSide => (force \/ Refinable(s)) /\ MasterSorted(s)
  PROVE  ListOK(FilterComplete(s, input, force))
<1> DEFINE t == Filtered(s, input, force)
           u == Draw(CalculateEnd(t))
           r == BuildSearchArray(u)
<1>1. Base(t) /\ Started(t)
  BY FilteredGood
<1>2. Leaves(s, t, {"aiDisplay", "loose", "sSearch", "start", "adrift"})
  BY FilteredLeaves DEF Base
<1>3. SameList(t, u) /\ (Typed(t) => Typed(u)) /\ IsSettings(u)
  <2>1. Good(u)
    BY <1>1, DrawAnew
  <2> QED BY <1>1, <2>1, DrawnAgain DEF Good, Base
<1>4. FilterComplete(s, input, force) = r
  BY FilterCompleteIs
<1>5. t.sSearch = input
  <2> DEFINE v == IF s.f.bServerSide THEN s ELSE FilterColumn(Filter(s, input, force))
  <2>1. IsSettings(v)
    <3>1. IsSettings(s) /\ Leaves(s, Filter(s, input, force), {"aiDisplay", "loose"})
      BY FilterLeaves DEF Base
    <3>2. IsSettings(FilterColumn(Filter(s, input, force)))
      BY <3>1, FilterColumnLeaves DEF Leaves
    <3> QED BY <3>1, <3>2
  <2>2. t = [v EXCEPT !.sSearch = input, !.start = 0, !.adrift = FALSE]
    BY DEF Filtered
  <2> HIDE DEF v, t
  <2> QED BY <2>1, <2>2 DEF IsSettings, Fields
<1>6. ~s.f.bServerSide /\ ~t.loose => Exact(t)
  BY FilteredExact DEF Typed
<1> HIDE DEF t, u, r
<1>7. /\ t.f = s.f /\ t.sColumn = s.sColumn /\ t.cookie = s.cookie /\ t.aoData = s.aoData
      /\ t.aiDisplayMaster = s.aiDisplayMaster /\ t.aaSorting = s.aaSorting
      /\ t.unsorted = s.unsorted
  BY <1>2 DEF Leaves, Fields
<1>8. Typed(t)
  BY <1>5, <1>7 DEF Typed, Phrases
<1>9. Leaves(u, r, {"asDataSearch", "stale"})
  BY <1>3, BuildSearchArrayLeaves DEF r
<1>10. /\ r.f = t.f /\ r.sSearch = t.sSearch /\ r.sColumn = t.sColumn /\ r.aaSorting = t.aaSorting
       /\ r.aiDisplay = t.aiDisplay /\ r.aiDisplayMaster = t.aiDisplayMaster
       /\ r.loose = t.loose /\ r.unsorted = t.unsorted /\ r.cookie = u.cookie
       /\ r.aoData = u.aoData
  <2>1. /\ r.f = u.f /\ r.sSearch = u.sSearch /\ r.sColumn = u.sColumn /\ r.aaSorting = u.aaSorting
        /\ r.aiDisplay = u.aiDisplay /\ r.aiDisplayMaster = u.aiDisplayMaster
        /\ r.loose = u.loose /\ r.unsorted = u.unsorted /\ r.cookie = u.cookie
        /\ r.aoData = u.aoData
    BY <1>9 DEF Leaves, Fields
  <2> QED BY <1>3, <2>1 DEF SameList, ListFields
<1>11. Typed(r)
  BY <1>3, <1>8, <1>10 DEF Typed, SameList, SameRows
<1>12. SameRows(t, r)
  BY <1>3, <1>10 DEF SameList, SameRows
<1>13. ASSUME ~s.f.bServerSide
       PROVE  Listed(r) /\ MasterSorted(r)
  <2>1. t.aiDisplayMaster \in Seq(DOMAIN t.aoData)
    BY <1>1, RowsAre
  <2>2. /\ FoundRows(r) = FoundRows(t)
        /\ Sorted(t, t.aiDisplayMaster) => Sorted(r, t.aiDisplayMaster)
    BY <1>12, <2>1, SameRowsFound
  <2>3. ~r.loose => Exact(r)
    BY <1>6, <1>10, <1>13, <2>2 DEF Exact
  <2>4. r.asDataSearch = TextsAt(r, r.aiDisplay)
    <3>1. r.asDataSearch = TextsAt(u, u.aiDisplay)
      <4>1. ~u.f.bServerSide
        BY <1>3, <1>7, <1>13 DEF SameList, SameRows
      <4> QED BY <1>3, <4>1 DEF r, BuildSearchArray, IsSettings, Fields
    <3>2. r.aiDisplay = u.aiDisplay /\ r.aoData = u.aoData
      BY <1>9 DEF Leaves, Fields
    <3> QED BY <3>1, <3>2 DEF TextsAt
  <2>5. MasterSorted(t)
    <3>1. MasterSorted(s)
      BY <1>13
    <3> QED BY <1>7, <3>1 DEF MasterSorted, Sorted, Before
  <2>6. MasterSorted(r)
    BY <1>10, <2>2, <2>5 DEF MasterSorted
  <2> QED BY <2>3, <2>4, <2>6 DEF Listed, Remembered
<1>14. ListOK(r)
  BY <1>7, <1>10, <1>11, <1>13 DEF ListOK
<1> QED BY <1>4, <1>14

LEMMA SortedMasterSorted ==
  ASSUME NEW s, Base(s), ~s.f.bServerSide, s.aaSorting # "none"
  PROVE  Sorted(s, SortedMaster(s))
<1> DEFINE m == s.aiDisplayMaster
           P == DOMAIN m
           R == InOrder(s)
           N == Len(m)
<1>1. RowsValid(s) /\ m \in Seq(DOMAIN s.aoData) /\ N \in Nat /\ P = 1 .. N
  BY RowsAre DEF Base
<1>2. SortedMaster(s) = [n \in P |-> m[Nth(s, n)]]
  BY DEF SortedMaster
<1>3. Enumerated(P, R) /\ Cardinality(P) = N /\ \A n : Nth(s, n) = InTurn(P, R, n)
  BY <1>1, NthInTurn
<1>4. WeakOrder(s)
  BY <1>1, BeforeWeak DEF RowsValid
<1>5. \A k, l \in P : <<k, l>> \in R => Precedes(s, k, l)
  BY DEF InOrder
<1>6. \A k \in P : m[k] \in DOMAIN s.aoData
  BY <1>1
<1> HIDE DEF R, N
<1>7. ASSUME NEW i \in P, NEW j \in P, i < j
      PROVE  ~Before(s, m[Nth(s, j)], m[Nth(s, i)])
  <2>1. Nth(s, i) \in P /\ Nth(s, j) \in P /\ <<Nth(s, i), Nth(s, j)>> \in R
    BY <1>1, <1>3, <1>7 DEF Enumerated
  <2> DEFINE k == Nth(s, i)
             l == Nth(s, j)
  <2>2. k \in P /\ l \in P /\ Precedes(s, k, l)
    BY <1>5, <2>1
  <2> HIDE DEF k, l
  <2>3. Before(s, m[k], m[l]) \/ ~Before(s, m[l], m[k])
    BY <2>2 DEF Precedes
  <2>4. m[k] \in DOMAIN s.aoData /\ m[l] \in DOMAIN s.aoData
    BY <1>6, <2>2
  <2>5. ~(Before(s, m[k], m[l]) /\ Before(s, m[l], m[k]))
    BY <1>4, <2>4, Zenon DEF WeakOrder
  <2>6. ~Before(s, m[l], m[k])
    BY <2>3, <2>5
  <2> QED BY <2>6 DEF k, l
<1> DEFINE new == [n \in P |-> m[Nth(s, n)]]
<1>8. Sorted(s, new)
  <2>1. DOMAIN new = P /\ \A n \in P : new[n] = m[Nth(s, n)]
    OBVIOUS
  <2> HIDE DEF new, m, P
  <2> QED BY <1>7, <2>1 DEF Sorted
<1> QED BY <1>2, <1>8

LEMMA SortShows ==
  ASSUME NEW s, Base(s), Typed(s)
  PROVE  ListOK(Sort(s))
<1> DEFINE t == Ranked(s)
           u == Unfiltered(t)
<1>1. /\ Leaves(s, t, {"aiDisplayMaster", "unsorted"}) /\ t.aiDisplayMaster = SortedMaster(s)
  BY RankedLeaves DEF Base
<1>2. Sort(s) = AfterSort(t)
  BY DEF Sort, Ranked
<1> HIDE DEF t
<1>3. /\ t.f = s.f /\ t.sSearch = s.sSearch /\ t.sColumn = s.sColumn /\ t.cookie = s.cookie
      /\ t.aoData = s.aoData /\ t.aaSorting = s.aaSorting
      /\ t.start = s.start /\ t.initStart = s.initStart /\ t.end = s.end /\ t.length = s.length
      /\ t.aiDisplay = s.aiDisplay
  BY <1>1 DEF Leaves, Fields
<1>4. Base(t)
  <2>1. Leaves(s, t, Aside \cup {"aiDisplay", "aiDisplayMaster", "start", "initStart", "end", "length"})
    BY <1>1 DEF Leaves, Aside
  <2>2. Indexes(t.aiDisplayMaster, Len(s.aoData)) /\ ToSet(t.aiDisplayMaster) = ToSet(s.aiDisplayMaster)
    BY <1>1, SortedMasterIndexes DEF Base
  <2>3. /\ t.start \in Int /\ t.initStart \in Int /\ t.end \in Int /\ t.length \in PageLengths
        /\ Indexes(t.aiDisplay, Len(s.aoData))
    BY <1>3 DEF Base, Numbers, RowsValid
  <2> QED BY <2>1, <2>2, <2>3, BaseMoved
<1>5. Typed(t)
  BY <1>3 DEF Typed
<1>6. ~s.f.bServerSide => MasterSorted(t)
  <2>1. ~s.f.bServerSide /\ s.aaSorting # "none" => Sorted(s, t.aiDisplayMaster)
    BY <1>1, SortedMasterSorted
  <2> QED BY <1>3, <2>1 DEF MasterSorted, Sorted, Before
<1>7. CASE s.f.bFilter
  <2>1. AfterSort(t) = FilterComplete(t, t.sSearch, TRUE)
    BY <1>3, <1>7, AfterSortIs
  <2>2. t.sSearch \in Inputs \cup {<< >>}
    BY <1>5 DEF Typed, Phrases
  <2>3. ListOK(FilterComplete(t, t.sSearch, TRUE))
    BY <1>3, <1>4, <1>5, <1>6, <1>7, <2>2, FilterCompleteShows
  <2> QED BY <1>2, <2>1, <2>3
<1>8. CASE ~s.f.bFilter
  <2>1. AfterSort(t) = Draw(CalculateEnd(u))
    BY <1>3, <1>8, AfterSortIs
  <2>2. /\ Leaves(t, u, {"aiDisplay", "start", "adrift", "loose"})
    BY <1>4, UnfilteredLeaves DEF Base
  <2>3. u.start = 0 /\ u.aiDisplay = t.aiDisplayMaster /\ u.loose = FALSE
    BY <1>4 DEF Unfiltered, Base, IsSettings, Fields
  <2> HIDE DEF u
  <2>4. /\ u.initStart = t.initStart /\ u.end = t.end /\ u.length = t.length
        /\ u.aiDisplayMaster = t.aiDisplayMaster /\ u.f = t.f /\ u.sSearch = t.sSearch
        /\ u.sColumn = t.sColumn /\ u.cookie = t.cookie /\ u.aoData = t.aoData
        /\ u.aaSorting = t.aaSorting /\ u.unsorted = t.unsorted
    BY <2>2 DEF Leaves, Fields
  <2>5. Base(u)
    <3>1. Leaves(t, u, Aside \cup {"aiDisplay", "aiDisplayMaster", "start", "initStart", "end", "length"})
      BY <2>2 DEF Leaves, Aside
    <3>2. /\ u.start \in Int /\ u.initStart \in Int /\ u.end \in Int /\ u.length \in PageLengths
          /\ Indexes(u.aiDisplay, Len(t.aoData)) /\ Indexes(u.aiDisplayMaster, Len(t.aoData))
      BY <1>4, <2>3, <2>4 DEF Base, Numbers, RowsValid
    <3> QED BY <1>4, <2>4, <3>1, <3>2, BaseMoved
  <2>6. Started(u)
    BY <2>3 DEF Started
  <2>7. Exact(u)
    <3>1. FoundRows(u) = DOMAIN u.aoData
      BY <1>3, <1>8, <2>4 DEF FoundRows, Found
    <3>2. u.aiDisplayMaster \in Seq(DOMAIN u.aoData)
      BY <2>5, RowsAre
    <3>3. \A k \in DOMAIN u.aiDisplayMaster : u.aiDisplayMaster[k] \in FoundRows(u)
      BY <3>1, <3>2
    <3>4. Kept(u.aiDisplayMaster, FoundRows(u)) = u.aiDisplayMaster
      BY <3>2, <3>3, KeptAll
    <3> QED BY <2>3, <2>4, <3>4 DEF Exact
  <2>8. ListOK(u)
    <3>1. Typed(u)
      BY <1>5, <2>4 DEF Typed
    <3>2. Remembered(u)
      BY <2>3, <2>4 DEF Remembered
    <3>3. ~u.f.bServerSide => MasterSorted(u)
      BY <1>3, <1>6, <2>4 DEF MasterSorted, Sorted, Before
    <3> QED BY <2>7, <3>1, <3>2, <3>3 DEF ListOK, Listed
  <2>9. ListOK(Draw(CalculateEnd(u)))
    BY <2>5, <2>6, <2>8, DrawnAgain
  <2> QED BY <1>2, <2>1, <2>9
<1> QED BY <1>7, <1>8

LEMMA ReDrawShows ==
  ASSUME NEW s, Base(s), Started(s), Typed(s),
         ~s.f.bServerSide => MasterSorted(s) /\ (IF s.f.bFilter THEN Refinable(s) ELSE Listed(s))
  PROVE  ListOK(ReDraw(s))
<1>1. s.f.bFilter \in BOOLEAN /\ s.f.bSort \in BOOLEAN
  BY FeaturesBoolean
<1>2. CASE s.f.bSort
  <2>1. ReDraw(s) = Sort(s)
    BY <1>1, <1>2 DEF ReDraw
  <2> QED BY <2>1, SortShows
<1>3. CASE ~s.f.bSort /\ s.f.bFilter
  <2>1. ReDraw(s) = FilterComplete(s, s.sSearch, FALSE)
    BY <1>1, <1>3 DEF ReDraw
  <2>2. s.sSearch \in Inputs \cup {<< >>}
    BY DEF Typed, Phrases
  <2> QED BY <1>3, <2>1, <2>2, FilterCompleteShows
<1>4. CASE ~s.f.bSort /\ ~s.f.bFilter
  <2>1. ReDraw(s) = Draw(CalculateEnd(s))
    BY <1>1, <1>4 DEF ReDraw
  <2>2. ListOK(s)
    BY <1>4 DEF ListOK
  <2> QED BY <2>1, <2>2, DrawnAgain
<1> QED BY <1>1, <1>2, <1>3, <1>4

(***************************************************************************)
(* The steps, one by one.                                                  *)
(***************************************************************************)
ListInv == ListOK(oSettings)

LEMMA BaseAside ==
  ASSUME NEW s, Base(s), NEW r, Leaves(s, r, Aside)
  PROVE  Base(r)
<1>1. Leaves(s, r, Aside \cup {"aiDisplay", "aiDisplayMaster", "start", "end", "length"})
  BY DEF Leaves
<1>2. /\ r.start = s.start /\ r.end = s.end /\ r.length = s.length
      /\ r.aiDisplay = s.aiDisplay /\ r.aiDisplayMaster = s.aiDisplayMaster
  BY DEF Leaves, Aside, Fields
<1>3. /\ r.start \in Int /\ r.end \in Int /\ r.length \in PageLengths
      /\ Indexes(r.aiDisplay, Len(s.aoData))
  BY <1>2 DEF Base, Numbers, RowsValid
<1> QED BY <1>1, <1>2, <1>3, Moved

LEMMA LeftShows ==
  ASSUME NEW s, Base(s), ListOK(s)
  PROVE  ListOK([s EXCEPT !.adrift = TRUE])
<1> DEFINE r == [s EXCEPT !.adrift = TRUE]
<1>1. Leaves(s, r, {"adrift"})
  BY DEF Base, Leaves, IsSettings, Fields
<1> HIDE DEF r
<1>2. Leaves(s, r, {"start", "initStart", "end", "length", "adrift"})
  BY <1>1 DEF Leaves
<1>3. ListOK(r)
  BY <1>2, PageShows
<1> QED BY <1>3 DEF r

LEMMA GoToLeaves ==
  ASSUME NEW s, IsSettings(s), NEW start
  PROVE  Leaves(s, GoTo(s, start), {"start", "end"})
<1> DEFINE t == [s EXCEPT !.start = start]
<1>1. Leaves(s, t, {"start"})
  BY DEF Leaves, IsSettings, Fields
<1>2. GoTo(s, start) = CalculateEnd(t)
  BY DEF GoTo
<1> HIDE DEF t
<1>3. Leaves(t, CalculateEnd(t), {"end"})
  BY <1>1, CalculateEndLeaves DEF Leaves
<1> QED BY <1>1, <1>2, <1>3 DEF Leaves

LEMMA TypeShows ==
  ASSUME PageInv, ListInv, Type
  PROVE  ListInv'
<1> DEFINE s == oSettings
<1>1. PICK input \in Inputs : s.f.bFilter /\ oSettings' = FilterComplete(s, input, FALSE)
  BY DEF Type, Drawn
<1>2. Base(s) /\ Typed(s) /\ (~s.f.bServerSide => Refinable(s) /\ MasterSorted(s))
  BY ListedRefinable DEF PageInv, ListInv, ListOK
<1> HIDE DEF s
<1>3. ListOK(FilterComplete(s, input, FALSE))
  BY <1>1, <1>2, FilterCompleteShows
<1> QED BY <1>1, <1>3 DEF ListInv

LEMMA CallFilterShows ==
  ASSUME PageInv, ListInv, CallFilter
  PROVE  ListInv'
<1> DEFINE s == oSettings
           Column(input) == [s EXCEPT !.sColumn = input]
<1>1. /\ s.f.bFilter
      /\ \/ \E input \in Inputs : oSettings' = FilterComplete(s, input, TRUE)
         \/ \E input \in ColumnInputs : oSettings' = FilterComplete(Column(input), s.sSearch, TRUE)
  BY DEF CallFilter, Drawn
<1>2. Base(s) /\ Typed(s) /\ (~s.f.bServerSide => MasterSorted(s))
  BY DEF PageInv, ListInv, ListOK
<1> HIDE DEF s
<1>3. ASSUME NEW input \in Inputs
      PROVE  ListOK(FilterComplete(s, input, TRUE))
  BY <1>1, <1>2, FilterCompleteShows
<1>4. ASSUME NEW input \in ColumnInputs
      PROVE  ListOK(FilterComplete(Column(input), s.sSearch, TRUE))
  <2> DEFINE r == Column(input)
  <2>1. Leaves(s, r, {"sColumn"}) /\ r.sColumn = input
    BY <1>2 DEF Base, Leaves, IsSettings, Fields
  <2> HIDE DEF r
  <2>2. /\ r.f = s.f /\ r.sSearch = s.sSearch /\ r.cookie = s.cookie /\ r.aoData = s.aoData
        /\ r.aiDisplayMaster = s.aiDisplayMaster /\ r.aaSorting = s.aaSorting
        /\ r.unsorted = s.unsorted
    BY <2>1 DEF Leaves, Fields
  <2>3. Base(r)
    <3>1. Leaves(s, r, Aside)
      BY <2>1 DEF Leaves, Aside
    <3> QED BY <1>2, <3>1, BaseAside
  <2>4. Typed(r) /\ s.sSearch \in Inputs \cup {<< >>}
    BY <1>2, <2>1, <2>2 DEF Typed, Phrases
  <2>5. ~r.f.bServerSide => MasterSorted(r)
    BY <1>2, <2>2 DEF MasterSorted, Sorted, Before
  <2>6. ListOK(FilterComplete(r, s.sSearch, TRUE))
    BY <1>1, <2>2, <2>3, <2>4, <2>5, FilterCompleteShows
  <2> QED BY <2>6 DEF r
<1> HIDE DEF Column
<1> QED BY <1>1, <1>3, <1>4 DEF ListInv

LEMMA SortClickShows ==
  ASSUME PageInv, ListInv, SortClick \/ CallSort
  PROVE  ListInv'
<1> DEFINE s == oSettings
<1>1. PICK dir : oSettings' = Sort([s EXCEPT !.aaSorting = dir])
  BY DEF SortClick, CallSort, Drawn
<1>2. Base(s) /\ Typed(s)
  BY DEF PageInv, ListInv, ListOK
<1> HIDE DEF s
<1> DEFINE r == [s EXCEPT !.aaSorting = dir]
<1>3. Leaves(s, r, {"aaSorting"})
  BY <1>2 DEF Base, Leaves, IsSettings, Fields
<1> HIDE DEF r
<1>4. Base(r)
  <2>1. Leaves(s, r, Aside)
    BY <1>3 DEF Leaves, Aside
  <2> QED BY <1>2, <2>1, BaseAside
<1>5. Typed(r)
  BY <1>2, <1>3 DEF Leaves, Fields, Typed
<1>6. ListOK(Sort(r))
  BY <1>4, <1>5, SortShows
<1> QED BY <1>1, <1>6 DEF r, ListInv

(* Paging shows another page of the same list.                             *)
LEMMA PagingShows ==
  ASSUME PageInv, ListInv, PageClick \/ PageNumberClick \/ LengthChange \/ CallPageChange
  PROVE  ListInv'
<1> DEFINE s == oSettings
           Turned(r) == Leaves(s, r, {"start", "initStart", "end", "length", "adrift"})
<1>1. Base(s) /\ IsSettings(s) /\ ListOK(s)
  BY DEF PageInv, ListInv, Base
<1>2. ASSUME NEW start
      PROVE  Turned(GoTo(s, start)) /\ IsSettings(GoTo(s, start))
  <2> HIDE DEF s
  <2>1. Leaves(s, GoTo(s, start), {"start", "end"})
    BY <1>1, GoToLeaves
  <2> QED BY <2>1 DEF Leaves
<1>3. ASSUME PageClick \/ PageNumberClick
      PROVE  \E r : Turned(r) /\ oSettings' = Draw(r)
  <2>1. \E start : oSettings' = Draw(GoTo(s, start))
    BY <1>3 DEF PageClick, PageNumberClick, Drawn
  <2> HIDE DEF s, Turned
  <2> QED BY <1>2, <2>1
<1>4. ASSUME LengthChange
      PROVE  \E r : Turned(r) /\ oSettings' = Draw(r)
  <2>1. PICK length :
          LET changed == CalculateEnd([s EXCEPT !.length = length])
          IN oSettings' = Draw([changed EXCEPT !.start = LengthStart(changed)])
    BY <1>4 DEF LengthChange, Drawn
  <2> HIDE DEF s
  <2> DEFINE t == [s EXCEPT !.length = length]
             u == CalculateEnd(t)
             start == LengthStart(u)
             r == [u EXCEPT !.start = start]
  <2>2. Leaves(s, t, {"length"})
    BY <1>1 DEF Leaves, IsSettings, Fields
  <2> HIDE DEF t
  <2>3. Leaves(t, u, {"end"})
    BY <2>2, CalculateEndLeaves DEF Leaves
  <2> HIDE DEF u, start
  <2>4. Leaves(u, r, {"start"})
    BY <2>3 DEF Leaves, IsSettings, Fields
  <2> HIDE DEF r
  <2>5. Turned(r)
    BY <2>2, <2>3, <2>4 DEF Leaves
  <2>6. oSettings' = Draw(r)
    BY <2>1 DEF r, start, u, t
  <2> HIDE DEF Turned
  <2> QED BY <2>5, <2>6
<1>5. ASSUME CallPageChange
      PROVE  \E r : Turned(r) /\ (oSettings' = Draw(r) \/ oSettings' = r)
  <2> DEFINE Moves(start, redraw) == [GoTo(s, start) EXCEPT
                         !.adrift = @ \/ ~redraw \/ start >= RecordsDisplay(s)]
  <2>1. PICK start, redraw :
          oSettings' = Draw(Moves(start, redraw)) \/ oSettings' = Moves(start, redraw)
    BY <1>5 DEF CallPageChange, Drawn
  <2> DEFINE g == GoTo(s, start)
             a == g.adrift \/ ~redraw \/ start >= RecordsDisplay(s)
             r == [g EXCEPT !.adrift = a]
  <2>2. Turned(g) /\ IsSettings(g)
    BY <1>2
  <2>3. Moves(start, redraw) = r
    OBVIOUS
  <2> HIDE DEF Moves, g, a, s
  <2>4. Leaves(g, r, {"adrift"})
    BY <2>2 DEF Leaves, IsSettings, Fields
  <2> HIDE DEF r
  <2>5. Turned(r)
    BY <2>2, <2>4 DEF Leaves
  <2> HIDE DEF Turned
  <2> QED BY <2>1, <2>3, <2>5
<1>6. PICK r : Turned(r) /\ (oSettings' = Draw(r) \/ oSettings' = r)
  <2> HIDE DEF Turned
  <2> QED BY <1>3, <1>4, <1>5
<1>7. ListOK(r) /\ ListOK(Draw(r))
  BY <1>1, <1>6, PageShows
<1> QED BY <1>6, <1>7 DEF ListInv

LEMMA CallDrawShows ==
  ASSUME PageInv, ListInv, CallDraw
  PROVE  ListInv'
<1> DEFINE s == oSettings
           a == ReDraw(s)
           b == Draw(CalculateEnd(s))
<1>1. Base(s) /\ Started(s) /\ ListOK(s)
  BY DEF PageInv, ListInv
<1>2. oSettings' = a \/ oSettings' = b
  BY DEF CallDraw, Drawn
<1> HIDE DEF s
<1>3. ListOK(a)
  BY <1>1, ListedRefinable, ReDrawShows DEF ListOK
<1>4. ListOK(b)
  BY <1>1, DrawnAgain
<1> HIDE DEF a, b
<1> QED BY <1>2, <1>3, <1>4 DEF ListInv

(* Details are no part of the list.                                        *)
LEMMA DetailsShow ==
  ASSUME PageInv, ListInv, Open \/ Close
  PROVE  ListInv'
<1> DEFINE s == oSettings
<1>1. Base(s) /\ IsSettings(s) /\ ListOK(s)
  BY DEF PageInv, ListInv, Base
<1>2. PICK open, body : oSettings' = [s EXCEPT !.open = open, !.body = body]
  BY DEF Open, Close
<1> HIDE DEF s
<1> DEFINE r == [s EXCEPT !.open = open, !.body = body]
<1>3. Leaves(s, r, {"open", "body"})
  BY <1>1 DEF Leaves, IsSettings, Fields
<1> HIDE DEF r
<1>4. Leaves(s, r, Fields \ (ListFields \cup {"aoData", "cookie"}))
  BY <1>3 DEF Leaves, Fields, ListFields
<1>5. SameList(s, r) /\ Typed(r)
  BY <1>1, <1>4, LeavesSame DEF ListOK
<1>6. ListOK(r)
  BY <1>1, <1>5, SameListOK DEF Typed
<1> QED BY <1>2, <1>6 DEF r, ListInv

(* All rows are shown where none is searched for.                          *)
LEMMA AllShown ==
  ASSUME NEW s, Base(s), s.aiDisplay = s.aiDisplayMaster, FoundRows(s) = DOMAIN s.aoData
  PROVE  Listed(s)
<1>1. s.aiDisplayMaster \in Seq(DOMAIN s.aoData)
  BY RowsAre
<1>2. \A k \in DOMAIN s.aiDisplayMaster : s.aiDisplayMaster[k] \in FoundRows(s)
  BY <1>1
<1>3. Kept(s.aiDisplayMaster, FoundRows(s)) = s.aiDisplayMaster
  BY <1>1, <1>2, KeptAll
<1> QED BY <1>3 DEF Listed, Exact, Remembered

LEMMA ConstructedTyped ==
  ASSUME NEW f, NEW cookie, NEW length,
         \A saved \in cookie : Phrases(saved.search, saved.column)
  PROVE  Typed(Constructed(f, cookie, length)) /\ Constructed(f, cookie, length).f = f
<1> DEFINE first == LoadState(f, cookie, length)
<1>1. Phrases(first.search, first.column)
  <2>1. CASE f.bStateSave /\ cookie # {}
    <3>1. first \in cookie
      BY <2>1 DEF LoadState
    <3> HIDE DEF first
    <3> QED BY <3>1
  <2>2. CASE ~(f.bStateSave /\ cookie # {})
    <3>1. first.search = << >> /\ first.column = << >>
      BY <2>2 DEF LoadState
    <3> HIDE DEF first
    <3> QED BY <3>1 DEF Phrases
  <2> QED BY <2>1, <2>2
<1> HIDE DEF first
<1> DEFINE rows == IF f.source = "dom"
                   THEN [i \in DOMAIN SourceTable |-> [SourceTable[i] EXCEPT !.node = i]]
                   ELSE << >>
           all == [i \in DOMAIN rows |-> i]
           s == Constructed(f, cookie, length)
<1> HIDE DEF rows, all
<1>2. s = [f |-> f, aoData |-> rows, aiDisplayMaster |-> all, aiDisplay |-> all,
           asDataSearch |-> << >>,
           sSearch |-> first.search, sColumn |-> first.column, aaSorting |-> first.sorting,
           start |-> first.start, initStart |-> first.start, ajaxStart |-> first.start,
           end |-> 0, length |-> first.length,
           body |-> << >>, open |-> {}, cookie |-> cookie,
           loading |-> f.source = "ajax",
           iDraw |-> 0, requests |-> {}, recordsDisplay |-> 0, answer |-> NoAnswer,
           loose |-> FALSE, unsorted |-> FALSE, stale |-> FALSE, adrift |-> FALSE]
  BY DEF Constructed, all, rows, first
<1> HIDE DEF s
<1>3. s.sSearch = first.search /\ s.sColumn = first.column /\ s.cookie = cookie /\ s.f = f
  BY <1>2
<1> QED BY <1>1, <1>3 DEF Typed, s

LEMMA InitialiseShows ==
  ASSUME NEW f \in Features, NEW cookie, NEW length \in f.aLengthMenu,
         \A saved \in cookie : saved.start \in Int /\ saved.length \in PageLengths,
         \A saved \in cookie : Phrases(saved.search, saved.column)
  PROVE  ListOK(Initialise(Constructed(f, cookie, length)))
<1> DEFINE s == Constructed(f, cookie, length)
           r == Initialise(s)
           a == Sort(s)
           b == FilterComplete(s, s.sSearch, FALSE)
           t == [s EXCEPT !.aiDisplay = s.aiDisplayMaster]
           c == Draw(CalculateEnd(t))
<1>1. Base(s) /\ s.aiDisplay = s.aiDisplayMaster /\ Typed(s)
  BY ConstructedBase, ConstructedTyped
<1> HIDE DEF s
<1>2. t = s
  BY <1>1 DEF Base, IsSettings, Fields
<1>3. s.f.bFilter \in BOOLEAN /\ s.f.bSort \in BOOLEAN
  BY <1>1, FeaturesBoolean
<1> HIDE DEF t
<1>4. ListOK(a)
  BY <1>1, SortShows
<1>5. ASSUME ~s.f.bSort, s.f.bFilter
      PROVE  ListOK(b)
  <2>1. Refinable(s) /\ MasterSorted(s) /\ s.sSearch \in Inputs \cup {<< >>}
    BY <1>1, <1>5 DEF Refinable, MasterSorted, Typed, Phrases
  <2> QED BY <1>1, <1>5, <2>1, FilterCompleteShows
<1>6. ASSUME ~s.f.bSort, ~s.f.bFilter
      PROVE  ListOK(c)
  <2>1. FoundRows(s) = DOMAIN s.aoData
    BY <1>6 DEF FoundRows, Found
  <2>2. Listed(s) /\ MasterSorted(s)
    BY <1>1, <1>6, <2>1, AllShown DEF MasterSorted
  <2> QED BY <1>1, <1>2, <2>2, DrawnAgain DEF ListOK
<1> HIDE DEF a, b, c
<1>7. /\ s.f.bSort => r = a
      /\ ~s.f.bSort /\ s.f.bFilter => r = b
      /\ ~s.f.bSort /\ ~s.f.bFilter => r = c
  BY <1>3 DEF Initialise, a, b, c, t
<1> HIDE DEF r
<1>8. ListOK(r)
  BY <1>3, <1>4, <1>5, <1>6, <1>7
<1> QED BY <1>8 DEF r, s

LEMMA StartShows ==
  /\ Init => ListInv
  /\ PageInv /\ ListInv /\ Reload => ListInv'
<1>1. ASSUME Init
      PROVE  ListInv
  <2>1. PICK f \in Features : \E length \in f.aLengthMenu :
          oSettings = Initialise(Constructed(f, {}, length))
    BY <1>1 DEF Init
  <2>2. PICK length \in f.aLengthMenu : oSettings = Initialise(Constructed(f, {}, length))
    BY <2>1
  <2> QED BY <2>2, InitialiseShows DEF ListInv
<1>2. ASSUME PageInv, ListInv, Reload
      PROVE  ListInv'
  <2>1. PICK length \in oSettings.f.aLengthMenu :
          oSettings' = Initialise(Constructed(oSettings.f, oSettings.cookie, length))
    BY <1>2 DEF Reload
  <2>2. /\ oSettings.f \in Features
        /\ \A saved \in oSettings.cookie : saved.start \in Int /\ saved.length \in PageLengths
        /\ \A saved \in oSettings.cookie : Phrases(saved.search, saved.column)
    BY <1>2 DEF PageInv, Base, Numbers, ListInv, ListOK, Typed
  <2>3. ListOK(Initialise(Constructed(oSettings.f, oSettings.cookie, length)))
    BY <2>2, InitialiseShows
  <2> QED BY <2>1, <2>3 DEF ListInv
<1> QED BY <1>1, <1>2

(* A table that was filled without regard to the search shows all its      *)
(* rows, and says so unless nothing is searched for.                       *)
LEMMA FilledShows ==
  ASSUME NEW s, Base(s), Typed(s), s.aiDisplay = s.aiDisplayMaster,
         s.loose \/ (s.sSearch = << >> /\ s.sColumn = << >>),
         ~s.f.bServerSide => MasterSorted(s)
  PROVE  ListOK(s)
<1>1. ASSUME ~s.loose
      PROVE  Listed(s)
  <2>1. AcceptedRows(s, << >>) = DOMAIN s.aoData
    BY AcceptsAll
  <2>2. FoundRows(s) = DOMAIN s.aoData
    BY <1>1, <2>1 DEF FoundRows, Found, AcceptedRows
  <2> QED BY <2>2, AllShown
<1>2. s.loose => Listed(s)
  BY DEF Listed, Remembered
<1> QED BY <1>1, <1>2 DEF ListOK

LEMMA AjaxLoadShows ==
  ASSUME PageInv, ListInv, AjaxLoad
  PROVE  ListInv'
<1> DEFINE s == oSettings
           t == AddRows(s, SourceTable)
           u == [t EXCEPT !.loading = FALSE, !.initStart = s.ajaxStart]
           m == u.aiDisplayMaster
           b == u.sSearch # << >> \/ u.sColumn # << >>
           v == [u EXCEPT !.aiDisplay = m, !.loose = b]
<1>1. Base(s) /\ s.loading /\ Typed(s)
  BY DEF PageInv, AjaxLoad, ListInv, ListOK
<1>2. oSettings' = IF u.f.bSort THEN Sort(u) ELSE Draw(CalculateEnd(v))
  BY DEF AjaxLoad
<1> HIDE DEF s
<1>3. NewRows(s, SourceTable)
  <2>1. /\ SourceTable \in Seq(RowType) /\ DOMAIN SourceTable = DOMAIN SourceRows
        /\ \A i \in DOMAIN SourceTable : SourceTable[i].node = NoNode /\ SourceTable[i].key = i
    BY SourceTableIs
  <2>2. \A j \in DOMAIN s.aoData : s.aoData[j].key \notin DOMAIN SourceRows
    BY <1>1 DEF Base, Pending
  <2> QED BY <2>1, <2>2 DEF NewRows
<1>4. RowsValid(t) /\ Leaves(s, t, {"aoData", "aiDisplayMaster"})
  BY <1>1, <1>3, AddRowsKeeps, AddRowsLeaves, FeaturesBoolean DEF NewRows, Base
<1> HIDE DEF t
<1>5. Leaves(t, u, {"loading", "initStart"}) /\ u.loading = FALSE /\ u.initStart = s.ajaxStart
  BY <1>4 DEF Leaves, IsSettings, Fields
<1> HIDE DEF u
<1>6. /\ u.start = s.start /\ u.end = s.end /\ u.requests = s.requests /\ u.open = s.open
      /\ u.recordsDisplay = s.recordsDisplay /\ u.aiDisplay = s.aiDisplay /\ u.f = s.f
      /\ u.aoData = t.aoData /\ m = t.aiDisplayMaster /\ t.aiDisplay = s.aiDisplay
      /\ u.length = s.length
      /\ u.sSearch = s.sSearch /\ u.sColumn = s.sColumn /\ u.cookie = s.cookie
  BY <1>4, <1>5 DEF Leaves, Fields
<1>7. Base(u)
  <2>1. Leaves(s, u, Aside \cup {"aoData", "aiDisplay", "aiDisplayMaster", "start", "initStart",
                                 "end", "loading", "requests", "recordsDisplay", "open"})
    BY <1>4, <1>5 DEF Leaves
  <2>2. u.start \in Int /\ u.initStart \in Int /\ u.end \in Int /\ u.recordsDisplay \in Nat
    BY <1>1, <1>5, <1>6 DEF Base, Numbers
  <2>3. RowsValid(u)
    BY <1>4, <1>6 DEF RowsValid
  <2> QED BY <1>1, <1>5, <1>6, <2>1, <2>2, <2>3, BaseReplaced
<1>8. Typed(u)
  BY <1>1, <1>6 DEF Typed
<1>9. Leaves(u, v, {"aiDisplay", "loose"}) /\ v.aiDisplay = m /\ v.loose = b
  <2> HIDE DEF b, m
  <2> QED BY <1>7 DEF Base, Leaves, IsSettings, Fields
<1> HIDE DEF v
<1>10. /\ v.start = u.start /\ v.end = u.end /\ v.length = u.length /\ v.aiDisplayMaster = m
       /\ v.f = u.f /\ v.sSearch = u.sSearch /\ v.sColumn = u.sColumn /\ v.cookie = u.cookie
  BY <1>9 DEF Leaves, Fields
<1>11. Base(v)
  <2>1. Leaves(u, v, Aside \cup {"aiDisplay", "aiDisplayMaster", "start", "end", "length"})
    BY <1>9 DEF Leaves, Aside
  <2>2. /\ v.start \in Int /\ v.end \in Int /\ v.length \in PageLengths
        /\ Indexes(v.aiDisplay, Len(u.aoData))
    BY <1>7, <1>9, <1>10 DEF Base, Numbers, RowsValid
  <2> QED BY <1>7, <1>10, <2>1, <2>2, Moved
<1>12. ASSUME ~u.f.bSort
       PROVE  ListOK(v)
  <2>1. Typed(v) /\ MasterSorted(v)
    BY <1>8, <1>10, <1>12 DEF Typed, MasterSorted
  <2>2. v.loose \/ (v.sSearch = << >> /\ v.sColumn = << >>)
    BY <1>9, <1>10
  <2>3. v.aiDisplay = v.aiDisplayMaster
    BY <1>9, <1>10
  <2> QED BY <1>11, <2>1, <2>2, <2>3, FilledShows
<1>13. ListOK(Sort(u))
  BY <1>7, <1>8, SortShows
<1>14. ~u.f.bSort => ListOK(Draw(CalculateEnd(v)))
  BY <1>11, <1>12, DrawnAgain
<1> HIDE DEF m, b
<1> QED BY <1>2, <1>13, <1>14 DEF ListInv

LEMMA AddDataShows ==
  ASSUME PageInv, ListInv, NEW redraw \in BOOLEAN, AddData(redraw)
  PROVE  ListInv'
<1> DEFINE s == oSettings
           key == CHOOSE k \in FreeKeys(s) : \A j \in FreeKeys(s) : k <= j
           Shows(text) == [AddRow(s, NewRow(key, text)) EXCEPT
                             !.aiDisplay = AddRow(s, NewRow(key, text)).aiDisplayMaster,
                             !.loose = TRUE, !.unsorted = TRUE]
           Left(text) == [Shows(text) EXCEPT !.adrift = TRUE]
<1>1. PICK text \in Texts :
        /\ FreeKeys(s) # {}
        /\ IF redraw THEN oSettings' = ReDraw(Shows(text)) ELSE oSettings' = Left(text)
  BY DEF AddData, Edited, Drawn
<1>2. key \in FreeKeys(s)
  <2> DEFINE F == FreeKeys(s)
  <2>1. PICK n \in Nat : Keys = 1 .. n
    BY KeysAre
  <2>2. F \in SUBSET (1 .. n) /\ F # {}
    BY <1>1, <2>1 DEF FreeKeys
  <2> HIDE DEF F
  <2>3. \E k \in F : \A j \in F : k <= j
    BY <2>2, SmallestOf
  <2> QED BY <2>3 DEF F
<1>3. Base(s) /\ Started(s) /\ Typed(s) /\ IsSettings(s)
  BY DEF PageInv, ListInv, ListOK, Base
<1> HIDE DEF key, s
<1>4. Base(Shows(text)) /\ Started(Shows(text))
  BY <1>2, <1>3, AddDataBase
<1> DEFINE t == AddRow(s, NewRow(key, text))
           u == Shows(text)
<1>5. Leaves(s, t, {"aoData", "aiDisplayMaster"})
  BY <1>3, AddRowsLeaves DEF AddRow
<1> HIDE DEF t
<1>6. Leaves(t, u, {"aiDisplay", "loose", "unsorted"}) /\ u.loose = TRUE /\ u.unsorted = TRUE
  BY <1>5 DEF Leaves, IsSettings, Fields, t
<1> HIDE DEF Shows
<1>7. u.sSearch = s.sSearch /\ u.sColumn = s.sColumn /\ u.cookie = s.cookie
  <2> HIDE DEF u
  <2> QED BY <1>5, <1>6 DEF Leaves, Fields
<1>8. Typed(u)
  BY <1>3, <1>7 DEF Typed
<1>9. MasterSorted(u) /\ Listed(u) /\ Refinable(u)
  BY <1>6 DEF MasterSorted, Listed, Remembered, Refinable
<1>10. ListOK(u)
  BY <1>8, <1>9 DEF ListOK
<1>11. ListOK(ReDraw(u))
  BY <1>4, <1>8, <1>9, ReDrawShows
<1>12. ListOK(Left(text))
  BY <1>4, <1>10, LeftShows
<1> HIDE DEF Left
<1> QED BY <1>1, <1>11, <1>12 DEF ListInv

LEMMA ClearRowsShows ==
  ASSUME PageInv, ListInv, NEW redraw \in BOOLEAN, ClearRows(redraw)
  PROVE  ListInv'
<1> DEFINE s == oSettings
           t == ClearTable(s)
           u == [t EXCEPT !.adrift = TRUE]
           left == [u EXCEPT !.adrift = TRUE]
<1>1. IF redraw THEN oSettings' = Draw(u) ELSE oSettings' = left
  BY DEF ClearRows, Edited, Drawn
<1>2. Base(s) /\ Typed(s) /\ IsSettings(s)
  BY DEF PageInv, ListInv, ListOK, Base
<1> HIDE DEF s
<1>3. Base(u)
  BY <1>2, ClearRowsGood
<1>4. /\ Leaves(s, t, {"aoData", "aiDisplayMaster", "aiDisplay", "end"})
      /\ t.aoData = << >> /\ t.aiDisplayMaster = << >> /\ t.aiDisplay = << >>
  BY <1>2, ClearTableLeaves
<1> HIDE DEF t
<1>5. Leaves(t, u, {"adrift"})
  BY <1>4 DEF Leaves, IsSettings, Fields
<1> HIDE DEF u
<1>6. /\ u.aoData = << >> /\ u.aiDisplayMaster = << >> /\ u.aiDisplay = << >>
      /\ u.sSearch = s.sSearch /\ u.sColumn = s.sColumn /\ u.cookie = s.cookie /\ IsSettings(u)
  BY <1>4, <1>5 DEF Leaves, Fields
<1>7. ListOK(u)
  <2>1. FoundRows(u) = DOMAIN u.aoData
    BY <1>6 DEF FoundRows
  <2>2. Listed(u)
    BY <1>3, <1>6, <2>1, AllShown
  <2>3. Typed(u) /\ MasterSorted(u)
    BY <1>2, <1>6 DEF Typed, MasterSorted, Sorted
  <2> QED BY <2>2, <2>3 DEF ListOK
<1>8. ListOK(Draw(u))
  <2>1. Leaves(u, u, {"start", "initStart", "end", "length", "adrift"})
    BY <1>6 DEF Leaves
  <2> QED BY <1>3, <1>7, <2>1, PageShows
<1>9. ListOK(left)
  BY <1>3, <1>7, LeftShows
<1> HIDE DEF left
<1> QED BY <1>1, <1>8, <1>9 DEF ListInv

(* Only a table with a server has answers, and for one there is only the   *)
(* cookie to speak of.                                                     *)
LEMMA AnswerShowsList ==
  ASSUME PageInv, ListInv, Answer \/ RequestFails
  PROVE  ListInv'
<1> DEFINE s == oSettings
           Waiting(request) == [s EXCEPT !.requests = @ \ {request}]
<1>1. PICK request \in s.requests :
        oSettings' = Taken(s, request) \/ oSettings' = Waiting(request)
  BY DEF Answer, RequestFails, Taken
<1>2. Base(s) /\ Typed(s) /\ IsSettings(s) /\ s.f.bServerSide
  BY <1>1 DEF PageInv, ListInv, ListOK, Base, Pending
<1> HIDE DEF s
<1> DEFINE waiting == Waiting(request)
           rows == AnswerRows(request.params).rows
           total == AnswerRows(request.params).total
           w == [waiting EXCEPT !.iDraw = request.sEcho]
           c == ClearTable(w)
           t == AddRows(c, rows)
           m == t.aiDisplayMaster
           v == [t EXCEPT !.recordsDisplay = total, !.open = {}, !.aiDisplay = m,
                          !.answer = request]
           x == TakeInitStart(v)
<1>3. Taken(s, request) = InsertRows(x)
  BY DEF Taken
<1>4. Leaves(s, waiting, {"requests"})
  BY <1>2 DEF Leaves, IsSettings, Fields
<1> HIDE DEF Waiting
<1>5. Leaves(waiting, w, {"iDraw"})
  <2> HIDE DEF waiting
  <2> QED BY <1>4 DEF Leaves, IsSettings, Fields
<1> HIDE DEF waiting, rows, total, w
<1>6. Leaves(w, c, {"aoData", "aiDisplayMaster", "aiDisplay", "end"})
  BY <1>5, ClearTableLeaves DEF Leaves
<1> HIDE DEF c
<1>7. Leaves(c, t, {"aoData", "aiDisplayMaster"})
  BY <1>6, AddRowsLeaves DEF Leaves
<1> HIDE DEF t, m
<1>8. Leaves(t, v, {"recordsDisplay", "open", "aiDisplay", "answer"})
  BY <1>7 DEF Leaves, IsSettings, Fields
<1> HIDE DEF v
<1>9. Leaves(v, x, {"start", "initStart", "end"})
  BY <1>8, TakeInitStartLeaves DEF Leaves
<1> HIDE DEF x
<1>10. /\ IsSettings(x) /\ x.sSearch = s.sSearch /\ x.sColumn = s.sColumn /\ x.cookie = s.cookie
       /\ x.f = s.f
  BY <1>4, <1>5, <1>6, <1>7, <1>8, <1>9 DEF Leaves, Fields
<1>11. Typed(x)
  BY <1>2, <1>10 DEF Typed
<1>12. ListOK(InsertRows(x))
  <2>1. Leaves(x, InsertRows(x), {"body", "aoData", "cookie"})
    BY <1>10, InsertRowsLeaves
  <2>2. InsertRows(x).f = s.f
    BY <1>10, <2>1 DEF Leaves, Fields
  <2> QED BY <1>2, <1>10, <1>11, <2>2, InsertRowsTyped DEF ListOK
<1>13. ListOK(waiting)
  <2>1. /\ waiting.f = s.f /\ waiting.sSearch = s.sSearch /\ waiting.sColumn = s.sColumn
        /\ waiting.cookie = s.cookie
    BY <1>4 DEF Leaves, Fields
  <2> QED BY <1>2, <2>1 DEF ListOK, Typed
<1> QED BY <1>1, <1>3, <1>12, <1>13 DEF ListInv, waiting

(* A text that is assigned where the row is displayed.                     *)
AssignedTo(s, target, text) ==
  [k \in DOMAIN s.aiDisplay |->
     IF s.aiDisplay[k] = target THEN text ELSE s.aoData[s.aiDisplay[k]].text]

LEMMA AssignedText ==
  ASSUME NEW s, Base(s), NEW target \in DOMAIN s.aoData, NEW text,
         s.asDataSearch = TextsAt(s, s.aiDisplay), IndexOf(s.aiDisplay, target) # {}
  PROVE  UpdatedSearch(s, target, text) = AssignedTo(s, target, text)
<1> DEFINE d == s.aiDisplay
           L == Len(d)
           q == s.asDataSearch
           p == CHOOSE i \in IndexOf(d, target) : TRUE
<1>1. /\ L \in Nat /\ DOMAIN d = 1 .. L /\ \A i, j \in 1 .. L : d[i] = d[j] => i = j
  BY DEF Base, RowsValid, Indexes, Distinct
<1>2. p \in 1 .. L /\ d[p] = target
  <2>1. p \in IndexOf(d, target)
    OBVIOUS
  <2> HIDE DEF p
  <2> QED BY <1>1, <2>1 DEF IndexOf
<1>3. q = [k \in 1 .. L |-> s.aoData[d[k]].text]
  BY <1>1 DEF TextsAt
<1>4. UpdatedSearch(s, target, text) = AssignSearch(s, p, text)
  BY DEF UpdatedSearch
<1> HIDE DEF p, L, q, d
<1>5. Len(q) = L /\ DOMAIN q = 1 .. L
  BY <1>1, <1>3
<1>6. AssignSearch(s, p, text) = [k \in 1 .. L |-> IF k = p THEN text ELSE q[k]]
  <2>1. (IF p > Len(q) THEN p ELSE Len(q)) = L
    BY <1>1, <1>2, <1>5
  <2> DEFINE Entry(k) == CASE k = p -> text
                           [] k # p /\ k \in DOMAIN q -> q[k]
                           [] OTHER -> Undefined
  <2>2. AssignSearch(s, p, text) = [k \in 1 .. (IF p > Len(q) THEN p ELSE Len(q)) |-> Entry(k)]
    BY DEF AssignSearch, q
  <2>3. \A k \in 1 .. L : Entry(k) = IF k = p THEN text ELSE q[k]
    BY <1>5
  <2> HIDE DEF Entry
  <2> QED BY <2>1, <2>2, <2>3
<1>7. \A k \in 1 .. L : (IF k = p THEN text ELSE q[k])
                          = (IF d[k] = target THEN text ELSE s.aoData[d[k]].text)
  BY <1>1, <1>2, <1>3
<1> QED BY <1>1, <1>4, <1>6, <1>7 DEF d, AssignedTo

(* fnUpdate of a row that is displayed: what is displayed has all rows     *)
(* that the search finds now, and asDataSearch the new text.               *)
LEMMA UpdateRefinable ==
  ASSUME NEW s, Base(s), Listed(s), NEW v, Base(v), NEW target \in DOMAIN s.aoData, NEW text,
         v.f = s.f, v.sSearch = s.sSearch, v.sColumn = s.sColumn,
         v.aiDisplay = s.aiDisplay, v.aiDisplayMaster = s.aiDisplayMaster,
         v.stale = s.stale, v.asDataSearch = UpdatedSearch(s, target, text),
         ~v.loose => ~s.loose /\ IndexOf(s.aiDisplay, target) # {},
         DOMAIN v.aoData = DOMAIN s.aoData,
         \A i \in DOMAIN s.aoData :
           v.aoData[i].text = IF i = target THEN text ELSE s.aoData[i].text
  PROVE  Refinable(v)
<1> SUFFICES ASSUME ~v.loose, ~v.stale, Len(v.aiDisplay) # Len(v.aiDisplayMaster)
             PROVE  v.asDataSearch = TextsAt(v, v.aiDisplay) /\ Covered(v)
  BY DEF Refinable
<1>1. /\ s.aiDisplay \in Seq(DOMAIN s.aoData) /\ s.aiDisplayMaster \in Seq(DOMAIN s.aoData)
  BY RowsAre
<1>2. s.asDataSearch = TextsAt(s, s.aiDisplay) /\ Exact(s)
  BY DEF Listed, Remembered
<1>3. \A k \in DOMAIN s.aiDisplay : s.aiDisplay[k] \in DOMAIN s.aoData
  BY <1>1
<1>10. IndexOf(s.aiDisplay, target) # {} /\ s.asDataSearch = TextsAt(s, s.aiDisplay)
  BY <1>2
<1>4. UpdatedSearch(s, target, text) = AssignedTo(s, target, text)
  BY <1>10, AssignedText, Zenon
<1>5. v.asDataSearch = TextsAt(v, v.aiDisplay)
  BY <1>3, <1>4 DEF TextsAt, AssignedTo
<1>6. target \in FoundRows(s)
  <2>1. PICK p \in DOMAIN s.aiDisplay : s.aiDisplay[p] = target
    BY DEF IndexOf
  <2>2. \A k \in DOMAIN Kept(s.aiDisplayMaster, FoundRows(s)) :
          Kept(s.aiDisplayMaster, FoundRows(s))[k] \in FoundRows(s)
    BY <1>1, KeptIs
  <2> QED BY <1>2, <2>1, <2>2 DEF Exact
<1>7. \A i \in DOMAIN s.aoData : i # target => (Found(v, i) <=> Found(s, i))
  BY DEF Found
<1>8. FoundRows(v) \subseteq FoundRows(s)
  BY <1>6, <1>7 DEF FoundRows
<1>9. Covered(v)
  BY <1>2, <1>8 DEF Exact, Covered
<1> QED BY <1>5, <1>9

LEMMA UpdateShows ==
  ASSUME PageInv, ListInv, NEW redraw \in BOOLEAN, Update(redraw)
  PROVE  ListInv'
<1> DEFINE s == oSettings
           Changed(target, text) == [s EXCEPT
                      !.aoData[target].text = text,
                      !.asDataSearch = UpdatedSearch(s, target, text),
                      !.loose = @ \/ ~redraw \/ IndexOf(s.aiDisplay, target) = {},
                      !.unsorted = TRUE]
<1>1. PICK target \in DOMAIN s.aoData, text \in Texts :
        IF redraw THEN oSettings' = ReDraw(Changed(target, text))
        ELSE oSettings' = [Changed(target, text) EXCEPT !.adrift = TRUE]
  BY DEF Update, Edited, Drawn
<1>2. Base(s) /\ Started(s) /\ Typed(s) /\ IsSettings(s) /\ (~s.f.bServerSide => Listed(s))
  BY DEF PageInv, ListInv, ListOK, Base
<1> HIDE DEF s
<1>3. Base(Changed(target, text)) /\ Started(Changed(target, text))
  BY <1>2, UpdateBase
<1> DEFINE v == Changed(target, text)
           rows == [s.aoData EXCEPT ![target].text = text]
           search == UpdatedSearch(s, target, text)
           loose == s.loose \/ ~redraw \/ IndexOf(s.aiDisplay, target) = {}
<1>4. v = [s EXCEPT !.aoData = rows, !.asDataSearch = search, !.loose = loose, !.unsorted = TRUE]
  OBVIOUS
<1>5. /\ DOMAIN rows = DOMAIN s.aoData
      /\ \A i \in DOMAIN s.aoData : rows[i].text = IF i = target THEN text ELSE s.aoData[i].text
  <2>1. ASSUME NEW i \in DOMAIN s.aoData
        PROVE  rows[i].text = IF i = target THEN text ELSE s.aoData[i].text
    <3>1. "text" \in DOMAIN s.aoData[target]
      <4>1. s.aoData \in Seq(RowType)
        BY <1>2 DEF Base, RowsValid, RowsOK
      <4>2. s.aoData[target] \in RowType
        BY <1>1, <4>1
      <4> QED BY <4>2 DEF RowType
    <3> QED BY <1>1, <3>1
  <2> QED BY <2>1
<1> HIDE DEF rows, search, loose, Changed
<1>6. /\ Leaves(s, v, {"aoData", "asDataSearch", "loose", "unsorted"}) /\ v.aoData = rows
      /\ v.asDataSearch = search /\ v.loose = loose /\ v.unsorted = TRUE
  <2> HIDE DEF v
  <2> QED BY <1>2, <1>4 DEF Leaves, IsSettings, Fields
<1> HIDE DEF v
<1>7. /\ v.f = s.f /\ v.sSearch = s.sSearch /\ v.sColumn = s.sColumn /\ v.cookie = s.cookie
      /\ v.aiDisplay = s.aiDisplay /\ v.aiDisplayMaster = s.aiDisplayMaster /\ v.stale = s.stale
  BY <1>6 DEF Leaves, Fields
<1>8. Typed(v) /\ MasterSorted(v)
  BY <1>2, <1>6, <1>7 DEF Typed, MasterSorted
<1>9. ~v.loose => ~s.loose /\ redraw /\ IndexOf(s.aiDisplay, target) # {}
  BY <1>6 DEF loose
<1>10. ASSUME ~s.f.bServerSide
       PROVE  Refinable(v) /\ (~s.f.bFilter => Listed(v))
  <2>1. Refinable(v)
    <3>1. /\ \A i \in DOMAIN s.aoData :
               v.aoData[i].text = IF i = target THEN text ELSE s.aoData[i].text
          /\ DOMAIN v.aoData = DOMAIN s.aoData /\ v.asDataSearch = UpdatedSearch(s, target, text)
      BY <1>5, <1>6 DEF search
    <3> QED BY <1>1, <1>2, <1>3, <1>7, <1>9, <1>10, <3>1, UpdateRefinable DEF v
  <2>2. ASSUME ~s.f.bFilter, ~v.loose
        PROVE  Listed(v)
    <3>1. FoundRows(s) = DOMAIN s.aoData /\ FoundRows(v) = DOMAIN v.aoData
      BY <1>7, <2>2 DEF FoundRows, Found
    <3>2. s.aiDisplay = Kept(s.aiDisplayMaster, FoundRows(s))
      BY <1>2, <1>9, <1>10, <2>2 DEF Listed, Exact
    <3>3. s.aiDisplayMaster \in Seq(DOMAIN s.aoData)
      BY <1>2, RowsAre
    <3>4. \A k \in DOMAIN s.aiDisplayMaster : s.aiDisplayMaster[k] \in FoundRows(s)
      BY <3>1, <3>3
    <3>5. s.aiDisplay = s.aiDisplayMaster
      BY <3>2, <3>3, <3>4, KeptAll
    <3>6. Base(v)
      BY <1>3 DEF v
    <3> QED BY <1>7, <3>1, <3>5, <3>6, AllShown
  <2>3. v.loose => Listed(v)
    BY DEF Listed, Remembered
  <2> QED BY <2>1, <2>2, <2>3
<1>11. Base(v) /\ Started(v)
  BY <1>3 DEF v
<1>12. ListOK(ReDraw(v))
  BY <1>7, <1>8, <1>10, <1>11, ReDrawShows
<1>13. ASSUME ~redraw
       PROVE  ListOK([v EXCEPT !.adrift = TRUE])
  <2>1. v.loose
    BY <1>9, <1>13
  <2>2. Listed(v)
    BY <2>1 DEF Listed, Remembered
  <2>3. ListOK(v)
    BY <1>8, <2>2 DEF ListOK
  <2> QED BY <1>11, <2>3, LeftShows
<1> QED BY <1>1, <1>12, <1>13 DEF ListInv, v

(***************************************************************************)
(* fnDeleteRow: every index behind the one removed goes down by one.       *)
(***************************************************************************)
Lower(x, target) == IF x > target THEN x - 1 ELSE x

Shifted(seq, target) == [k \in DOMAIN seq |-> Lower(seq[k], target)]

(* What K says of an index, L says of where it goes.                       *)
Lowers(n, target, K, L) ==
  \A i \in (1 .. n) \ {target} : i \in K <=> Lower(i, target) \in L

LEMMA DeleteIndexIs ==
  ASSUME NEW n \in Nat, NEW seq \in Seq(1 .. n), NEW target \in 1 .. n
  PROVE  DeleteIndex(seq, target) = Shifted(Kept(seq, (1 .. n) \ {target}), target)
<1>1. \A k \in DOMAIN seq : seq[k] \in 1 .. n
  OBVIOUS
<1>2. {k \in DOMAIN seq : seq[k] # target} = {k \in DOMAIN seq : seq[k] \in (1 .. n) \ {target}}
  BY <1>1
<1> QED BY <1>2 DEF DeleteIndex, Shifted, Kept, Lower

(* The indices lowered, and what is kept of them.                          *)
LEMMA ShiftedKept ==
  ASSUME NEW n \in Nat, NEW target \in 1 .. n, NEW seq \in Seq((1 .. n) \ {target}),
         NEW K, NEW L, Lowers(n, target, K, L)
  PROVE  Kept(Shifted(seq, target), L) = Shifted(Kept(seq, K), target)
<1> DEFINE R == (1 .. n) \ {target}
           P == {k \in DOMAIN seq : seq[k] \in K}
           c == Cardinality(P)
           new == Shifted(seq, target)
           y == Kept(seq, K)
<1>1. /\ seq \in Seq(R) /\ \A k \in DOMAIN seq : seq[k] \in R
      /\ \A i \in R : i \in K <=> Lower(i, target) \in L
  BY DEF Lowers
<1>2. DOMAIN new = DOMAIN seq /\ \A k \in DOMAIN seq : new[k] = Lower(seq[k], target)
  BY DEF Shifted
<1> HIDE DEF R, new
<1>3. {k \in DOMAIN new : new[k] \in L} = P
  BY <1>1, <1>2
<1>4. Kept(new, L) = ItemsAt(new, P) /\ y = ItemsAt(seq, P) /\ P \in SUBSET DOMAIN seq
  BY <1>3 DEF Kept
<1> HIDE DEF P, y
<1>5. y \in Seq(R) /\ Selects(y, seq, P)
  BY <1>1, <1>4, ItemsSelected
<1>6. /\ DOMAIN y = 1 .. c
      /\ \A k \in 1 .. c : Place(P, k) \in DOMAIN seq /\ y[k] = seq[Place(P, k)]
  BY <1>4, <1>5 DEF Selects, Increasing
<1>7. Kept(new, L) = [k \in 1 .. c |-> new[Place(P, k)]]
  BY <1>4 DEF ItemsAt
<1>8. Shifted(y, target) = [k \in 1 .. c |-> Lower(y[k], target)]
  BY <1>6 DEF Shifted
<1>9. \A k \in 1 .. c : new[Place(P, k)] = Lower(y[k], target)
  BY <1>2, <1>6
<1> HIDE DEF c
<1> QED BY <1>7, <1>8, <1>9 DEF new, y

LEMMA DeletedKept ==
  ASSUME NEW n \in Nat, NEW seq \in Seq(1 .. n), NEW target \in 1 .. n, NEW K, NEW L,
         Lowers(n, target, K, L)
  PROVE  DeleteIndex(Kept(seq, K), target) = Kept(DeleteIndex(seq, target), L)
<1> DEFINE R == (1 .. n) \ {target}
           x == Kept(seq, R)
<1>1. DeleteIndex(seq, target) = Shifted(x, target)
  BY DeleteIndexIs
<1>2. Kept(seq, K) \in Seq(1 .. n)
  BY KeptIs
<1>3. DeleteIndex(Kept(seq, K), target) = Shifted(Kept(Kept(seq, K), R), target)
  BY <1>2, DeleteIndexIs
<1>4. x \in Seq(R)
  <2>1. x \in Seq(1 .. n) /\ \A k \in DOMAIN x : x[k] \in R
    BY KeptIs
  <2> HIDE DEF x, R
  <2> QED BY <2>1
<1>5. Kept(Shifted(x, target), L) = Shifted(Kept(x, K), target)
  <2>1. x \in Seq((1 .. n) \ {target})
    BY <1>4
  <2> HIDE DEF x
  <2> QED BY <2>1, ShiftedKept, SMTT(30)
<1>6. Kept(Kept(seq, K), R) = Kept(seq, K \cap R) /\ Kept(x, K) = Kept(seq, R \cap K)
  BY KeptKept
<1>7. K \cap R = R \cap K
  OBVIOUS
<1> QED BY <1>1, <1>3, <1>5, <1>6, <1>7

(* An entry removed from a sequence that holds it once.                    *)
LEMMA KeptRemoved ==
  ASSUME NEW S, NEW seq \in Seq(S), NEW p \in DOMAIN seq, NEW K,
         \A k \in DOMAIN seq : seq[k] \in K <=> k # p
  PROVE  Kept(seq, K) = [k \in 1 .. Len(seq) - 1 |-> IF k < p THEN seq[k] ELSE seq[k + 1]]
<1> DEFINE n == Len(seq)
           m == n - 1
           e == [k \in 1 .. m |-> IF k < p THEN k ELSE k + 1]
<1>1. n \in Nat /\ DOMAIN seq = 1 .. n /\ p \in 1 .. n /\ m \in Nat
  <2>1. n \in Nat /\ DOMAIN seq = 1 .. n
    OBVIOUS
  <2> HIDE DEF n
  <2> QED BY <2>1
<1> HIDE DEF n
<1>2. /\ e \in [1 .. m -> DOMAIN seq]
      /\ \A k \in 1 .. m : e[k] = (IF k < p THEN k ELSE k + 1) /\ e[k] # p
  BY <1>1
<1>3. \A i \in 1 .. n : i # p => \E k \in 1 .. m : e[k] = i
  <2> SUFFICES ASSUME NEW i \in 1 .. n, i # p
               PROVE  \E k \in 1 .. m : e[k] = i
    OBVIOUS
  <2>1. CASE i < p
    <3>1. i \in 1 .. m
      BY <1>1, <2>1
    <3> QED BY <1>2, <2>1, <3>1
  <2>2. CASE i > p
    <3>1. i - 1 \in 1 .. m /\ ~(i - 1 < p) /\ i - 1 + 1 = i
      BY <1>1, <2>2
    <3> QED BY <1>2, <3>1
  <2> QED BY <1>1, <2>1, <2>2
<1>4. \A k, l \in 1 .. m : k < l => e[k] < e[l]
  BY <1>1, <1>2
<1> HIDE DEF e, m
<1>5. \A k \in 1 .. m : seq[e[k]] \in K
  BY <1>2
<1>6. \A i \in DOMAIN seq : seq[i] \in K => \E k \in 1 .. m : e[k] = i
  BY <1>1, <1>3
<1>7. Kept(seq, K) = EntriesAt(seq, m, e)
  <2>1. m \in Nat /\ e \in [1 .. m -> DOMAIN seq]
    BY <1>1, <1>2
  <2>2. Lists(seq, K, m, e)
    BY <1>4, <1>5, <1>6 DEF Lists
  <2> QED BY <2>1, <2>2, KeptEquals, Zenon
<1>8. \A k \in 1 .. m : seq[e[k]] = IF k < p THEN seq[k] ELSE seq[k + 1]
  BY <1>2
<1> QED BY <1>7, <1>8 DEF m, n, EntriesAt

(* The rows left have the texts they had.                                  *)
LEMMA SplicedTexts ==
  ASSUME NEW s, Base(s), NEW target \in DOMAIN s.aoData
  PROVE  LET n == Len(s.aoData)
             rows == SplicedRows(s, target)
         IN /\ n \in Nat /\ DOMAIN s.aoData = 1 .. n /\ DOMAIN rows = 1 .. n - 1
            /\ \A i \in (1 .. n) \ {target} :
                 /\ Lower(i, target) \in 1 .. n - 1
                 /\ rows[Lower(i, target)].text = s.aoData[i].text
<1> DEFINE n == Len(s.aoData)
           rows == SplicedRows(s, target)
           left == RemoveAt(s.aoData, target)
<1>1. s.aoData \in Seq(RowType) /\ RowsOK(s.aoData)
  BY DEF Base, RowsValid, RowsOK
<1>2. n \in Nat /\ DOMAIN s.aoData = 1 .. n /\ target \in 1 .. n
  BY <1>1
<1>3. /\ rows \in Seq(RowType) /\ Len(rows) = n - 1 /\ SameCells(left, rows)
  BY <1>1, SplicedRowsKeeps DEF RowsOK
<1>4. /\ left \in Seq(RowType) /\ Len(left) = n - 1
      /\ \A i \in 1 .. n - 1 : left[i] = IF i < target THEN s.aoData[i] ELSE s.aoData[i + 1]
  BY <1>1, <1>2, RemoveAtIs
<1> HIDE DEF rows, left, n
<1>5. DOMAIN rows = 1 .. n - 1 /\ DOMAIN left = 1 .. n - 1
  BY <1>2, <1>3, <1>4
<1>6. \A i \in 1 .. n - 1 : rows[i].text = left[i].text
  BY <1>3, <1>5 DEF SameCells
<1>7. ASSUME NEW i \in (1 .. n) \ {target}
      PROVE  Lower(i, target) \in 1 .. n - 1 /\ rows[Lower(i, target)].text = s.aoData[i].text
  <2>1. CASE i < target
    <3>1. Lower(i, target) = i /\ i \in 1 .. n - 1
      BY <1>2, <2>1 DEF Lower
    <3> QED BY <1>4, <1>6, <2>1, <3>1
  <2>2. CASE i > target
    <3> DEFINE j == i - 1
    <3>1. Lower(i, target) = j /\ j \in 1 .. n - 1 /\ ~(j < target) /\ j + 1 = i
      BY <1>2, <2>2 DEF Lower
    <3> HIDE DEF j
    <3> QED BY <1>4, <1>6, <3>1
  <2> QED BY <1>2, <2>1, <2>2
<1> QED BY <1>2, <1>5, <1>7 DEF n, rows

(* The table without a row, before it draws.                               *)
Deleted(s, v, target) ==
  /\ v.f = s.f /\ v.sSearch = s.sSearch /\ v.sColumn = s.sColumn /\ v.aaSorting = s.aaSorting
  /\ v.loose = s.loose /\ v.unsorted = s.unsorted
  /\ v.aoData = SplicedRows(s, target)
  /\ v.aiDisplayMaster = DeleteIndex(s.aiDisplayMaster, target)
  /\ v.aiDisplay = DeleteIndex(s.aiDisplay, target)
  /\ v.asDataSearch = SplicedSearch(s, target)
  /\ v.stale = (s.stale \/ IndexOf(s.aiDisplay, target) = {})

LEMMA DeletedExact ==
  ASSUME NEW s, Base(s), NEW target \in DOMAIN s.aoData, NEW v, Deleted(s, v, target), Exact(s)
  PROVE  Exact(v)
<1> DEFINE n == Len(s.aoData)
           F == FoundRows(s)
           G == FoundRows(v)
<1>1. /\ n \in Nat /\ DOMAIN s.aoData = 1 .. n /\ DOMAIN v.aoData = 1 .. n - 1
      /\ \A i \in (1 .. n) \ {target} :
           /\ Lower(i, target) \in 1 .. n - 1
           /\ v.aoData[Lower(i, target)].text = s.aoData[i].text
  BY SplicedTexts DEF Deleted
<1> HIDE DEF n
<1>2. ASSUME NEW i \in (1 .. n) \ {target}
      PROVE  i \in F <=> Lower(i, target) \in G
  <2> DEFINE j == Lower(i, target)
  <2>1. i \in DOMAIN s.aoData /\ j \in DOMAIN v.aoData /\ v.aoData[j].text = s.aoData[i].text
    BY <1>1
  <2> HIDE DEF j
  <2>2. Found(v, j) <=> Found(s, i)
    BY <2>1 DEF Found, Deleted
  <2>3. i \in F <=> j \in G
    BY <2>1, <2>2 DEF FoundRows
  <2> QED BY <2>3 DEF j
<1> HIDE DEF F, G
<1>3. Lowers(n, target, F, G)
  BY <1>2 DEF Lowers
<1>4. s.aiDisplayMaster \in Seq(1 .. n) /\ target \in 1 .. n
  BY <1>1, RowsAre
<1>5. DeleteIndex(Kept(s.aiDisplayMaster, F), target) = Kept(DeleteIndex(s.aiDisplayMaster, target), G)
  <2> DEFINE m == s.aiDisplayMaster
  <2>1. m \in Seq(1 .. n) /\ n \in Nat /\ target \in 1 .. n
    BY <1>1, <1>4
  <2> HIDE DEF m
  <2>2. DeleteIndex(Kept(m, F), target) = Kept(DeleteIndex(m, target), G)
    BY <1>3, <2>1, DeletedKept, SMTT(30)
  <2> QED BY <2>2 DEF m
<1> QED BY <1>5 DEF Exact, Deleted, F, G

(* A row that was displayed is gone from the texts displayed as well.      *)
LEMMA DeletedSearch ==
  ASSUME NEW s, Base(s), NEW target \in DOMAIN s.aoData, NEW v, Deleted(s, v, target),
         Remembered(s)
  PROVE  Remembered(v)
<1> DEFINE n == Len(s.aoData)
           d == s.aiDisplay
           m == s.aiDisplayMaster
           K == (1 .. n) \ {target}
           Out(p, seq) == [k \in 1 .. Len(seq) - 1 |-> IF k < p THEN seq[k] ELSE seq[k + 1]]
<1>1. SUFFICES ASSUME ~v.loose, ~v.stale, Len(v.aiDisplay) # Len(v.aiDisplayMaster)
               PROVE  v.asDataSearch = TextsAt(v, v.aiDisplay)
  BY DEF Remembered
<1>2. /\ n \in Nat /\ DOMAIN s.aoData = 1 .. n /\ DOMAIN v.aoData = 1 .. n - 1
      /\ \A i \in K : v.aoData[Lower(i, target)].text = s.aoData[i].text
  BY SplicedTexts DEF Deleted
<1>3. /\ d \in Seq(1 .. n) /\ m \in Seq(1 .. n) /\ target \in 1 .. n
      /\ \A i \in 1 .. n : s.aoData[i].text \in CellTexts
      /\ \A k \in DOMAIN d : d[k] \in 1 .. n
      /\ \A k \in DOMAIN m : m[k] \in 1 .. n
  <2> DEFINE S == DOMAIN s.aoData
  <2>1. d \in Seq(S) /\ m \in Seq(S) /\ \A i \in S : s.aoData[i].text \in CellTexts
    BY RowsAre
  <2> HIDE DEF d, m
  <2>2. (\A k \in DOMAIN d : d[k] \in S) /\ (\A k \in DOMAIN m : m[k] \in S)
    <3> HIDE DEF S
    <3> QED BY <2>1
  <2> QED BY <1>2, <2>1, <2>2
<1>4. /\ \A i, j \in DOMAIN d : d[i] = d[j] => i = j
      /\ \A i, j \in DOMAIN m : m[i] = m[j] => i = j
      /\ ToSet(m) = 1 .. n
  BY DEF Base, RowsValid, Indexes, Distinct
<1>5. ~s.loose /\ ~s.stale /\ IndexOf(d, target) # {}
  BY <1>1 DEF Deleted
<1>6. PICK p \in DOMAIN d : d[p] = target
  BY <1>5 DEF IndexOf
<1>7. PICK q \in DOMAIN m : m[q] = target
  BY <1>3, <1>4 DEF ToSet
<1> HIDE DEF n, d, m
<1>8. /\ v.aiDisplay = Shifted(Kept(d, K), target) /\ v.aiDisplayMaster = Shifted(Kept(m, K), target)
  BY <1>2, <1>3, DeleteIndexIs DEF Deleted, d, m
<1>9. Kept(d, K) = Out(p, d)
  <2>1. \A k \in DOMAIN d : d[k] \in K <=> k # p
    BY <1>3, <1>4, <1>6
  <2> HIDE DEF K
  <2> QED BY <1>3, <2>1, KeptRemoved
<1>10. Kept(m, K) = Out(q, m)
  <2>1. \A k \in DOMAIN m : m[k] \in K <=> k # q
    BY <1>3, <1>4, <1>7
  <2> HIDE DEF K
  <2> QED BY <1>3, <2>1, KeptRemoved
<1> DEFINE L == Len(d)
           M == Len(m)
<1>11. L \in Nat /\ M \in Nat /\ DOMAIN d = 1 .. L /\ DOMAIN m = 1 .. M /\ L >= 1 /\ M >= 1
  BY <1>3, <1>6, <1>7
<1> DEFINE x == Out(p, d)
<1>12. /\ DOMAIN x = 1 .. L - 1 /\ \A k \in 1 .. L - 1 : x[k] = IF k < p THEN d[k] ELSE d[k + 1]
       /\ DOMAIN Out(q, m) = 1 .. M - 1
  OBVIOUS
<1> HIDE DEF x, L, M
<1>22. v.aiDisplay = [k \in 1 .. L - 1 |-> Lower(x[k], target)]
  BY <1>8, <1>9, <1>12 DEF Shifted, x
<1>13. L # M
  <2>1. Len(v.aiDisplay) = L - 1
    BY <1>11, <1>22
  <2>2. Len(v.aiDisplayMaster) = M - 1
    <3> DEFINE y == Out(q, m)
    <3>1. DOMAIN y = 1 .. M - 1 /\ v.aiDisplayMaster = Shifted(y, target)
      BY <1>8, <1>10, <1>12
    <3> HIDE DEF y
    <3>2. v.aiDisplayMaster = [k \in 1 .. M - 1 |-> Lower(y[k], target)]
      BY <3>1 DEF Shifted
    <3> QED BY <1>11, <3>2
  <2> QED BY <1>1, <1>11, <2>1, <2>2
<1> DEFINE a == s.asDataSearch
<1>14. a = TextsAt(s, d)
  BY <1>5, <1>13 DEF Remembered, d, L, M, m
<1>15. a = [k \in 1 .. L |-> s.aoData[d[k]].text]
  BY <1>11, <1>14 DEF TextsAt
<1> HIDE DEF a
<1>16. a \in Seq(CellTexts) /\ Len(a) = L /\ DOMAIN a = 1 .. L
  <2>1. \A k \in 1 .. L : s.aoData[d[k]].text \in CellTexts
    BY <1>3, <1>11
  <2>2. a \in [1 .. L -> CellTexts]
    BY <1>15, <2>1
  <2> QED BY <1>11, <2>2
<1>17. p \in 1 .. L /\ v.asDataSearch = RemoveAt(a, p)
  <2>1. IndexOf(d, target) = {p}
    BY <1>4, <1>6 DEF IndexOf
  <2>2. p \in DOMAIN a /\ (CHOOSE i \in {p} : TRUE) = p
    BY <1>6, <1>11, <1>16
  <2>3. a # << >>
    BY <1>11, <1>16
  <2>4. SplicedSearch(s, target) = RemoveAt(a, CHOOSE i \in {p} : TRUE)
    BY <2>1, <2>2, <2>3 DEF SplicedSearch, a, d
  <2> QED BY <1>6, <1>11, <2>2, <2>4 DEF Deleted
<1> DEFINE b == RemoveAt(a, p)
<1>18. /\ b \in Seq(CellTexts) /\ Len(b) = L - 1
       /\ \A k \in 1 .. L - 1 : b[k] = IF k < p THEN a[k] ELSE a[k + 1]
  <2>1. p \in 1 .. Len(a)
    BY <1>16, <1>17
  <2> QED BY <1>16, <2>1, RemoveAtIs
<1> HIDE DEF b
<1>19. b = [k \in 1 .. L - 1 |-> b[k]]
  BY <1>11, <1>18
<1>20. TextsAt(v, v.aiDisplay) = [k \in 1 .. L - 1 |-> v.aoData[Lower(x[k], target)].text]
  BY <1>22 DEF TextsAt
<1>21. ASSUME NEW k \in 1 .. L - 1
       PROVE  b[k] = v.aoData[Lower(x[k], target)].text
  <2>1. x[k] \in K
    <3>1. \A j \in DOMAIN Kept(d, K) : Kept(d, K)[j] \in K
      BY <1>3, KeptIs
    <3> QED BY <1>9, <1>12, <3>1 DEF x
  <2>2. v.aoData[Lower(x[k], target)].text = s.aoData[x[k]].text
    BY <1>2, <2>1
  <2>3. k \in 1 .. L /\ k + 1 \in 1 .. L
    BY <1>11
  <2>4. b[k] = s.aoData[x[k]].text
    BY <1>12, <1>15, <1>18, <2>3
  <2> QED BY <2>2, <2>4
<1> HIDE DEF x, K
<1> QED BY <1>17, <1>19, <1>20, <1>21 DEF b

LEMMA DeletedSorted ==
  ASSUME NEW s, Base(s), NEW target \in DOMAIN s.aoData, NEW v, Deleted(s, v, target),
         MasterSorted(s)
  PROVE  MasterSorted(v)
<1> DEFINE n == Len(s.aoData)
           m == s.aiDisplayMaster
           K == (1 .. n) \ {target}
           y == Kept(m, K)
           z == v.aiDisplayMaster
<1>1. SUFFICES ASSUME Sorted(s, m)
               PROVE  Sorted(v, z)
  BY DEF MasterSorted, Deleted
<1>2. /\ n \in Nat /\ DOMAIN s.aoData = 1 .. n /\ target \in 1 .. n
      /\ \A i \in K : v.aoData[Lower(i, target)].text = s.aoData[i].text
  BY SplicedTexts DEF Deleted
<1>3. \A i, j \in K : Before(v, Lower(i, target), Lower(j, target)) <=> Before(s, i, j)
  BY <1>2 DEF Before, Deleted
<1>4. m \in Seq(1 .. n)
  BY <1>2, RowsAre
<1>5. z = Shifted(y, target)
  BY <1>2, <1>4, DeleteIndexIs DEF Deleted
<1> HIDE DEF n, m, K
<1>6. /\ \A k \in DOMAIN y : y[k] \in K
      /\ \A k, l \in DOMAIN y :
           k < l => \E i, j \in DOMAIN m : i < j /\ y[k] = m[i] /\ y[l] = m[j]
  BY <1>4, KeptIs
<1> HIDE DEF y
<1>7. DOMAIN z = DOMAIN y /\ \A k \in DOMAIN y : z[k] = Lower(y[k], target)
  BY <1>5 DEF Shifted
<1>8. \A k, l \in DOMAIN y : k < l => ~Before(s, y[l], y[k])
  BY <1>1, <1>6 DEF Sorted
<1> HIDE DEF z
<1>9. \A k, l \in DOMAIN z : k < l => ~Before(v, z[l], z[k])
  BY <1>3, <1>6, <1>7, <1>8
<1> QED BY <1>9 DEF Sorted, z

LEMMA DeletedListOK ==
  ASSUME NEW s, Base(s), NEW target \in DOMAIN s.aoData, NEW v, Deleted(s, v, target),
         v.cookie = s.cookie, ListOK(s)
  PROVE  ListOK(v)
<1>1. Typed(v)
  BY DEF ListOK, Typed, Deleted
<1>2. ASSUME ~v.f.bServerSide
      PROVE  Listed(v) /\ MasterSorted(v)
  <2>1. Listed(s) /\ MasterSorted(s)
    BY <1>2 DEF ListOK, Deleted
  <2>2. MasterSorted(v) /\ Remembered(v)
    BY <2>1, DeletedSorted, DeletedSearch DEF Listed
  <2>3. ~v.loose => Exact(v)
    BY <2>1, DeletedExact DEF Listed, Deleted
  <2> QED BY <2>2, <2>3 DEF Listed
<1> QED BY <1>1, <1>2 DEF ListOK

LEMMA DeleteRowShows ==
  ASSUME PageInv, ListInv, NEW redraw \in BOOLEAN, DeleteRow(redraw)
  PROVE  ListInv'
<1> DEFINE s == oSettings
           Removed(target) == [s EXCEPT
                      !.aoData = SplicedRows(s, target),
                      !.asDataSearch = SplicedSearch(s, target),
                      !.aiDisplayMaster = DeleteIndex(@, target),
                      !.aiDisplay = DeleteIndex(@, target),
                      !.stale = @ \/ IndexOf(s.aiDisplay, target) = {}]
           Moves(target) == [Removed(target) EXCEPT
                    !.start = StartAfterDelete(Removed(target)),
                    !.adrift = @ \/ Removed(target).length = -1]
<1>1. PICK target \in DOMAIN s.aoData :
        IF redraw THEN oSettings' = Draw(CalculateEnd(Moves(target)))
        ELSE oSettings' = [Moves(target) EXCEPT !.adrift = TRUE]
  BY DEF DeleteRow, Edited, Drawn
<1>2. Base(s) /\ Started(s) /\ ListOK(s)
  BY DEF PageInv, ListInv
<1> HIDE DEF s
<1>3. Base(Moves(target))
  BY <1>2, DeleteRowBase
<1> DEFINE t == Removed(target)
           v == Moves(target)
           start == StartAfterDelete(t)
           a == t.adrift \/ t.length = -1
<1>4. v = [t EXCEPT !.start = start, !.adrift = a]
  OBVIOUS
<1>5. Deleted(s, t, target) /\ IsSettings(t) /\ t.cookie = s.cookie
  BY <1>2 DEF Base, Deleted, IsSettings, Fields
<1> HIDE DEF t, start, a, v, Moves, Removed
<1>6. Leaves(t, v, {"start", "adrift"})
  BY <1>4, <1>5 DEF Leaves, IsSettings, Fields
<1>7. Deleted(s, v, target) /\ v.cookie = s.cookie
  BY <1>5, <1>6 DEF Deleted, Leaves, Fields
<1>8. ListOK(v)
  BY <1>2, <1>7, DeletedListOK
<1>9. Base(v)
  BY <1>3 DEF v
<1>10. ListOK(Draw(CalculateEnd(v))) /\ ListOK([v EXCEPT !.adrift = TRUE])
  BY <1>8, <1>9, DrawnAgain, LeftShows
<1> QED BY <1>1, <1>10 DEF v, ListInv

LEMMA NextShows ==
  PageInv /\ ListInv /\ [Next]_vars => ListInv'
<1> SUFFICES ASSUME PageInv, ListInv, [Next]_vars
             PROVE  ListInv'
  OBVIOUS
<1>1. CASE Reload \/ AjaxLoad \/ Answer \/ RequestFails
  BY <1>1, StartShows, AjaxLoadShows, AnswerShowsList
<1>2. CASE Type \/ SortClick \/ PageClick \/ PageNumberClick \/ LengthChange
  BY <1>2, TypeShows, SortClickShows, PagingShows
<1>3. CASE \E redraw \in BOOLEAN :
             AddData(redraw) \/ ClearRows(redraw) \/ DeleteRow(redraw) \/ Update(redraw)
  BY <1>3, AddDataShows, ClearRowsShows, DeleteRowShows, UpdateShows
<1>4. CASE CallFilter \/ CallSort \/ CallDraw \/ CallPageChange \/ Open \/ Close
  BY <1>4, CallFilterShows, SortClickShows, CallDrawShows, PagingShows, DetailsShow
<1>5. CASE UNCHANGED vars
  BY <1>5 DEF vars, ListInv
<1> QED BY <1>1, <1>2, <1>3, <1>4, <1>5 DEF Next

(* What ListInv says of what is displayed, in the words of the property.   *)
LEMMA ListedDisplay ==
  PageInv /\ ListInv => DisplayIsTheSearch
<1> SUFFICES ASSUME PageInv, ListInv, ClientSide, ~oSettings.loose
             PROVE  LET s == oSettings
                    IN /\ s.aiDisplay = ItemsAt(s.aiDisplayMaster,
                            {k \in DOMAIN s.aiDisplayMaster : Found(s, s.aiDisplayMaster[k])})
                       /\ s.f.bSort /\ s.aaSorting # "none" /\ ~s.unsorted =>
                            \A i, j \in DOMAIN s.aiDisplay :
                              i < j => ~Before(s, s.aiDisplay[j], s.aiDisplay[i])
  BY DEF DisplayIsTheSearch
<1> DEFINE s == oSettings
           m == s.aiDisplayMaster
           d == s.aiDisplay
<1>1. Base(s) /\ Exact(s) /\ MasterSorted(s)
  BY DEF PageInv, ListInv, ListOK, Listed, ClientSide
<1> HIDE DEF s
<1>2. m \in Seq(DOMAIN s.aoData) /\ \A k \in DOMAIN m : m[k] \in DOMAIN s.aoData
  <2>1. m \in Seq(DOMAIN s.aoData)
    BY <1>1, RowsAre
  <2> QED BY <2>1
<1>3. {k \in DOMAIN m : m[k] \in FoundRows(s)} = {k \in DOMAIN m : Found(s, m[k])}
  BY <1>2 DEF FoundRows
<1>4. d = ItemsAt(m, {k \in DOMAIN m : Found(s, m[k])})
  BY <1>1, <1>3 DEF Exact, Kept
<1>5. ASSUME s.f.bSort, s.aaSorting # "none", ~s.unsorted, NEW i \in DOMAIN d, NEW j \in DOMAIN d,
             i < j
      PROVE  ~Before(s, d[j], d[i])
  <2>1. d = Kept(m, FoundRows(s)) /\ Sorted(s, m)
    BY <1>1, <1>5 DEF Exact, MasterSorted
  <2> HIDE DEF m, d
  <2>2. PICK k, l \in DOMAIN m : k < l /\ d[i] = m[k] /\ d[j] = m[l]
    BY <1>2, <1>5, <2>1, KeptIs
  <2> QED BY <2>1, <2>2 DEF Sorted
<1> QED BY <1>4, <1>5 DEF s

(* Whatever is typed, sorted, added, updated and removed: a search that    *)
(* only refines what was displayed finds what a search of all rows finds.  *)
THEOREM DisplayAlwaysTheSearch == Spec => []DisplayIsTheSearch
<1>1. Init => ListInv
  BY StartShows
<1> QED BY <1>1, InitPage, NextPage, NextShows, ListedDisplay, PTL DEF Spec

-----------------------------------------------------------------------------
(***************************************************************************)
(* What a reload gives: the rows of the page in the one order that the     *)
(* sorting has, on the page that the cookie kept.                          *)
(***************************************************************************)
\* Indices 1 .. n, all of them, each before those it comes before in R.
Ranks(m, n, R) ==
  /\ Indexes(m, n) /\ ToSet(m) = 1 .. n
  /\ \A k, l \in DOMAIN m : k < l => <<m[k], m[l]>> \in R

LEMMA RankIs ==
  ASSUME NEW n \in Nat, NEW R, Ordered(1 .. n, R), NEW m, Ranks(m, n, R), NEW k \in 1 .. n
  PROVE  /\ DOMAIN m = 1 .. n /\ m[k] \in 1 .. n
         /\ Cardinality(Earlier(1 .. n, R, m[k])) = k - 1
<1> DEFINE I == 1 .. n
           T == Earlier(I, R, m[k])
           e == [j \in 1 .. k - 1 |-> m[j]]
<1>1. m \in Seq(I) /\ Distinct(m) /\ Len(m) = n
  BY IndexesCount DEF Ranks, Indexes
<1>2. DOMAIN m = I /\ \A j \in I : m[j] \in I
  BY <1>1
<1>3. k \in Int /\ 1 <= k /\ k <= n /\ k - 1 \in Nat
  OBVIOUS
<1>4. \A j \in 1 .. k - 1 : j \in I /\ j < k
  BY <1>3
<1>5. \A j, l \in I : j < l => <<m[j], m[l]>> \in R
  BY <1>2 DEF Ranks
<1>6. k \in I
  OBVIOUS
<1>7. \A j \in I : j \in Int
  OBVIOUS
<1>8. \A i \in I : \E j \in I : m[j] = i
  <2>1. \A i \in ToSet(m) : \E j \in DOMAIN m : m[j] = i
    BY DEF ToSet
  <2> QED BY <1>2, <2>1 DEF Ranks
<1>9. \A j, l \in I : m[j] = m[l] => j = l
  BY <1>1, <1>2 DEF Distinct
<1>10. /\ \A i \in I : <<i, i>> \notin R
       /\ \A i, j, l \in I : <<i, j>> \in R /\ <<j, l>> \in R => <<i, l>> \in R
  BY DEF Ordered
<1> HIDE DEF I
<1>11. \A i \in T : \E j \in 1 .. k - 1 : m[j] = i
  <2>1. SUFFICES ASSUME NEW i \in I, <<i, m[k]>> \in R
                 PROVE  \E j \in 1 .. k - 1 : m[j] = i
    BY DEF Earlier
  <2>2. PICK j \in I : m[j] = i
    BY <1>8
  <2>3. j # k
    BY <1>2, <1>6, <1>10, <2>1, <2>2
  <2>4. ~(k < j)
    BY <1>2, <1>5, <1>6, <1>10, <2>1, <2>2
  <2>5. j \in 1 .. k - 1
    <3>1. 1 <= j
      BY DEF I
    <3> QED BY <1>3, <1>7, <2>3, <2>4, <3>1
  <2> QED BY <2>2, <2>5
<1>12. \A j \in 1 .. k - 1 : m[j] \in T
  BY <1>2, <1>4, <1>5, <1>6 DEF Earlier
<1> HIDE DEF T
<1>13. e \in [1 .. k - 1 -> T] /\ \A j \in 1 .. k - 1 : e[j] = m[j]
  BY <1>12
<1> HIDE DEF e
<1>14. \A j, l \in 1 .. k - 1 : e[j] = e[l] => j = l
  BY <1>4, <1>9, <1>13
<1>15. \A i \in T : \E j \in 1 .. k - 1 : e[j] = i
  BY <1>11, <1>13
<1>16. Cardinality(T) = k - 1
  BY <1>3, <1>13, <1>14, <1>15, CountUp
<1> QED BY <1>2, <1>6, <1>16 DEF T, I

(* There is one such order.                                                *)
LEMMA OneRanking ==
  ASSUME NEW n \in Nat, NEW R, Ordered(1 .. n, R), NEW m, Ranks(m, n, R), NEW w, Ranks(w, n, R)
  PROVE  m = w
<1> DEFINE I == 1 .. n
<1>1. m \in Seq(I) /\ w \in Seq(I) /\ Len(m) = n /\ Len(w) = n
  BY IndexesCount DEF Ranks, Indexes
<1>2. ASSUME NEW k \in I
      PROVE  m[k] = w[k]
  <2> DEFINE a == m[k]
             b == w[k]
  <2>1. /\ a \in I /\ b \in I
        /\ Cardinality(Earlier(I, R, a)) = k - 1 /\ Cardinality(Earlier(I, R, b)) = k - 1
    BY RankIs
  <2>2. k - 1 \in Int
    OBVIOUS
  <2> HIDE DEF a, b
  <2>3. Cardinality(Earlier(I, R, a)) <= Cardinality(Earlier(I, R, b))
        /\ Cardinality(Earlier(I, R, b)) <= Cardinality(Earlier(I, R, a))
    BY <2>1, <2>2
  <2> HIDE DEF I
  <2>4. Ordered(I, R)
    BY DEF I
  <2>5. (a = b \/ <<a, b>> \in R) /\ (b = a \/ <<b, a>> \in R)
    BY <2>1, <2>3, <2>4, OnePlace
  <2>6. ~(<<a, b>> \in R /\ <<b, a>> \in R)
    BY <2>1, <2>4 DEF Ordered
  <2> QED BY <2>5, <2>6 DEF a, b
<1> HIDE DEF I
<1>3. DOMAIN m = 1 .. n /\ DOMAIN w = 1 .. n
  BY <1>1
<1>4. m = [k \in DOMAIN m |-> m[k]] /\ w = [k \in DOMAIN w |-> w[k]]
  BY <1>1
<1> QED BY <1>2, <1>3, <1>4 DEF I

\* Rows of the page that compare equal.
Alike(i, j) == ~Less(SourceRows[i], SourceRows[j]) /\ ~Less(SourceRows[j], SourceRows[i])

\* They stay in the order that the page has them in.
Ties(seq) == \A k, l \in DOMAIN seq : k < l /\ Alike(seq[k], seq[l]) => seq[k] < seq[l]

\* Nothing was added, removed or changed since the page was loaded.
Unedited(s) ==
  /\ DOMAIN s.aoData = DOMAIN SourceRows
  /\ \A i \in DOMAIN s.aoData : s.aoData[i].key = i /\ s.aoData[i].text = SourceRows[i]
  /\ Ties(s.aiDisplayMaster) /\ ~s.unsorted

\* The order of all rows that the sorting has.
Turns(s) ==
  {p \in (DOMAIN s.aoData) \X (DOMAIN s.aoData) :
     Before(s, p[1], p[2]) \/ (p[1] < p[2] /\ ~Before(s, p[2], p[1]))}

LEMMA TurnsOrdered ==
  ASSUME NEW s, RowsOK(s.aoData)
  PROVE  Ordered(DOMAIN s.aoData, Turns(s))
<1> DEFINE D == DOMAIN s.aoData
           R == Turns(s)
           BB == {p \in D \X D : Before(s, p[1], p[2])}
<1>1. D = 1 .. Len(s.aoData) /\ Len(s.aoData) \in Nat
  BY DEF RowsOK
<1>2. WeakOrder(s)
  BY BeforeWeak
<1>3. \A j, k, l \in D : /\ ~(<<j, k>> \in BB /\ <<k, j>> \in BB)
                         /\ <<j, l>> \in BB => <<j, k>> \in BB \/ <<k, l>> \in BB
  BY <1>2 DEF WeakOrder
<1>4. \A k, l \in D : <<k, l>> \in R <=> (<<k, l>> \in BB \/ (k < l /\ <<l, k>> \notin BB))
  BY DEF Turns
<1>5. \A k \in D : k \in Int
  BY <1>1
<1>6. IsFiniteSet(D)
  BY <1>1, FS_Interval
<1> HIDE DEF D, R, BB
<1>7. \A k \in D : <<k, k>> \notin R
  BY <1>3, <1>4, <1>5
<1>8. \A k, l \in D : k < l \/ k = l \/ l < k
  BY <1>5
<1>9. \A j, k, l \in D : j < k /\ k < l => j < l
  BY <1>5
<1>10. ASSUME NEW k \in D, NEW l \in D
       PROVE  k = l \/ <<k, l>> \in R \/ <<l, k>> \in R
  <2>1. k < l \/ k = l \/ l < k
    BY <1>8
  <2>2. /\ <<k, l>> \in R <=> (<<k, l>> \in BB \/ (k < l /\ <<l, k>> \notin BB))
        /\ <<l, k>> \in R <=> (<<l, k>> \in BB \/ (l < k /\ <<k, l>> \notin BB))
    BY <1>4
  <2> QED BY <2>1, <2>2, Zenon
<1>11. ASSUME NEW j \in D, NEW k \in D, NEW l \in D, <<j, k>> \in R, <<k, l>> \in R
       PROVE  <<j, l>> \in R
  <2>1. /\ <<j, k>> \in R <=> (<<j, k>> \in BB \/ (j < k /\ <<k, j>> \notin BB))
        /\ <<k, l>> \in R <=> (<<k, l>> \in BB \/ (k < l /\ <<l, k>> \notin BB))
        /\ <<j, l>> \in R <=> (<<j, l>> \in BB \/ (j < l /\ <<l, j>> \notin BB))
    BY <1>4
  <2>2. j < k /\ k < l => j < l
    BY <1>9
  <2>3. /\ <<j, k>> \in BB => <<j, l>> \in BB \/ <<l, k>> \in BB
        /\ <<k, l>> \in BB => <<k, j>> \in BB \/ <<j, l>> \in BB
        /\ <<l, j>> \in BB => <<l, k>> \in BB \/ <<k, j>> \in BB
        /\ ~(<<k, l>> \in BB /\ <<l, k>> \in BB)
        /\ ~(<<j, k>> \in BB /\ <<k, j>> \in BB)
    BY <1>3
  <2> QED BY <1>11, <2>1, <2>2, <2>3, Zenon
<1> QED BY <1>6, <1>7, <1>10, <1>11 DEF Ordered, D, R

(* A master that is sorted, with ties as the page has them, has the rows   *)
(* in that order.                                                          *)
LEMMA MasterRanks ==
  ASSUME NEW s, RowsValid(s), Unedited(s), Sorted(s, s.aiDisplayMaster)
  PROVE  Ranks(s.aiDisplayMaster, Len(s.aoData), Turns(s))
<1> DEFINE m == s.aiDisplayMaster
           n == Len(s.aoData)
<1>1. n \in Nat /\ DOMAIN s.aoData = 1 .. n /\ Indexes(m, n) /\ ToSet(m) = 1 .. n
  BY DEF RowsValid, RowsOK
<1>2. \A k \in DOMAIN m : m[k] \in DOMAIN s.aoData
  <2>1. m \in Seq(1 .. n)
    BY <1>1 DEF Indexes
  <2> HIDE DEF m, n
  <2> QED BY <1>1, <2>1
<1>3. ASSUME NEW k \in DOMAIN m, NEW l \in DOMAIN m, k < l
      PROVE  <<m[k], m[l]>> \in Turns(s)
  <2> DEFINE a == m[k]
             b == m[l]
  <2>1. a \in DOMAIN s.aoData /\ b \in DOMAIN s.aoData
    BY <1>2
  <2>2. ~Before(s, b, a)
    BY <1>3 DEF Sorted
  <2>3. Alike(a, b) => a < b
    BY <1>3 DEF Unedited, Ties
  <2> HIDE DEF a, b
  <2>4. s.aoData[a].text = SourceRows[a] /\ s.aoData[b].text = SourceRows[b]
    BY <2>1 DEF Unedited
  <2>5. Before(s, a, b) \/ Alike(a, b)
    BY <2>2, <2>4 DEF Before, Alike
  <2>6. <<a, b>> \in Turns(s)
    BY <2>1, <2>2, <2>3, <2>5 DEF Turns
  <2> QED BY <2>6 DEF a, b
<1> QED BY <1>1, <1>3 DEF Ranks

(* Sorting leaves the ties.                                                *)
LEMMA SortedMasterTies ==
  ASSUME NEW s, Base(s), Unedited(s)
  PROVE  Ties(SortedMaster(s))
<1> DEFINE m == s.aiDisplayMaster
           P == DOMAIN m
           R == InOrder(s)
           N == Cardinality(P)
           w == SortedMaster(s)
<1>1. CASE s.f.bServerSide \/ s.aaSorting = "none"
  <2>1. SortedMaster(s) = m
    BY <1>1 DEF SortedMaster
  <2> QED BY <2>1 DEF Unedited
<1>2. CASE ~(s.f.bServerSide \/ s.aaSorting = "none")
  <2>1. /\ Enumerated(P, R) /\ N = Len(m) /\ \A n : Nth(s, n) = InTurn(P, R, n)
    BY NthInTurn DEF Base
  <2>2. m \in Seq(DOMAIN s.aoData)
    BY RowsAre
  <2>3. P = 1 .. N
    BY <2>1, <2>2
  <2>4. w = [n \in P |-> m[Nth(s, n)]]
    BY <1>2 DEF SortedMaster
  <2>5. SUFFICES ASSUME NEW k \in P, NEW l \in P, k < l, Alike(w[k], w[l])
                 PROVE  w[k] < w[l]
    BY <2>4 DEF Ties
  <2> DEFINE i == Nth(s, k)
             j == Nth(s, l)
  <2>6. i \in P /\ j \in P /\ <<i, j>> \in R
    <3> HIDE DEF P, R
    <3> QED BY <2>1, <2>3, <2>5 DEF Enumerated
  <2>7. w[k] = m[i] /\ w[l] = m[j]
    BY <2>4, <2>5
  <2> HIDE DEF i, j, w
  <2>8. Before(s, m[i], m[j]) \/ (i < j /\ ~Before(s, m[j], m[i]))
    BY <2>6 DEF InOrder, Precedes
  <2>9. m[i] \in DOMAIN s.aoData /\ m[j] \in DOMAIN s.aoData
    <3> HIDE DEF m
    <3> QED BY <2>2, <2>6
  <2>10. ~Before(s, m[i], m[j])
    <3> DEFINE a == m[i]
               b == m[j]
    <3>1. a \in DOMAIN s.aoData /\ b \in DOMAIN s.aoData /\ Alike(a, b)
      BY <2>5, <2>7, <2>9
    <3> HIDE DEF a, b
    <3>2. s.aoData[a].text = SourceRows[a] /\ s.aoData[b].text = SourceRows[b]
      BY <3>1 DEF Unedited
    <3>3. ~Before(s, a, b)
      BY <3>1, <3>2 DEF Before, Alike
    <3> QED BY <3>3 DEF a, b
  <2>11. Ties(m)
    BY DEF Unedited
  <2>12. m[i] < m[j]
    BY <2>5, <2>6, <2>7, <2>8, <2>10, <2>11 DEF Ties
  <2> QED BY <2>7, <2>12
<1> QED BY <1>1, <1>2

\* A table that has its rows from the page and sorts them.
SortsItself(s) == s.f.bSort /\ ~s.f.bServerSide /\ s.f.source = "dom"

\* It waits for no rows, and no start is below that of the last page of an
\* empty table.
Low(s) ==
  /\ ~s.loading /\ s.initStart >= -1 /\ s.start >= -1
  /\ \A saved \in s.cookie : saved.start >= -1

Quiet(s) == SortsItself(s) /\ Low(s) /\ s.initStart = -1

InView(s) == s.start < 0 => s.aiDisplay = << >>

\* The body shows the page, and the cookie has it.
OnPage(s) ==
  /\ RowsOf(s.body) = [j \in DOMAIN Page(s) |-> Row(Page(s)[j])]
  /\ s.end = CalculateEnd(s).end
  /\ s.f.bStateSave => s.cookie = {SavedState(s)}

Faithful(s) == Unedited(s) /\ InView(s) /\ OnPage(s)

\* The same rows, in the same order.
LEMMA UneditedSame ==
  ASSUME NEW s, NEW r, DOMAIN r.aoData = DOMAIN s.aoData,
         \A i \in DOMAIN s.aoData :
           r.aoData[i].key = s.aoData[i].key /\ r.aoData[i].text = s.aoData[i].text,
         r.aiDisplayMaster = s.aiDisplayMaster, r.unsorted = s.unsorted
  PROVE  Unedited(s) => Unedited(r)
BY DEF Unedited

(* The first draw goes to the start that was asked for.                    *)
LEMMA TakeInitStartIs ==
  ASSUME NEW s, Base(s), ~s.f.bServerSide
  PROVE  LET u == TakeInitStart(s)
         IN /\ s.initStart = -1 => u = s
            /\ s.initStart # -1 =>
                 /\ u.start = IF s.initStart >= Len(s.aiDisplay) THEN 0 ELSE s.initStart
                 /\ u.initStart = -1 /\ u.end = CalculateEnd(u).end
<1> DEFINE start == InitStart(s)
           m == [s EXCEPT !.start = start, !.initStart = -1]
           u == CalculateEnd(m)
<1>1. s.initStart = -1 => TakeInitStart(s) = s
  BY DEF TakeInitStart
<1>2. SUFFICES ASSUME s.initStart # -1
               PROVE  /\ TakeInitStart(s).start =
                           IF s.initStart >= Len(s.aiDisplay) THEN 0 ELSE s.initStart
                      /\ TakeInitStart(s).initStart = -1
                      /\ TakeInitStart(s).end = CalculateEnd(TakeInitStart(s)).end
  BY <1>1
<1>3. TakeInitStart(s) = u
  BY <1>2 DEF TakeInitStart
<1>4. start = IF s.initStart >= Len(s.aiDisplay) THEN 0 ELSE s.initStart
  BY DEF InitStart, RecordsDisplay
<1> HIDE DEF start
<1>5. m.start = start /\ m.initStart = -1 /\ IsSettings(m)
  BY DEF Base, IsSettings, Fields
<1> HIDE DEF m
<1>6. Leaves(m, u, {"end"})
  BY <1>5, CalculateEndLeaves
<1> HIDE DEF u
<1>7. /\ u.start = start /\ u.initStart = -1 /\ u.f = m.f /\ u.length = m.length
      /\ u.aiDisplay = m.aiDisplay /\ IsSettings(u)
  BY <1>5, <1>6 DEF Leaves, Fields
<1>8. CalculateEnd(u).end = CalculateEnd(m).end
  BY <1>5, <1>7, EndSame
<1>9. u.end = CalculateEnd(u).end
  BY <1>8 DEF u
<1> QED BY <1>3, <1>4, <1>7, <1>9

LEMMA DrawIs ==
  ASSUME NEW s, ~s.f.bServerSide, NEW u, u = TakeInitStart(s), u.f = s.f
  PROVE  Draw(s) = InsertRows(u)
BY DEF Draw

(* A draw saves what it draws.                                             *)
LEMMA InsertRowsSaves ==
  ASSUME NEW s, Base(s), Ready(s), Quiet(s)
  PROVE  /\ Quiet(InsertRows(s))
         /\ Unedited(s) /\ InView(s) /\ s.end = CalculateEnd(s).end => Faithful(InsertRows(s))
<1> DEFINE b == BodyOf(s)
           p == [s EXCEPT !.body = b]
           I == ToSet(Page(s))
           q == CreateTrs(p, I)
           r == InsertRows(s)
           Throws == s.start < 0 /\ ~s.f.bServerSide /\ s.aiDisplay # << >>
<1>1. IsSettings(s) /\ ~s.f.bServerSide /\ s.f.bStateSave \in BOOLEAN
  BY FeaturesBoolean DEF Base, Quiet, SortsItself
<1>2. Throws => r = s
  BY DEF InsertRows
<1>3. ~Throws => r = SaveState(q)
  BY DEF InsertRows
<1>4. IsSettings(p) /\ p.body = b /\ Leaves(s, p, {"body"})
  <2> HIDE DEF b
  <2> QED BY <1>1 DEF Leaves, IsSettings, Fields
<1> HIDE DEF p, r, I
<1>5. p.aoData = s.aoData /\ RowsOK(p.aoData)
  BY <1>4 DEF Leaves, Fields, Base, RowsValid
<1>6. Leaves(p, q, {"aoData"}) /\ SameCells(p.aoData, q.aoData)
  BY <1>4, <1>5, CreateTrsLeaves, CreateTrsKeeps
<1> HIDE DEF q
<1>7. IsSettings(q) /\ Leaves(q, SaveState(q), {"cookie"})
  BY <1>6, SaveStateLeaves DEF Leaves
<1>8. q.body = b /\ q.f = s.f /\ q.start = s.start /\ q.cookie = s.cookie
  BY <1>4, <1>6 DEF Leaves, Fields
<1>9. SaveState(q).cookie = IF s.f.bStateSave THEN {SavedState(q)} ELSE s.cookie
  BY <1>7, <1>8 DEF SaveState, IsSettings, Fields
<1>10. ASSUME ~Throws
       PROVE  /\ Quiet(r)
              /\ Unedited(s) /\ InView(s) /\ s.end = CalculateEnd(s).end => Faithful(r)
  <2>1. r = SaveState(q)
    BY <1>3, <1>10
  <2>2. /\ r.f = s.f /\ r.start = s.start /\ r.initStart = s.initStart /\ r.loading = s.loading
        /\ r.length = s.length /\ r.aaSorting = s.aaSorting /\ r.sSearch = s.sSearch
        /\ r.sColumn = s.sColumn /\ r.end = s.end /\ r.aiDisplay = s.aiDisplay
        /\ r.aiDisplayMaster = s.aiDisplayMaster /\ r.unsorted = s.unsorted
        /\ r.aoData = q.aoData /\ r.body = b /\ IsSettings(r)
    BY <1>4, <1>6, <1>7, <1>8, <2>1 DEF Leaves, Fields
  <2>3. SavedState(q).start = s.start
    BY <1>8 DEF SavedState
  <2>4. r.cookie = IF s.f.bStateSave THEN {SavedState(r)} ELSE s.cookie
    <3>1. SavedState(q) = SavedState(r)
      BY <1>7, <2>1 DEF SavedState, Leaves, Fields
    <3> QED BY <1>9, <2>1, <3>1
  <2>5. Quiet(r)
    <3>1. SavedState(r).start = s.start
      BY <2>2 DEF SavedState
    <3> QED BY <1>1, <2>2, <2>4, <3>1 DEF Quiet, SortsItself, Low
  <2>6. ASSUME Unedited(s), InView(s), s.end = CalculateEnd(s).end
        PROVE  Faithful(r)
    <3>1. s.start >= 0 \/ s.aiDisplay = << >>
      <4>1. s.start \in Int
        BY DEF Base, Numbers
      <4> QED BY <2>6, <4>1 DEF InView
    <3>2. Indexes(Page(s), Len(s.aoData)) /\ RowsOK(s.aoData)
      BY <3>1, PageIndexes DEF Base, RowsValid
    <3>3. RowsOf(b) = [j \in DOMAIN Page(s) |-> Row(s.aoData[Page(s)[j]].key)]
      BY <3>2, RowsOfBody
    <3>4. \A j \in DOMAIN Page(s) : s.aoData[Page(s)[j]].key = Page(s)[j]
      <4> DEFINE page == Page(s)
                 S == DOMAIN s.aoData
      <4>1. page \in Seq(S)
        BY <3>2 DEF Indexes, RowsOK
      <4> HIDE DEF page, S
      <4>2. \A j \in DOMAIN page : page[j] \in S
        BY <4>1
      <4>3. \A j \in DOMAIN page : s.aoData[page[j]].key = page[j]
        BY <2>6, <4>2 DEF Unedited, S
      <4> QED BY <4>3 DEF page
    <3>5. Page(r) = Page(s)
      BY <2>2 DEF Page
    <3> DEFINE page == Page(s)
    <3>6. RowsOf(b) = [j \in DOMAIN page |-> Row(page[j])]
      <4>1. RowsOf(b) = [j \in DOMAIN page |-> Row(s.aoData[page[j]].key)]
        BY <3>3
      <4>2. \A j \in DOMAIN page : s.aoData[page[j]].key = page[j]
        BY <3>4
      <4> HIDE DEF page, b
      <4> QED BY <4>1, <4>2
    <3>7. RowsOf(r.body) = [j \in DOMAIN Page(r) |-> Row(Page(r)[j])]
      <4>1. RowsOf(r.body) = RowsOf(b)
        BY <2>2, Zenon
      <4> HIDE DEF b
      <4> QED BY <3>5, <3>6, <4>1
    <3>8. r.end = CalculateEnd(r).end
      <4>1. CalculateEnd(r).end = CalculateEnd(s).end
        BY <1>1, <2>2, EndSame
      <4> QED BY <2>2, <2>6, <4>1
    <3>9. OnPage(r)
      BY <2>2, <2>4, <3>7, <3>8 DEF OnPage
    <3>10. Unedited(r)
      <4>1. /\ DOMAIN r.aoData = DOMAIN s.aoData
            /\ \A i \in DOMAIN s.aoData :
                 r.aoData[i].key = s.aoData[i].key /\ r.aoData[i].text = s.aoData[i].text
        <5>1. DOMAIN q.aoData = DOMAIN p.aoData
          BY <1>6 DEF CreateTrs, q
        <5> QED BY <1>5, <1>6, <2>2, <5>1 DEF SameCells
      <4> QED BY <2>2, <2>6, <4>1, UneditedSame
    <3> QED BY <2>2, <2>6, <3>9, <3>10 DEF Faithful, InView
  <2> QED BY <2>5, <2>6
<1>11. ASSUME Throws
       PROVE  Quiet(r) /\ ~InView(s)
  BY <1>2, <1>11 DEF InView
<1> QED BY <1>10, <1>11 DEF r

(* A draw from a table whose end is that of its page.                      *)
LEMMA DrawSaves ==
  ASSUME NEW x, Base(x), SortsItself(x), Low(x),
         x.initStart = -1 => Started(x) /\ x.end = CalculateEnd(x).end
  PROVE  /\ Quiet(Draw(x))
         /\ Unedited(x) /\ (x.initStart = -1 => InView(x)) => Faithful(Draw(x))
         /\ Draw(x).start = IF x.initStart = -1 THEN x.start
                            ELSE IF x.initStart >= Len(x.aiDisplay) THEN 0 ELSE x.initStart
<1> DEFINE u == TakeInitStart(x)
           c == CalculateEnd(x)
<1>1. IsSettings(x) /\ ~x.f.bServerSide /\ x.initStart \in Int /\ x.start \in Int
      /\ Len(x.aiDisplay) \in Nat
  BY DisplayCounted DEF Base, SortsItself, Numbers
<1>2. x.initStart = -1 => Ready(x)
  <2>1. Leaves(x, c, {"end"})
    BY <1>1, CalculateEndLeaves
  <2>2. x.initStart = -1 => Ready(c)
    BY CalculateEndReady
  <2> HIDE DEF c
  <2>3. c.f = x.f /\ c.start = x.start /\ c.aiDisplay = x.aiDisplay /\ c.adrift = x.adrift
    BY <2>1 DEF Leaves, Fields
  <2>4. x.initStart = -1 => c.end = x.end
    BY DEF c
  <2> QED BY <2>2, <2>3, <2>4 DEF Ready
<1>3. Base(u) /\ Started(u) /\ Ready(u) /\ Leaves(x, u, {"start", "initStart", "end"})
  BY <1>2, TakeInitStartReady
<1>4. /\ x.initStart = -1 => u = x
      /\ x.initStart # -1 =>
           /\ u.start = IF x.initStart >= Len(x.aiDisplay) THEN 0 ELSE x.initStart
           /\ u.initStart = -1 /\ u.end = CalculateEnd(u).end
  BY <1>1, TakeInitStartIs
<1> HIDE DEF u
<1>5. /\ u.f = x.f /\ u.loading = x.loading /\ u.cookie = x.cookie /\ u.aoData = x.aoData
      /\ u.aiDisplayMaster = x.aiDisplayMaster /\ u.unsorted = x.unsorted
      /\ u.aiDisplay = x.aiDisplay
  BY <1>3 DEF Leaves, Fields
<1>6. Draw(x) = InsertRows(u)
  BY <1>1, <1>5, DrawIs DEF u
<1>7. x.initStart # -1 => u.start >= 0 /\ u.start \in Int
  BY <1>1, <1>4 DEF Low
<1>8. u.initStart = -1 /\ u.end = CalculateEnd(u).end
  BY <1>4
<1>9. Quiet(u)
  BY <1>1, <1>4, <1>5, <1>7, <1>8 DEF Quiet, SortsItself, Low
<1>10. Unedited(x) => Unedited(u)
  BY <1>5 DEF Unedited
<1>11. (x.initStart = -1 => InView(x)) => InView(u)
  BY <1>4, <1>7 DEF InView
<1>12. /\ Quiet(InsertRows(u))
       /\ Unedited(u) /\ InView(u) => Faithful(InsertRows(u))
  BY <1>3, <1>8, <1>9, InsertRowsSaves
<1>13. InsertRows(u).start = u.start
  <2>1. Leaves(u, InsertRows(u), {"body", "aoData", "cookie"})
    BY <1>3, InsertRowsLeaves DEF Base
  <2> QED BY <2>1 DEF Leaves, Fields
<1> QED BY <1>4, <1>6, <1>10, <1>11, <1>12, <1>13

LEMMA DrawnAnewSaves ==
  ASSUME NEW s, Base(s), Started(s), SortsItself(s), Low(s)
  PROVE  LET r == Draw(CalculateEnd(s))
         IN /\ Quiet(r) /\ (Unedited(s) /\ InView(s) => Faithful(r))
            /\ r.start = IF s.initStart = -1 THEN s.start
                         ELSE IF s.initStart >= Len(s.aiDisplay) THEN 0 ELSE s.initStart
<1> DEFINE c == CalculateEnd(s)
<1>1. Base(c) /\ Started(c) /\ Leaves(s, c, {"end"})
  BY CalculateEndIs, CalculateEndReady
<1>2. c.end = CalculateEnd(c).end
  BY EndAgain DEF Base
<1> HIDE DEF c
<1>3. /\ c.f = s.f /\ c.loading = s.loading /\ c.cookie = s.cookie /\ c.aoData = s.aoData
      /\ c.aiDisplayMaster = s.aiDisplayMaster /\ c.unsorted = s.unsorted
      /\ c.aiDisplay = s.aiDisplay /\ c.start = s.start /\ c.initStart = s.initStart
  BY <1>1 DEF Leaves, Fields
<1>4. SortsItself(c) /\ Low(c)
  BY <1>3 DEF SortsItself, Low
<1>5. (Unedited(s) => Unedited(c)) /\ (InView(s) => InView(c))
  BY <1>3 DEF Unedited, InView
<1>6. /\ Quiet(Draw(c)) /\ (Unedited(c) /\ InView(c) => Faithful(Draw(c)))
      /\ Draw(c).start = IF c.initStart = -1 THEN c.start
                         ELSE IF c.initStart >= Len(c.aiDisplay) THEN 0 ELSE c.initStart
  BY <1>1, <1>2, <1>4, DrawSaves
<1>7. /\ Quiet(Draw(c)) /\ (Unedited(s) /\ InView(s) => Faithful(Draw(c)))
      /\ Draw(c).start = IF s.initStart = -1 THEN s.start
                         ELSE IF s.initStart >= Len(s.aiDisplay) THEN 0 ELSE s.initStart
  BY <1>3, <1>5, <1>6
<1> QED BY <1>7 DEF c

\* What is not on the page and not in the cookie.
LEMMA QuietAside ==
  ASSUME NEW s, NEW r, Leaves(s, r, {"asDataSearch", "stale", "adrift", "loose"})
  PROVE  (Quiet(s) => Quiet(r)) /\ (Faithful(s) => Faithful(r))
<1>1. /\ r.f = s.f /\ r.loading = s.loading /\ r.cookie = s.cookie /\ r.aoData = s.aoData
      /\ r.aiDisplayMaster = s.aiDisplayMaster /\ r.unsorted = s.unsorted
      /\ r.aiDisplay = s.aiDisplay /\ r.start = s.start /\ r.initStart = s.initStart
      /\ r.body = s.body /\ r.end = s.end /\ r.length = s.length
      /\ r.sSearch = s.sSearch /\ r.sColumn = s.sColumn /\ r.aaSorting = s.aaSorting
      /\ IsSettings(s) /\ IsSettings(r)
  BY DEF Leaves, Fields
<1>2. Quiet(s) => Quiet(r)
  BY <1>1 DEF Quiet, SortsItself, Low
<1>3. CalculateEnd(r).end = CalculateEnd(s).end
  BY <1>1, EndSame
<1>4. Page(r) = Page(s) /\ SavedState(r) = SavedState(s)
  BY <1>1 DEF Page, SavedState
<1>5. Unedited(s) => Unedited(r)
  BY <1>1, UneditedSame
<1>6. OnPage(s) => OnPage(r)
  BY <1>1, <1>3, <1>4 DEF OnPage
<1>7. InView(s) => InView(r)
  BY <1>1 DEF InView
<1> QED BY <1>2, <1>5, <1>6, <1>7 DEF Faithful

LEMMA FilteredIs ==
  ASSUME NEW s, IsSettings(s), ~s.f.bServerSide, NEW input, NEW force \in BOOLEAN
  PROVE  LET t == Filtered(s, input, force)
         IN t.start = 0 /\ t.sSearch = input /\ (force => t.loose = FALSE)
<1> DEFINE t == Filtered(s, input, force)
           w == Filter(s, input, force)
           v == FilterColumn(w)
<1>1. Leaves(s, w, {"aiDisplay", "loose"})
  BY FilterLeaves
<1>2. force => w.loose = FALSE
  <2> DEFINE Result(display) == [s EXCEPT !.aiDisplay = display, !.loose = FALSE]
             a == s.aiDisplayMaster
             b == Accepted(s, s.aiDisplayMaster, input)
  <2>1. force => w = Result(a) \/ w = Result(b)
    BY DEF Filter
  <2> HIDE DEF w, a, b
  <2>2. \A display : Result(display).loose = FALSE
    BY DEF IsSettings, Fields
  <2> HIDE DEF Result
  <2> QED BY <2>1, <2>2
<1>3. t = [v EXCEPT !.sSearch = input, !.start = 0, !.adrift = FALSE]
  BY DEF Filtered
<1> HIDE DEF w
<1>4. Leaves(w, v, {"aiDisplay"})
  BY <1>1, FilterColumnLeaves DEF Leaves
<1> HIDE DEF v, t
<1>5. IsSettings(v) /\ v.loose = w.loose
  BY <1>4 DEF Leaves, Fields
<1>6. t.start = 0 /\ t.sSearch = input /\ t.loose = v.loose
  BY <1>3, <1>5 DEF IsSettings, Fields
<1> QED BY <1>2, <1>5, <1>6 DEF t

\* Where a table begins once it was searched or sorted.
First(s, display) ==
  IF s.initStart = -1 THEN 0 ELSE IF s.initStart >= Len(display) THEN 0 ELSE s.initStart

LEMMA FilterCompleteSaves ==
  ASSUME NEW s, Base(s), SortsItself(s), Low(s), NEW input, NEW force \in BOOLEAN
  PROVE  LET r == FilterComplete(s, input, force)
         IN /\ Quiet(r) /\ (Unedited(s) => Faithful(r))
            /\ r.start = First(s, r.aiDisplay) /\ r.sSearch = input /\ (force => r.loose = FALSE)
<1> DEFINE t == Filtered(s, input, force)
           u == Draw(CalculateEnd(t))
           r == BuildSearchArray(u)
<1>1. Base(t) /\ Started(t)
  BY FilteredGood
<1>2. Leaves(s, t, {"aiDisplay", "loose", "sSearch", "start", "adrift"})
  BY FilteredLeaves DEF Base
<1>3. t.start = 0 /\ t.sSearch = input /\ (force => t.loose = FALSE)
  BY FilteredIs DEF Base, SortsItself
<1>4. FilterComplete(s, input, force) = r
  BY FilterCompleteIs
<1> HIDE DEF t
<1>5. /\ t.f = s.f /\ t.loading = s.loading /\ t.cookie = s.cookie /\ t.aoData = s.aoData
      /\ t.aiDisplayMaster = s.aiDisplayMaster /\ t.unsorted = s.unsorted
      /\ t.initStart = s.initStart
  BY <1>2 DEF Leaves, Fields
<1>6. SortsItself(t) /\ Low(t) /\ InView(t) /\ (Unedited(s) => Unedited(t))
  BY <1>3, <1>5 DEF SortsItself, Low, InView, Unedited
<1>7. /\ Quiet(u) /\ (Unedited(t) => Faithful(u))
      /\ u.start = IF t.initStart = -1 THEN t.start
                   ELSE IF t.initStart >= Len(t.aiDisplay) THEN 0 ELSE t.initStart
  BY <1>1, <1>6, DrawnAnewSaves
<1>8. SameList(t, u) /\ IsSettings(u)
  <2>1. Good(u)
    BY <1>1, DrawAnew
  <2> QED BY <1>1, <2>1, DrawnAgain DEF Good, Base
<1> HIDE DEF u
<1>9. u.aiDisplay = t.aiDisplay /\ u.sSearch = t.sSearch /\ u.loose = t.loose
  BY <1>8 DEF SameList, ListFields
<1>10. Leaves(u, r, {"asDataSearch", "stale"})
  BY <1>8, BuildSearchArrayLeaves
<1> HIDE DEF r
<1>11. Leaves(u, r, {"asDataSearch", "stale", "adrift", "loose"})
  BY <1>10 DEF Leaves
<1>12. Quiet(r) /\ (Unedited(s) => Faithful(r))
  BY <1>6, <1>7, <1>11, QuietAside
<1>13. r.start = u.start /\ r.aiDisplay = u.aiDisplay /\ r.sSearch = u.sSearch /\ r.loose = u.loose
  BY <1>10 DEF Leaves, Fields
<1>14. r.start = First(s, r.aiDisplay)
  BY <1>3, <1>5, <1>7, <1>9, <1>13 DEF First
<1> QED BY <1>3, <1>4, <1>9, <1>12, <1>13, <1>14

LEMMA UnfilteredSaves ==
  ASSUME NEW s, Base(s), SortsItself(s), Low(s)
  PROVE  LET r == Draw(CalculateEnd(Unfiltered(s)))
         IN /\ Quiet(r) /\ (Unedited(s) => Faithful(r))
            /\ r.start = First(s, r.aiDisplay) /\ r.sSearch = s.sSearch /\ r.loose = FALSE
<1> DEFINE u == Unfiltered(s)
           r == Draw(CalculateEnd(u))
<1>1. Leaves(s, u, {"aiDisplay", "start", "adrift", "loose"})
  BY UnfilteredLeaves DEF Base
<1>2. u.start = 0 /\ u.aiDisplay = s.aiDisplayMaster /\ u.loose = FALSE
  BY DEF Unfiltered, Base, IsSettings, Fields
<1> HIDE DEF u
<1>3. /\ u.initStart = s.initStart /\ u.end = s.end /\ u.length = s.length
      /\ u.aiDisplayMaster = s.aiDisplayMaster /\ u.f = s.f /\ u.sSearch = s.sSearch
      /\ u.cookie = s.cookie /\ u.aoData = s.aoData /\ u.loading = s.loading
      /\ u.unsorted = s.unsorted
  BY <1>1 DEF Leaves, Fields
<1>4. Base(u)
  <2>1. Leaves(s, u, Aside \cup {"aiDisplay", "aiDisplayMaster", "start", "initStart", "end", "length"})
    BY <1>1 DEF Leaves, Aside
  <2>2. /\ u.start \in Int /\ u.initStart \in Int /\ u.end \in Int /\ u.length \in PageLengths
        /\ Indexes(u.aiDisplay, Len(s.aoData)) /\ Indexes(u.aiDisplayMaster, Len(s.aoData))
    BY <1>2, <1>3 DEF Base, Numbers, RowsValid
  <2> QED BY <1>3, <2>1, <2>2, BaseMoved
<1>5. Started(u)
  BY <1>2 DEF Started
<1>6. SortsItself(u) /\ Low(u) /\ InView(u) /\ (Unedited(s) => Unedited(u))
  BY <1>2, <1>3 DEF SortsItself, Low, InView, Unedited
<1>7. /\ Quiet(r) /\ (Unedited(u) /\ InView(u) => Faithful(r))
      /\ r.start = IF u.initStart = -1 THEN u.start
                   ELSE IF u.initStart >= Len(u.aiDisplay) THEN 0 ELSE u.initStart
  BY <1>4, <1>5, <1>6, DrawnAnewSaves
<1>8. SameList(u, r)
  BY <1>4, DrawnAgain
<1> HIDE DEF r
<1>9. r.aiDisplay = u.aiDisplay /\ r.sSearch = u.sSearch /\ r.loose = u.loose
  BY <1>8 DEF SameList, ListFields
<1>10. r.start = First(s, r.aiDisplay)
  BY <1>2, <1>3, <1>7, <1>9 DEF First
<1> QED BY <1>2, <1>3, <1>6, <1>7, <1>9, <1>10 DEF r, u

(* Sorting saves what it draws.                                            *)
LEMMA SortSaves ==
  ASSUME NEW s, Base(s), SortsItself(s), Low(s)
  PROVE  LET r == Sort(s)
         IN /\ Quiet(r) /\ (Unedited(s) => Faithful(r))
            /\ r.start = First(s, r.aiDisplay) /\ r.sSearch = s.sSearch /\ r.loose = FALSE
<1> DEFINE t == Ranked(s)
           r == Sort(s)
           a == FilterComplete(t, t.sSearch, TRUE)
           b == Draw(CalculateEnd(Unfiltered(t)))
<1>1. /\ Leaves(s, t, {"aiDisplayMaster", "unsorted"})
      /\ t.aiDisplayMaster = SortedMaster(s) /\ t.unsorted = FALSE
  BY RankedLeaves DEF Base
<1>2. r = AfterSort(t)
  BY DEF Sort, Ranked
<1> HIDE DEF t
<1>3. /\ t.f = s.f /\ t.sSearch = s.sSearch /\ t.cookie = s.cookie
      /\ t.aoData = s.aoData /\ t.loading = s.loading
      /\ t.start = s.start /\ t.initStart = s.initStart /\ t.end = s.end /\ t.length = s.length
      /\ t.aiDisplay = s.aiDisplay
  BY <1>1 DEF Leaves, Fields
<1>4. Base(t)
  <2>1. Leaves(s, t, Aside \cup {"aiDisplay", "aiDisplayMaster", "start", "initStart", "end", "length"})
    BY <1>1 DEF Leaves, Aside
  <2>2. Indexes(t.aiDisplayMaster, Len(s.aoData)) /\ ToSet(t.aiDisplayMaster) = ToSet(s.aiDisplayMaster)
    BY <1>1, SortedMasterIndexes DEF Base
  <2>3. /\ t.start \in Int /\ t.initStart \in Int /\ t.end \in Int /\ t.length \in PageLengths
        /\ Indexes(t.aiDisplay, Len(s.aoData))
    BY <1>3 DEF Base, Numbers, RowsValid
  <2> QED BY <2>1, <2>2, <2>3, BaseMoved
<1>5. SortsItself(t) /\ Low(t)
  BY <1>3 DEF SortsItself, Low
<1>6. Unedited(s) => Unedited(t)
  <2>1. Unedited(s) => Ties(t.aiDisplayMaster)
    BY <1>1, SortedMasterTies
  <2> QED BY <1>1, <1>3, <2>1 DEF Unedited
<1>7. /\ Quiet(a) /\ (Unedited(t) => Faithful(a))
      /\ a.start = First(t, a.aiDisplay) /\ a.sSearch = t.sSearch /\ a.loose = FALSE
  BY <1>4, <1>5, FilterCompleteSaves
<1>8. /\ Quiet(b) /\ (Unedited(t) => Faithful(b))
      /\ b.start = First(t, b.aiDisplay) /\ b.sSearch = t.sSearch /\ b.loose = FALSE
  BY <1>4, <1>5, UnfilteredSaves
<1>9. r = a \/ r = b
  <2>1. /\ t.f.bFilter => AfterSort(t) = a
        /\ ~t.f.bFilter => AfterSort(t) = b
    BY AfterSortIs
  <2> HIDE DEF a, b
  <2> QED BY <1>2, <2>1
<1>10. \A display : First(t, display) = First(s, display)
  BY <1>3 DEF First
<1> HIDE DEF a, b, r
<1>11. /\ Quiet(r) /\ (Unedited(t) => Faithful(r))
       /\ r.start = First(t, r.aiDisplay) /\ r.sSearch = t.sSearch /\ r.loose = FALSE
  BY <1>7, <1>8, <1>9
<1>12. /\ Quiet(r) /\ (Unedited(s) => Faithful(r))
       /\ r.start = First(s, r.aiDisplay) /\ r.sSearch = s.sSearch /\ r.loose = FALSE
  BY <1>3, <1>6, <1>10, <1>11
<1> QED BY <1>12 DEF r

LEMMA ReDrawSaves ==
  ASSUME NEW s, Base(s), SortsItself(s), Low(s)
  PROVE  Quiet(ReDraw(s)) /\ (Unedited(s) => Faithful(ReDraw(s)))
<1>1. ReDraw(s) = Sort(s)
  BY DEF ReDraw, SortsItself
<1> QED BY <1>1, SortSaves

(* Another page: the same rows from another place.                         *)
LEMMA TurnedSaves ==
  ASSUME NEW s, Quiet(s), NEW v, Base(v), Started(v),
         Leaves(s, v, {"start", "end", "length", "adrift"}),
         v.end = CalculateEnd(v).end, v.start >= -1
  PROVE  /\ Quiet(v) /\ Quiet(Draw(v))
         /\ Unedited(s) => Unedited(v) /\ (InView(v) => Faithful(Draw(v)))
<1>1. /\ v.f = s.f /\ v.loading = s.loading /\ v.cookie = s.cookie /\ v.aoData = s.aoData
      /\ v.aiDisplayMaster = s.aiDisplayMaster /\ v.unsorted = s.unsorted
      /\ v.initStart = s.initStart
  BY DEF Leaves, Fields
<1>2. Quiet(v) /\ (Unedited(s) => Unedited(v))
  BY <1>1 DEF Quiet, SortsItself, Low, Unedited
<1>3. Quiet(Draw(v)) /\ (Unedited(v) /\ InView(v) => Faithful(Draw(v)))
  BY <1>2, DrawSaves DEF Quiet
<1> QED BY <1>2, <1>3

\* A place that paging leads to is before the first row only in an empty table.
Reached(s, start) == start \in Int /\ start >= -1 /\ (InView(s) /\ start < 0 => s.aiDisplay = << >>)

LEMMA PageStartReached ==
  ASSUME NEW s, Base(s), Started(s), Quiet(s), NEW action \in {"first", "previous", "next", "last"}
  PROVE  Reached(s, PageStart(s, action))
<1> DEFINE L == s.length
           R == RecordsDisplay(s)
           start == s.start
           to == PageStart(s, action)
<1>1. /\ L \in Int /\ (L = -1 \/ L > 0) /\ R \in Nat /\ start \in Int /\ start >= -1
      /\ R = 0 => s.aiDisplay = << >>
      /\ InView(s) /\ start < 0 => s.aiDisplay = << >>
  BY DisplayCounted DEF Base, Numbers, PageLengths, RecordsDisplay, Quiet, SortsItself, Low, InView
<1>2. to \in Int
  BY PageStartOK DEF StartOK
<1>3. CASE L < 0
  <2>1. to = 0
    BY <1>1, <1>3 DEF PageStart
  <2> QED BY <2>1 DEF Reached
<1>4. CASE ~(L < 0) /\ action = "first"
  <2>1. to = 0
    BY <1>1, <1>4 DEF PageStart
  <2> QED BY <2>1 DEF Reached
<1>5. CASE ~(L < 0) /\ action = "previous"
  <2>1. to = IF start - L < 0 THEN 0 ELSE start - L
    BY <1>1, <1>5 DEF PageStart, NotBelow0
  <2> HIDE DEF L, R, start, to
  <2>2. to >= 0
    BY <1>1, <1>5, <2>1
  <2> QED BY <1>2, <2>2 DEF Reached, to
<1>6. CASE ~(L < 0) /\ action = "next"
  <2>1. to = IF start + L < R THEN start + L ELSE start
    BY <1>1, <1>6 DEF PageStart, NextStart
  <2> HIDE DEF L, R, start, to
  <2>2. to >= 0 \/ to = start
    BY <1>1, <1>6, <2>1
  <2>3. to >= -1 /\ (InView(s) /\ to < 0 => s.aiDisplay = << >>)
    BY <1>1, <1>2, <2>2
  <2> QED BY <1>2, <2>3 DEF Reached, to
<1>7. CASE ~(L < 0) /\ action = "last"
  <2>1. to = LastPage(s) * L
    BY <1>1, <1>7 DEF PageStart
  <2>2. LastPage(s) = IF R = 0 /\ L > 1 THEN 0 ELSE (R - 1) \div L
    BY DEF LastPage
  <2> DEFINE q == LastPage(s)
             a == R - 1
  <2> HIDE DEF L, R, start, to, q
  <2>3. L \in Nat \ {0} /\ a \in Int
    BY <1>1, <1>7
  <2> HIDE DEF a
  <2>4. CASE R = 0 /\ L > 1
    <3>1. q = 0
      BY <2>2, <2>4 DEF q
    <3>2. to = 0
      BY <1>1, <2>1, <3>1 DEF q
    <3> QED BY <3>2 DEF Reached, to
  <2>5. CASE R = 0 /\ L = 1
    <3>1. q = (-1) \div 1
      BY <2>2, <2>5 DEF q, a
    <3>2. to = -1
      BY <2>1, <2>5, <3>1 DEF q
    <3> QED BY <1>1, <2>5, <3>2 DEF Reached, to
  <2>6. CASE R # 0
    <3>1. q = a \div L
      BY <2>2, <2>6 DEF q, a
    <3>2. a >= 0
      BY <1>1, <2>6 DEF a
    <3>3. q \in Int /\ q >= 0
      BY <2>3, <3>1, <3>2
    <3>4. to >= 0
      BY <2>1, <2>3, <3>3 DEF q
    <3> QED BY <1>2, <3>4 DEF Reached, to
  <2> QED BY <1>1, <2>3, <2>4, <2>5, <2>6
<1> QED BY <1>3, <1>4, <1>5, <1>6, <1>7

LEMMA NumberStartReached ==
  ASSUME NEW s, Base(s), NEW page \in Nat, page = 0 \/ s.length > 0
  PROVE  Reached(s, NumberStart(s, page))
<1> DEFINE L == s.length
           R == RecordsDisplay(s)
           to == NumberStart(s, page)
           x == page * L
<1>1. L \in Int /\ (page = 0 \/ L > 0)
  BY DEF Base, Numbers, PageLengths
<1>2. to = IF x > R THEN 0 ELSE x
  BY DEF NumberStart
<1>3. x \in Int /\ x >= 0
  BY <1>1
<1> HIDE DEF L, R, to, x
<1>4. to \in Int /\ to >= 0
  BY <1>2, <1>3
<1> QED BY <1>4 DEF Reached, to

LEMMA GoToIs ==
  ASSUME NEW s, IsSettings(s), NEW start
  PROVE  LET r == GoTo(s, start)
         IN Leaves(s, r, {"start", "end"}) /\ r.start = start /\ r.end = CalculateEnd(r).end
<1> DEFINE t == [s EXCEPT !.start = start]
           r == CalculateEnd(t)
<1>1. IsSettings(t) /\ t.start = start
  BY DEF IsSettings, Fields
<1>2. GoTo(s, start) = r
  BY DEF GoTo
<1>3. Leaves(s, GoTo(s, start), {"start", "end"})
  BY GoToLeaves
<1> HIDE DEF t
<1>4. Leaves(t, r, {"end"}) /\ r.end = CalculateEnd(r).end
  BY <1>1, CalculateEndLeaves, EndAgain
<1>5. r.start = start
  BY <1>1, <1>4 DEF Leaves, Fields
<1> QED BY <1>2, <1>3, <1>4, <1>5

LEMMA GoToSaves ==
  ASSUME NEW s, Base(s), Started(s), Quiet(s), NEW start, StartOK(s, start), Reached(s, start)
  PROVE  /\ Quiet(Draw(GoTo(s, start)))
         /\ Unedited(s) /\ InView(s) => Faithful(Draw(GoTo(s, start)))
<1> DEFINE v == GoTo(s, start)
<1>1. Leaves(s, v, {"start", "end"}) /\ v.start = start /\ v.end = CalculateEnd(v).end
  BY GoToIs DEF Base
<1>2. Base(v) /\ Started(v)
  BY GoToGood
<1> HIDE DEF v
<1>3. Leaves(s, v, {"start", "end", "length", "adrift"})
  BY <1>1 DEF Leaves
<1>4. v.aiDisplay = s.aiDisplay
  BY <1>1 DEF Leaves, Fields
<1>5. InView(s) => InView(v)
  BY <1>1, <1>4 DEF Reached, InView
<1>6. v.start >= -1
  BY <1>1 DEF Reached
<1>7. Quiet(Draw(v)) /\ (Unedited(s) /\ InView(v) => Faithful(Draw(v)))
  BY <1>1, <1>2, <1>3, <1>6, TurnedSaves
<1> QED BY <1>5, <1>7 DEF v

(***************************************************************************)
(* The steps, one by one: the rows are those of the page until they are    *)
(* edited, and the cookie is that of the last draw.                        *)
(***************************************************************************)
Saved(s, changes, left) ==
  /\ changes \in Nat
  /\ SortsItself(s) =>
       /\ Quiet(s)
       /\ changes = 0 => Unedited(s) /\ InView(s) /\ (~left => OnPage(s))

SavedInv == Saved(oSettings, edits, undrawn)

LEMMA DrawnSaves ==
  ASSUME NEW r, oSettings' = r, undrawn' = FALSE, edits' \in Nat,
         SortsItself(r) => Quiet(r) /\ (edits' = 0 => Faithful(r))
  PROVE  SavedInv'
BY DEF SavedInv, Saved, Faithful

LEMMA LeftSaves ==
  ASSUME NEW r, oSettings' = r, undrawn' = TRUE, edits' \in Nat,
         SortsItself(r) => Quiet(r) /\ (edits' = 0 => Unedited(r) /\ InView(r))
  PROVE  SavedInv'
BY DEF SavedInv, Saved

\* Nothing but what was typed, or the direction, is changed before the draw.
LEMMA SetAside ==
  ASSUME NEW s, Base(s), NEW t, Leaves(s, t, {"sSearch", "sColumn", "aaSorting"})
  PROVE  /\ Base(t) /\ t.f = s.f
         /\ (SortsItself(s) => SortsItself(t)) /\ (Low(s) => Low(t)) /\ (Unedited(s) => Unedited(t))
<1>1. /\ t.f = s.f /\ t.loading = s.loading /\ t.cookie = s.cookie /\ t.aoData = s.aoData
      /\ t.aiDisplayMaster = s.aiDisplayMaster /\ t.unsorted = s.unsorted
      /\ t.initStart = s.initStart /\ t.start = s.start
  BY DEF Leaves, Fields
<1>2. Leaves(s, t, Aside)
  BY DEF Leaves, Aside
<1>3. Base(t)
  BY <1>2, BaseAside
<1> QED BY <1>1, <1>3 DEF SortsItself, Low, Unedited

LEMMA SearchSaves ==
  ASSUME PageInv, SavedInv, Type \/ CallFilter
  PROVE  SavedInv'
<1> DEFINE s == oSettings
           Column(input) == [s EXCEPT !.sColumn = input]
           Searched(t) == \E input : \E force \in BOOLEAN : oSettings' = FilterComplete(t, input, force)
<1>1. Base(s) /\ IsSettings(s) /\ Saved(s, edits, undrawn)
  BY DEF PageInv, Base, SavedInv
<1>2. /\ undrawn' = FALSE /\ edits' = edits
      /\ Searched(s) \/ \E input : Searched(Column(input))
  <2>1. CASE Type
    BY <2>1 DEF Type, Drawn
  <2>2. CASE CallFilter
    <3>1. \/ \E input \in Inputs : oSettings' = FilterComplete(s, input, TRUE)
          \/ \E input \in ColumnInputs : oSettings' = FilterComplete(Column(input), s.sSearch, TRUE)
      BY <2>2 DEF CallFilter, Drawn
    <3>2. undrawn' = FALSE /\ edits' = edits
      BY <2>2 DEF CallFilter, Drawn
    <3> HIDE DEF Column, s
    <3> QED BY <3>1, <3>2
  <2> QED BY <2>1, <2>2
<1> HIDE DEF s
<1>3. PICK t : Leaves(s, t, {"sSearch", "sColumn", "aaSorting"}) /\ Searched(t)
  <2>1. Leaves(s, s, {"sSearch", "sColumn", "aaSorting"})
    BY <1>1 DEF Leaves
  <2>2. \A input : Leaves(s, Column(input), {"sSearch", "sColumn", "aaSorting"})
    BY <1>1 DEF Leaves, IsSettings, Fields
  <2> HIDE DEF Column, Searched
  <2> QED BY <1>2, <2>1, <2>2
<1>4. PICK input : \E force \in BOOLEAN : oSettings' = FilterComplete(t, input, force)
  BY <1>3
<1>5. PICK force \in BOOLEAN : oSettings' = FilterComplete(t, input, force)
  BY <1>4
<1>6. /\ Base(t) /\ t.f = s.f
      /\ (SortsItself(s) => SortsItself(t)) /\ (Low(s) => Low(t)) /\ (Unedited(s) => Unedited(t))
  BY <1>1, <1>3, SetAside
<1> DEFINE r == FilterComplete(t, input, force)
<1>7. r.f = s.f
  <2>1. Asked(t, r)
    BY <1>6, FilterCompleteAsks DEF Base
  <2> QED BY <1>6, <2>1 DEF Asked
<1>8. SortsItself(t) /\ Low(t) => Quiet(r) /\ (Unedited(t) => Faithful(r))
  BY <1>6, FilterCompleteSaves
<1> HIDE DEF r
<1>9. SortsItself(r) => Quiet(r) /\ (edits' = 0 => Faithful(r))
  BY <1>1, <1>2, <1>6, <1>7, <1>8 DEF Saved, Quiet, SortsItself
<1> QED BY <1>1, <1>2, <1>5, <1>9, DrawnSaves DEF r, Saved

LEMMA SortClickSaves ==
  ASSUME PageInv, SavedInv, SortClick \/ CallSort
  PROVE  SavedInv'
<1> DEFINE s == oSettings
<1>1. Base(s) /\ IsSettings(s) /\ Saved(s, edits, undrawn)
  BY DEF PageInv, Base, SavedInv
<1>2. PICK dir : /\ oSettings' = Sort([s EXCEPT !.aaSorting = dir])
                 /\ undrawn' = FALSE /\ edits' = edits
  BY DEF SortClick, CallSort, Drawn
<1> HIDE DEF s
<1> DEFINE t == [s EXCEPT !.aaSorting = dir]
           r == Sort(t)
<1>3. Leaves(s, t, {"sSearch", "sColumn", "aaSorting"})
  BY <1>1 DEF Leaves, IsSettings, Fields
<1>4. oSettings' = r
  BY <1>2
<1> HIDE DEF t
<1>5. /\ Base(t) /\ t.f = s.f
      /\ (SortsItself(s) => SortsItself(t)) /\ (Low(s) => Low(t)) /\ (Unedited(s) => Unedited(t))
  BY <1>1, <1>3, SetAside
<1>6. r.f = s.f
  <2>1. Asked(t, r)
    BY <1>5, SortAsks DEF Base
  <2> QED BY <1>5, <2>1 DEF Asked
<1>7. SortsItself(t) /\ Low(t) => Quiet(r) /\ (Unedited(t) => Faithful(r))
  BY <1>5, SortSaves
<1> HIDE DEF r
<1>8. SortsItself(r) => Quiet(r) /\ (edits' = 0 => Faithful(r))
  BY <1>1, <1>2, <1>5, <1>6, <1>7 DEF Saved, Quiet, SortsItself
<1> QED BY <1>1, <1>2, <1>4, <1>8, DrawnSaves DEF Saved

LEMMA CallDrawSaves ==
  ASSUME PageInv, SavedInv, CallDraw
  PROVE  SavedInv'
<1> DEFINE s == oSettings
           a == ReDraw(s)
           b == Draw(CalculateEnd(s))
<1>1. /\ Base(s) /\ IsSettings(s) /\ Started(s) /\ Saved(s, edits, undrawn)
      /\ s.f.bSort \in BOOLEAN /\ s.f.bFilter \in BOOLEAN
  BY ServerSide DEF PageInv, Base, SavedInv
<1>2. (oSettings' = a \/ oSettings' = b) /\ undrawn' = FALSE /\ edits' = edits
  BY DEF CallDraw, Drawn
<1> HIDE DEF s
<1>3. a.f = s.f /\ b.f = s.f
  BY <1>1, ReDrawAsks, DrawnAnew DEF Asked
<1>4. SortsItself(s) /\ Low(s) => Quiet(a) /\ (Unedited(s) => Faithful(a))
  BY <1>1, ReDrawSaves
<1>5. SortsItself(s) /\ Low(s) => Quiet(b) /\ (Unedited(s) /\ InView(s) => Faithful(b))
  BY <1>1, DrawnAnewSaves
<1> HIDE DEF a, b
<1>6. /\ SortsItself(a) => Quiet(a) /\ (edits' = 0 => Faithful(a))
      /\ SortsItself(b) => Quiet(b) /\ (edits' = 0 => Faithful(b))
  BY <1>1, <1>2, <1>3, <1>4, <1>5 DEF Saved, Quiet, SortsItself
<1> QED BY <1>1, <1>2, <1>6, DrawnSaves DEF Saved

LEMMA PageClickSaves ==
  ASSUME PageInv, SavedInv, PageClick \/ PageNumberClick
  PROVE  SavedInv'
<1> DEFINE s == oSettings
           Leads(start) == /\ oSettings' = Draw(GoTo(s, start)) /\ undrawn' = FALSE /\ edits' = edits
                           /\ StartOK(s, start) /\ (Quiet(s) => Reached(s, start))
<1>1. Base(s) /\ Started(s) /\ Saved(s, edits, undrawn)
  BY DEF PageInv, SavedInv
<1>2. \E start : Leads(start)
  <2>1. CASE PageClick
    <3>1. PICK action \in {"first", "previous", "next", "last"} :
            oSettings' = Draw(GoTo(s, PageStart(s, action))) /\ undrawn' = FALSE /\ edits' = edits
      BY <2>1 DEF PageClick, Drawn
    <3> DEFINE start == PageStart(s, action)
    <3>2. StartOK(s, start) /\ (Quiet(s) => Reached(s, start))
      BY <1>1, PageStartOK, PageStartReached
    <3> HIDE DEF start
    <3>3. Leads(start)
      BY <3>1, <3>2 DEF start
    <3> HIDE DEF Leads
    <3> QED BY <3>3
  <2>2. CASE PageNumberClick
    <3>1. PICK button \in PageButtons(RecordsDisplay(s), s.length, s.start, ShowPages).buttons :
            /\ oSettings' = Draw(GoTo(s, NumberStart(s, button - 1)))
            /\ undrawn' = FALSE /\ edits' = edits
      BY <2>2 DEF PageNumberClick, Drawn
    <3>2. s.length > 0
      BY <2>2 DEF PageNumberClick
    <3>3. s.length \in Nat \ {0} /\ RecordsDisplay(s) \in Nat /\ s.start \in Int
      BY <1>1, <3>2, DisplayCounted DEF Base, Numbers, PageLengths, RecordsDisplay
    <3> DEFINE page == button - 1
               start == NumberStart(s, page)
    <3>4. page \in Nat
      <4>1. button \in Int /\ 1 <= button
        BY <3>1, <3>3, ButtonsLead
      <4> QED BY <4>1
    <3>5. StartOK(s, start)
      BY <1>1, <3>1, <3>2, NumberStartOK
    <3> HIDE DEF page
    <3>6. Reached(s, start)
      BY <1>1, <3>2, <3>4, NumberStartReached
    <3> HIDE DEF start
    <3>7. Leads(start)
      BY <3>1, <3>5, <3>6 DEF start, page
    <3> HIDE DEF Leads
    <3> QED BY <3>7
  <2> QED BY <2>1, <2>2
<1> HIDE DEF s
<1>3. PICK start : Leads(start)
  BY <1>2
<1> DEFINE r == Draw(GoTo(s, start))
<1>4. r.f = s.f
  <2>1. Leaves(s, GoTo(s, start), {"start", "end"})
    BY <1>1, GoToLeaves DEF Base
  <2>2. Asked(GoTo(s, start), r)
    BY <2>1, DrawAsks DEF Leaves
  <2> QED BY <2>1, <2>2 DEF Asked, Leaves, Fields
<1>5. Quiet(s) => Quiet(r) /\ (Unedited(s) /\ InView(s) => Faithful(r))
  BY <1>1, <1>3, GoToSaves
<1>6. oSettings' = r
  BY <1>3
<1> HIDE DEF r
<1>7. SortsItself(r) => Quiet(r) /\ (edits' = 0 => Faithful(r))
  BY <1>1, <1>3, <1>4, <1>5 DEF Saved, SortsItself
<1> QED BY <1>1, <1>3, <1>6, <1>7, DrawnSaves DEF Saved

(* A length chosen moves the start only to where the page ends where it    *)
(* did.                                                                    *)
LEMMA LengthChangeIs ==
  ASSUME NEW s, Base(s), ~s.f.bServerSide, s.f.bPaginate, NEW length \in PageLengths
  PROVE  LET changed == CalculateEnd([s EXCEPT !.length = length])
             next == [changed EXCEPT !.start = LengthStart(changed)]
         IN /\ Leaves(s, next, {"start", "end", "length", "adrift"})
            /\ next.end = CalculateEnd(next).end
            /\ next.start = s.start \/ next.start >= 0
<1> DEFINE t == [s EXCEPT !.length = length]
           u == CalculateEnd(t)
           start == LengthStart(u)
           v == [u EXCEPT !.start = start]
           D == Len(s.aiDisplay)
           End(from) == IF from + length > D \/ length = -1 THEN D ELSE from + length
<1>1. Leaves(s, t, {"length"}) /\ t.length = length
  BY DEF Base, Leaves, IsSettings, Fields
<1> HIDE DEF t
<1>2. /\ t.start = s.start /\ t.aiDisplay = s.aiDisplay /\ t.f = s.f
  BY <1>1 DEF Leaves, Fields
<1>3. Leaves(t, u, {"end"})
  BY <1>1, CalculateEndLeaves DEF Leaves
<1>4. u.end = End(s.start)
  <2> DEFINE e == IF ~t.f.bPaginate \/ t.start + t.length > Len(t.aiDisplay) \/ t.length = -1
                  THEN Len(t.aiDisplay) ELSE t.start + t.length
  <2>1. e = End(s.start)
    BY <1>1, <1>2
  <2>2. u = [t EXCEPT !.end = e]
    BY DEF CalculateEnd
  <2> HIDE DEF e, u
  <2>3. u.end = e
    BY <1>1, <2>2 DEF Leaves, IsSettings, Fields
  <2> QED BY <2>1, <2>3
<1> HIDE DEF u
<1>5. /\ u.start = s.start /\ u.length = length /\ u.aiDisplay = s.aiDisplay /\ u.f = s.f
  BY <1>1, <1>2, <1>3 DEF Leaves, Fields
<1>6. D \in Nat /\ s.start \in Int /\ length \in Int /\ (length = -1 \/ length > 0)
  BY DisplayCounted DEF Base, Numbers, PageLengths
<1>7. start = CASE length = -1 -> 0
                [] length # -1 /\ u.end = D -> IF D - length < 0 THEN 0 ELSE D - length
                [] OTHER -> s.start
  <2>1. DisplayEnd(u) = u.end /\ RecordsDisplay(u) = D
    BY <1>5 DEF DisplayEnd, RecordsDisplay
  <2>2. start = CASE length = -1 -> 0
                  [] length # -1 /\ DisplayEnd(u) = RecordsDisplay(u) ->
                       NotBelow0(DisplayEnd(u) - length)
                  [] OTHER -> s.start
    BY <1>5 DEF LengthStart
  <2> HIDE DEF start, D
  <2>3. length # -1 /\ u.end = D => start = NotBelow0(D - length)
    BY <2>1, <2>2
  <2> QED BY <2>1, <2>2, <2>3 DEF NotBelow0
<1> HIDE DEF start, D
<1>8. start \in Int /\ (start = s.start \/ start >= 0) /\ End(start) = u.end
  <2>1. CASE length = -1
    BY <1>4, <1>7, <2>1
  <2>2. CASE length # -1 /\ u.end = D
    BY <1>4, <1>6, <1>7, <2>2
  <2>3. CASE length # -1 /\ u.end # D
    BY <1>4, <1>6, <1>7, <2>3
  <2> QED BY <2>1, <2>2, <2>3
<1>9. Leaves(u, v, {"start"}) /\ v.start = start
  BY <1>3 DEF Leaves, IsSettings, Fields
<1> HIDE DEF v
<1>10. Leaves(s, v, {"start", "end", "length", "adrift"})
  BY <1>1, <1>3, <1>9 DEF Leaves
<1>11. v.end = CalculateEnd(v).end
  <2>1. /\ v.end = u.end /\ v.length = length /\ v.aiDisplay = s.aiDisplay /\ v.f = s.f
        /\ IsSettings(v)
    BY <1>5, <1>9 DEF Leaves, Fields
  <2> DEFINE e == IF ~v.f.bPaginate \/ v.start + v.length > Len(v.aiDisplay) \/ v.length = -1
                  THEN Len(v.aiDisplay) ELSE v.start + v.length
             w == CalculateEnd(v)
  <2>2. e = End(start)
    BY <1>9, <2>1 DEF D
  <2>3. w = [v EXCEPT !.end = e]
    BY DEF CalculateEnd
  <2> HIDE DEF e, w
  <2>4. w.end = e
    BY <2>1, <2>3 DEF IsSettings, Fields
  <2> QED BY <1>8, <2>1, <2>2, <2>4 DEF w
<1> QED BY <1>8, <1>9, <1>10, <1>11 DEF v, start, u, t

LEMMA LengthChangeSaves ==
  ASSUME PageInv, SavedInv, LengthChange
  PROVE  SavedInv'
<1> DEFINE s == oSettings
           Changed(length) == CalculateEnd([s EXCEPT !.length = length])
           Moves(length) == [Changed(length) EXCEPT !.start = LengthStart(Changed(length))]
<1>1. PICK length \in s.f.aLengthMenu : oSettings' = Draw(Moves(length))
  BY DEF LengthChange, Drawn
<1>2. undrawn' = FALSE /\ edits' = edits /\ s.f.bPaginate
  BY DEF LengthChange, Drawn
<1>3. length \in PageLengths
  BY FeaturesAssumption DEF PageInv, Base, PageLengths
<1>4. Base(s) /\ Started(s) /\ Saved(s, edits, undrawn)
  BY DEF PageInv, SavedInv
<1> HIDE DEF s
<1> DEFINE v == Moves(length)
           r == Draw(v)
<1>5. Base(v) /\ Started(v)
  BY <1>2, <1>3, <1>4, LengthChangeGood
<1>6. ~s.f.bServerSide => /\ Leaves(s, v, {"start", "end", "length", "adrift"})
                          /\ v.end = CalculateEnd(v).end
                          /\ v.start = s.start \/ v.start >= 0
  BY <1>2, <1>3, <1>4, LengthChangeIs
<1>7. oSettings' = r
  BY <1>1
<1>8. v.f = s.f
  <2>1. Changed(length).f = s.f /\ IsSettings(Changed(length))
    <3> DEFINE t == [s EXCEPT !.length = length]
    <3>1. IsSettings(t) /\ t.f = s.f
      BY <1>4 DEF Base, IsSettings, Fields
    <3> HIDE DEF t
    <3>2. Leaves(t, CalculateEnd(t), {"end"})
      BY <3>1, CalculateEndLeaves
    <3> QED BY <3>1, <3>2 DEF Leaves, Fields, t
  <2> HIDE DEF Changed
  <2> QED BY <2>1 DEF IsSettings, Fields
<1> HIDE DEF Moves, v
<1>9. r.f = s.f
  <2>1. Asked(v, r)
    BY <1>5, DrawAsks DEF Base
  <2> QED BY <1>8, <2>1 DEF Asked
<1> HIDE DEF r
<1>10. SortsItself(r) => Quiet(r) /\ (edits' = 0 => Faithful(r))
  <2>1. SUFFICES ASSUME SortsItself(r)
                 PROVE  Quiet(r) /\ (edits' = 0 => Faithful(r))
    OBVIOUS
  <2>2. Quiet(s) /\ ~s.f.bServerSide
    BY <1>4, <1>9, <2>1 DEF Saved, SortsItself
  <2>3. v.start >= -1 /\ v.aiDisplay = s.aiDisplay /\ v.start \in Int
    BY <1>5, <1>6, <2>2 DEF Quiet, Low, Leaves, Fields, Base, Numbers
  <2>4. InView(s) => InView(v)
    BY <1>6, <2>2, <2>3 DEF InView
  <2>5. Quiet(r) /\ (Unedited(s) /\ InView(v) => Faithful(r))
    BY <1>5, <1>6, <2>2, <2>3, TurnedSaves DEF r
  <2> QED BY <1>2, <1>4, <1>9, <2>1, <2>4, <2>5 DEF Saved, SortsItself
<1> QED BY <1>2, <1>4, <1>7, <1>10, DrawnSaves DEF Saved

LEMMA CallPageChangeSaves ==
  ASSUME PageInv, SavedInv, CallPageChange
  PROVE  SavedInv'
<1> DEFINE s == oSettings
           starts == {PageStart(s, "next"), PageStart(s, "last")}
                       \cup {NumberStart(s, page) : page \in PageNumbers(s)}
           Moves(start, redraw) == [GoTo(s, start) EXCEPT
                         !.adrift = @ \/ ~redraw \/ start >= RecordsDisplay(s)]
<1>1. PICK start \in starts : \E redraw \in BOOLEAN :
        IF redraw THEN oSettings' = Draw(Moves(start, redraw)) /\ undrawn' = FALSE
        ELSE oSettings' = Moves(start, redraw) /\ undrawn' = TRUE
  BY DEF CallPageChange, Drawn
<1>2. PICK redraw \in BOOLEAN :
        IF redraw THEN oSettings' = Draw(Moves(start, redraw)) /\ undrawn' = FALSE
        ELSE oSettings' = Moves(start, redraw) /\ undrawn' = TRUE
  BY <1>1
<1>3. Base(s) /\ Started(s) /\ Saved(s, edits, undrawn)
  BY DEF PageInv, SavedInv
<1>4. edits' = edits
  BY DEF CallPageChange
<1> HIDE DEF s
<1>5. start \in Int /\ (Quiet(s) => Reached(s, start))
  <2>1. /\ PageStart(s, "next") \in Int /\ PageStart(s, "last") \in Int
        /\ Quiet(s) => Reached(s, PageStart(s, "next")) /\ Reached(s, PageStart(s, "last"))
    BY <1>3, PageStartOK, PageStartReached DEF StartOK
  <2>2. ASSUME NEW page \in PageNumbers(s)
        PROVE  Reached(s, NumberStart(s, page))
    <3>1. page \in Nat /\ (page = 0 \/ s.length > 0)
      BY DEF PageNumbers
    <3> QED BY <1>3, <3>1, NumberStartReached
  <2> QED BY <1>1, <2>1, <2>2 DEF Reached
<1> DEFINE g == GoTo(s, start)
           a == g.adrift \/ ~redraw \/ start >= RecordsDisplay(s)
           v == Moves(start, redraw)
           r == Draw(v)
<1>6. Base(v) /\ Started(v)
  BY <1>3, <1>5, PageChangeGood
<1>7. Leaves(s, g, {"start", "end"}) /\ g.start = start /\ g.end = CalculateEnd(g).end
  BY <1>3, GoToIs DEF Base
<1>8. v = [g EXCEPT !.adrift = a]
  OBVIOUS
<1> HIDE DEF Moves, g, a
<1>9. (oSettings' = r /\ undrawn' = FALSE) \/ (oSettings' = v /\ undrawn' = TRUE)
  BY <1>2
<1> HIDE DEF v
<1>10. Leaves(g, v, {"adrift"})
  BY <1>7, <1>8 DEF Leaves, IsSettings, Fields
<1>11. Leaves(s, v, {"start", "end", "length", "adrift"})
  BY <1>7, <1>10 DEF Leaves
<1>12. /\ v.f = s.f /\ v.aiDisplay = s.aiDisplay /\ v.start = start
       /\ v.f = g.f /\ v.start = g.start /\ v.length = g.length /\ v.aiDisplay = g.aiDisplay
       /\ v.end = g.end
  BY <1>7, <1>10 DEF Leaves, Fields
<1>13. v.end = CalculateEnd(v).end
  <2>1. CalculateEnd(v).end = CalculateEnd(g).end
    BY <1>7, <1>10, <1>12, EndSame DEF Leaves
  <2> QED BY <1>7, <1>12, <2>1
<1>14. r.f = s.f
  <2>1. Asked(v, r)
    BY <1>6, DrawAsks DEF Base
  <2> QED BY <1>12, <2>1 DEF Asked
<1> HIDE DEF r
<1>15. ASSUME SortsItself(s)
       PROVE  /\ Quiet(v) /\ Quiet(r)
              /\ edits' = 0 => Unedited(v) /\ InView(v) /\ Faithful(r)
  <2>1. Quiet(s) /\ Reached(s, start) /\ (edits' = 0 => Unedited(s) /\ InView(s))
    BY <1>3, <1>4, <1>5, <1>15 DEF Saved
  <2>2. v.start >= -1 /\ (InView(s) => InView(v))
    BY <1>12, <2>1 DEF Reached, InView
  <2>3. /\ Quiet(v) /\ Quiet(r)
        /\ Unedited(s) => Unedited(v) /\ (InView(v) => Faithful(r))
    BY <1>6, <1>11, <1>13, <2>1, <2>2, TurnedSaves DEF r
  <2> QED BY <2>1, <2>2, <2>3
<1>16. /\ SortsItself(r) => Quiet(r) /\ (edits' = 0 => Faithful(r))
       /\ SortsItself(v) => Quiet(v) /\ (edits' = 0 => Unedited(v) /\ InView(v))
  BY <1>12, <1>14, <1>15 DEF SortsItself
<1>17. edits' \in Nat
  BY <1>3, <1>4 DEF Saved
<1> QED BY <1>9, <1>16, <1>17, DrawnSaves, LeftSaves

LEMMA EditSaves ==
  ASSUME PageInv, SavedInv, NEW redraw \in BOOLEAN,
         AddData(redraw) \/ ClearRows(redraw) \/ DeleteRow(redraw) \/ Update(redraw)
  PROVE  SavedInv'
<1> DEFINE s == oSettings
<1>1. PICK t, r : EditOf(s, t, r) /\ Edited(r, t, redraw)
  BY AddDataIs, ClearRowsIs, DeleteRowIs, UpdateIs
<1>2. Saved(s, edits, undrawn)
  BY DEF SavedInv
<1>3. edits' \in Nat /\ edits' # 0
  BY <1>1, <1>2 DEF Edited, Saved
<1> HIDE DEF s
<1> DEFINE left == [t EXCEPT !.adrift = TRUE]
<1>4. \/ oSettings' = r /\ undrawn' = FALSE
      \/ oSettings' = left /\ undrawn' = TRUE
  BY <1>1 DEF Edited, Drawn
<1>5. Leaves(s, t, EditChanges) /\ Base(t) /\ Started(t) /\ (t.start = s.start \/ t.start >= 0)
  BY <1>1 DEF EditOf
<1>6. /\ t.f = s.f /\ t.loading = s.loading /\ t.cookie = s.cookie /\ t.initStart = s.initStart
      /\ IsSettings(t) /\ t.start \in Int
  BY <1>5 DEF Leaves, EditChanges, Fields, Base, Numbers
<1>7. Quiet(s) => Quiet(t) /\ Low(t)
  BY <1>5, <1>6 DEF Quiet, SortsItself, Low
<1>8. left.f = s.f /\ (Quiet(s) => Quiet(left))
  <2>1. Leaves(t, left, {"adrift"})
    BY <1>6 DEF Leaves, IsSettings, Fields
  <2> HIDE DEF left
  <2>2. Leaves(t, left, {"asDataSearch", "stale", "adrift", "loose"})
    BY <2>1 DEF Leaves
  <2>3. left.f = t.f
    BY <2>1 DEF Leaves, Fields
  <2> QED BY <1>6, <1>7, <2>2, <2>3, QuietAside
<1> DEFINE a == ReDraw(t)
           b == Draw(CalculateEnd(t))
           c == Draw(t)
<1>9. r.f = s.f
  <2>1. t.f.bSort \in BOOLEAN /\ t.f.bFilter \in BOOLEAN
    BY <1>5, FeaturesBoolean
  <2>2. Asked(t, a) /\ Asked(t, b) /\ Asked(t, c)
    BY <1>6, <2>1, ReDrawAsks, DrawAsks, DrawnAnew
  <2>3. r = a \/ r = b \/ r = c
    BY <1>1 DEF EditOf
  <2> HIDE DEF a, b, c
  <2> QED BY <1>6, <2>2, <2>3 DEF Asked
<1>10. Quiet(s) => Quiet(r)
  <2>1. SUFFICES ASSUME Quiet(t), Low(t)
                 PROVE  Quiet(r)
    BY <1>7
  <2>2. Quiet(a) /\ Quiet(b)
    BY <1>5, <2>1, ReDrawSaves, DrawnAnewSaves DEF Quiet
  <2>3. t.end = CalculateEnd(t).end => Quiet(c)
    BY <1>5, <2>1, DrawSaves DEF Quiet
  <2>4. r = a \/ r = b \/ (r = c /\ t.end = CalculateEnd(t).end)
    BY <1>1 DEF EditOf
  <2> HIDE DEF a, b, c
  <2> QED BY <2>2, <2>3, <2>4
<1> HIDE DEF left
<1>11. (SortsItself(r) => Quiet(r)) /\ (SortsItself(left) => Quiet(left))
  BY <1>2, <1>8, <1>9, <1>10 DEF Saved, SortsItself
<1> QED BY <1>3, <1>4, <1>11, DrawnSaves, LeftSaves

LEMMA DetailsSave ==
  ASSUME PageInv, SavedInv, Open \/ Close
  PROVE  SavedInv'
<1> DEFINE s == oSettings
<1>1. PICK r : /\ Leaves(s, r, {"open", "body"}) /\ RowsOf(r.body) = RowsOf(s.body)
               /\ oSettings' = r /\ UNCHANGED <<edits, undrawn>>
  BY DetailsAre
<1>2. Saved(s, edits, undrawn)
  BY DEF SavedInv
<1> HIDE DEF s
<1>3. /\ r.f = s.f /\ r.loading = s.loading /\ r.cookie = s.cookie /\ r.aoData = s.aoData
      /\ r.aiDisplayMaster = s.aiDisplayMaster /\ r.unsorted = s.unsorted
      /\ r.aiDisplay = s.aiDisplay /\ r.start = s.start /\ r.initStart = s.initStart
      /\ r.end = s.end /\ r.length = s.length
      /\ r.sSearch = s.sSearch /\ r.sColumn = s.sColumn /\ r.aaSorting = s.aaSorting
      /\ IsSettings(s) /\ IsSettings(r)
  BY <1>1 DEF Leaves, Fields
<1>4. (SortsItself(r) => SortsItself(s)) /\ (Quiet(s) => Quiet(r))
  BY <1>3 DEF Quiet, SortsItself, Low
<1>5. CalculateEnd(r).end = CalculateEnd(s).end
  BY <1>3, EndSame
<1>6. Page(r) = Page(s) /\ SavedState(r) = SavedState(s)
  BY <1>3 DEF Page, SavedState
<1>7. (Unedited(s) => Unedited(r)) /\ (InView(s) => InView(r)) /\ (OnPage(s) => OnPage(r))
  BY <1>1, <1>3, <1>5, <1>6, UneditedSame DEF InView, OnPage
<1>8. Saved(r, edits, undrawn)
  BY <1>2, <1>4, <1>7 DEF Saved
<1> QED BY <1>1, <1>8 DEF SavedInv

(* A table of the page as it is loaded: its rows are those of the page, and *)
(* what it is set to is what was saved.                                    *)
LEMMA ConstructedIs ==
  ASSUME NEW f, NEW cookie, NEW length, f.source = "dom", ~f.bServerSide, f.bSort,
         \A saved \in cookie : saved.start >= -1
  PROVE  LET c == Constructed(f, cookie, length)
             first == LoadState(f, cookie, length)
         IN /\ c.f = f /\ SortsItself(c) /\ Low(c) /\ Unedited(c)
            /\ c.sSearch = first.search /\ c.sColumn = first.column /\ c.aaSorting = first.sorting
            /\ c.length = first.length /\ c.initStart = first.start
<1> DEFINE first == LoadState(f, cookie, length)
           rows == [i \in DOMAIN SourceTable |-> [SourceTable[i] EXCEPT !.node = i]]
           all == [i \in DOMAIN rows |-> i]
           c == Constructed(f, cookie, length)
<1>1. first.start >= -1
  <2>1. CASE f.bStateSave /\ cookie # {}
    <3>1. first \in cookie
      BY <2>1 DEF LoadState
    <3> HIDE DEF first
    <3> QED BY <3>1
  <2>2. CASE ~(f.bStateSave /\ cookie # {})
    <3>1. first.start = 0
      BY <2>2 DEF LoadState
    <3> HIDE DEF first
    <3> QED BY <3>1
  <2> QED BY <2>1, <2>2
<1>2. /\ DOMAIN rows = DOMAIN SourceRows
      /\ \A i \in DOMAIN rows : rows[i].key = i /\ rows[i].text = SourceRows[i]
  <2>1. DOMAIN SourceTable = DOMAIN SourceRows
    BY SourceTableIs
  <2>2. \A i \in DOMAIN SourceTable :
          /\ SourceTable[i] = [key |-> i, text |-> SourceRows[i], node |-> NoNode]
    BY DEF SourceTable, NewRow
  <2>3. ASSUME NEW i \in DOMAIN rows
        PROVE  rows[i].key = i /\ rows[i].text = SourceRows[i]
    <3>1. rows[i] = [SourceTable[i] EXCEPT !.node = i]
      OBVIOUS
    <3>2. SourceTable[i] = [key |-> i, text |-> SourceRows[i], node |-> NoNode]
      BY <2>2
    <3> HIDE DEF rows
    <3> QED BY <3>1, <3>2
  <2> QED BY <2>1, <2>3
<1>3. \A i \in DOMAIN rows : i \in Int
  BY <1>2, KeysAre
<1>4. all = [i \in DOMAIN rows |-> i]
  OBVIOUS
<1> HIDE DEF first, rows, all
<1>5. c = [f |-> f, aoData |-> rows, aiDisplayMaster |-> all, aiDisplay |-> all,
           asDataSearch |-> << >>,
           sSearch |-> first.search, sColumn |-> first.column, aaSorting |-> first.sorting,
           start |-> first.start, initStart |-> first.start, ajaxStart |-> first.start,
           end |-> 0, length |-> first.length,
           body |-> << >>, open |-> {}, cookie |-> cookie,
           loading |-> f.source = "ajax",
           iDraw |-> 0, requests |-> {}, recordsDisplay |-> 0, answer |-> NoAnswer,
           loose |-> FALSE, unsorted |-> FALSE, stale |-> FALSE, adrift |-> FALSE]
  BY DEF Constructed, all, rows, first
<1> HIDE DEF c
<1>6. /\ c.f = f /\ c.aoData = rows /\ c.aiDisplayMaster = all
      /\ c.sSearch = first.search /\ c.sColumn = first.column /\ c.aaSorting = first.sorting
      /\ c.start = first.start /\ c.initStart = first.start /\ c.length = first.length
      /\ c.cookie = cookie /\ c.loading = (f.source = "ajax") /\ c.unsorted = FALSE
  BY <1>5
<1>7. SortsItself(c) /\ Low(c)
  BY <1>1, <1>6 DEF SortsItself, Low
<1>8. Ties(all)
  <2> SUFFICES ASSUME NEW k \in DOMAIN all, NEW l \in DOMAIN all, k < l
               PROVE  all[k] < all[l]
    BY DEF Ties
  <2>1. all[k] = k /\ all[l] = l
    BY <1>4
  <2> QED BY <2>1
<1>9. Unedited(c)
  BY <1>2, <1>6, <1>8 DEF Unedited
<1> QED BY <1>6, <1>7, <1>9 DEF c, first

LEMMA InitialiseFeatures ==
  ASSUME NEW f \in Features, NEW cookie, NEW length \in f.aLengthMenu,
         \A saved \in cookie : saved.start \in Int /\ saved.length \in PageLengths,
         \A saved \in cookie : Phrases(saved.search, saved.column)
  PROVE  /\ Initialise(Constructed(f, cookie, length)).f = f
         /\ f.bSort => Initialise(Constructed(f, cookie, length)) = Sort(Constructed(f, cookie, length))
<1> DEFINE s == Constructed(f, cookie, length)
           r == Initialise(s)
           a == Sort(s)
           b == FilterComplete(s, s.sSearch, FALSE)
           t == [s EXCEPT !.aiDisplay = s.aiDisplayMaster]
           c == Draw(CalculateEnd(t))
<1>1. Base(s) /\ s.aiDisplay = s.aiDisplayMaster /\ s.f = f
  BY ConstructedBase, ConstructedTyped
<1> HIDE DEF s
<1>2. t = s
  BY <1>1 DEF Base, IsSettings, Fields
<1>3. s.f.bFilter \in BOOLEAN /\ s.f.bSort \in BOOLEAN
  BY <1>1, FeaturesBoolean
<1> HIDE DEF t
<1>4. a.f = f /\ b.f = f /\ c.f = f
  <2>1. IsSettings(s)
    BY <1>1 DEF Base
  <2>2. Asked(s, a) /\ Asked(s, b) /\ Asked(s, c)
    BY <1>2, <2>1, SortAsks, FilterCompleteAsks, DrawnAnew
  <2> HIDE DEF a, b, c
  <2> QED BY <1>1, <2>2 DEF Asked
<1> HIDE DEF a, b, c
<1>5. /\ s.f.bSort => r = a
      /\ ~s.f.bSort /\ s.f.bFilter => r = b
      /\ ~s.f.bSort /\ ~s.f.bFilter => r = c
  BY <1>3 DEF Initialise, a, b, c, t
<1> HIDE DEF r
<1>6. r = a \/ r = b \/ r = c
  BY <1>3, <1>5, Zenon
<1>7. r.f = f /\ (f.bSort => r = a)
  BY <1>1, <1>4, <1>5, <1>6
<1> QED BY <1>7 DEF r, s, a

LEMMA StartSaved ==
  ASSUME NEW f \in Features, NEW cookie, NEW length \in f.aLengthMenu,
         \A saved \in cookie : saved.start \in Int /\ saved.length \in PageLengths,
         \A saved \in cookie : Phrases(saved.search, saved.column),
         NEW r, r = Initialise(Constructed(f, cookie, length)),
         SortsItself(r) => \A saved \in cookie : saved.start >= -1
  PROVE  SortsItself(r) => Quiet(r) /\ Faithful(r)
<1> DEFINE c == Constructed(f, cookie, length)
<1>1. Base(c)
  BY ConstructedBase
<1>2. r.f = f /\ (f.bSort => r = Sort(c))
  BY InitialiseFeatures
<1>3. ASSUME SortsItself(r)
      PROVE  Quiet(r) /\ Faithful(r)
  <2>1. SortsItself(c) /\ Low(c) /\ Unedited(c)
    BY <1>2, <1>3, ConstructedIs DEF SortsItself
  <2>2. r = Sort(c)
    BY <1>2, <1>3 DEF SortsItself
  <2> HIDE DEF c
  <2> QED BY <1>1, <2>1, <2>2, SortSaves
<1> QED BY <1>3

LEMMA StartSaves ==
  /\ Init => SavedInv
  /\ PageInv /\ ListInv /\ SavedInv /\ Reload => SavedInv'
<1>1. ASSUME Init
      PROVE  SavedInv
  <2>1. PICK f \in Features : \E length \in f.aLengthMenu :
               oSettings = Initialise(Constructed(f, {}, length))
    BY <1>1 DEF Init
  <2>2. PICK length \in f.aLengthMenu : oSettings = Initialise(Constructed(f, {}, length))
    BY <2>1
  <2>3. edits = 0 /\ undrawn = FALSE
    BY <1>1 DEF Init
  <2>4. SortsItself(oSettings) => Quiet(oSettings) /\ Faithful(oSettings)
    BY <2>2, StartSaved
  <2> QED BY <2>3, <2>4 DEF SavedInv, Saved, Faithful
<1>2. ASSUME PageInv, ListInv, SavedInv, Reload
      PROVE  SavedInv'
  <2> DEFINE s == oSettings
  <2>1. PICK length \in s.f.aLengthMenu : oSettings' = Initialise(Constructed(s.f, s.cookie, length))
    BY <1>2 DEF Reload
  <2>2. edits' = 0 /\ undrawn' = FALSE
    BY <1>2 DEF Reload
  <2>3. /\ s.f \in Features
        /\ \A saved \in s.cookie : saved.start \in Int /\ saved.length \in PageLengths
        /\ \A saved \in s.cookie : Phrases(saved.search, saved.column)
    BY <1>2 DEF PageInv, Base, Numbers, ListInv, ListOK, Typed
  <2> DEFINE r == Initialise(Constructed(s.f, s.cookie, length))
  <2>4. SortsItself(s) => \A saved \in s.cookie : saved.start >= -1
    BY <1>2 DEF SavedInv, Saved, Quiet, Low
  <2> HIDE DEF s
  <2>5. r.f = s.f
    BY <2>3, InitialiseFeatures
  <2>6. SortsItself(r) => \A saved \in s.cookie : saved.start >= -1
    BY <2>4, <2>5 DEF SortsItself
  <2>7. SortsItself(r) => Quiet(r) /\ Faithful(r)
    BY <2>3, <2>6, StartSaved
  <2>8. oSettings' = r
    BY <2>1
  <2> HIDE DEF r
  <2> QED BY <2>2, <2>7, <2>8, DrawnSaves
<1> QED BY <1>1, <1>2

\* Rows that come from a source or a server leave the features.
LEMMA RowsComeFeatures ==
  ASSUME PageInv, AjaxLoad \/ Answer \/ RequestFails
  PROVE  oSettings'.f = oSettings.f
<1> DEFINE s == oSettings
<1>1. Base(s) /\ Started(s) /\ IsSettings(s)
  BY DEF PageInv, Base
<1>2. CASE AjaxLoad
  <2> DEFINE l == AddRows(s, SourceTable)
             u == [l EXCEPT !.loading = FALSE, !.initStart = s.ajaxStart]
             loose == u.sSearch # << >> \/ u.sColumn # << >>
             v == [u EXCEPT !.aiDisplay = u.aiDisplayMaster, !.loose = loose]
             a == Sort(u)
             b == Draw(CalculateEnd(v))
  <2>1. oSettings' = a \/ oSettings' = b
    BY <1>2 DEF AjaxLoad
  <2> HIDE DEF s
  <2>2. Leaves(s, l, {"aoData", "aiDisplayMaster"})
    BY <1>1, AddRowsLeaves
  <2> HIDE DEF l
  <2>3. IsSettings(u) /\ u.f = s.f
    BY <2>2 DEF Leaves, IsSettings, Fields
  <2> HIDE DEF u, loose
  <2>4. IsSettings(v) /\ v.f = s.f
    BY <2>3 DEF IsSettings, Fields
  <2> HIDE DEF v
  <2>5. Asked(u, a) /\ Asked(v, b)
    BY <2>3, <2>4, SortAsks, DrawnAnew
  <2> HIDE DEF a, b
  <2> QED BY <2>1, <2>3, <2>4, <2>5 DEF Asked, s
<1>3. CASE Answer \/ RequestFails
  <2> DEFINE W(request) == [s EXCEPT !.requests = @ \ {request}]
             N(request) == [W(request) EXCEPT !.iDraw = request.sEcho]
             F(request) == AddRows(ClearTable(N(request)), AnswerRows(request.params).rows)
             V(request) == [F(request) EXCEPT !.recordsDisplay = AnswerRows(request.params).total,
                              !.open = {}, !.aiDisplay = F(request).aiDisplayMaster, !.answer = request]
  <2>1. PICK request : oSettings' = W(request) \/ oSettings' = InsertRows(TakeInitStart(V(request)))
    BY <1>3 DEF Answer, RequestFails
  <2> HIDE DEF s
  <2> DEFINE w == W(request)
             e == N(request)
             t == ClearTable(e)
             f == F(request)
             v == V(request)
             o == TakeInitStart(v)
             r == InsertRows(o)
  <2>2. IsSettings(w) /\ w.f = s.f
    BY <1>1 DEF IsSettings, Fields
  <2>3. oSettings' = w \/ oSettings' = r
    BY <2>1
  <2> HIDE DEF W
  <2>4. IsSettings(e) /\ e.f = s.f
    BY <2>2 DEF IsSettings, Fields
  <2> HIDE DEF N
  <2>5. IsSettings(t) /\ t.f = s.f
    BY <2>4, ClearTableLeaves DEF Leaves, Fields
  <2>6. IsSettings(f) /\ f.f = s.f
    BY <2>5, AddRowsLeaves DEF Leaves, Fields
  <2> HIDE DEF F
  <2>7. IsSettings(v) /\ v.f = s.f
    BY <2>6 DEF IsSettings, Fields
  <2> HIDE DEF V
  <2>8. IsSettings(o) /\ o.f = s.f
    BY <2>7, TakeInitStartLeaves DEF Leaves, Fields
  <2> HIDE DEF o
  <2>9. r.f = s.f
    BY <2>8, InsertRowsLeaves DEF Leaves, Fields
  <2> QED BY <2>2, <2>3, <2>9 DEF s
<1> QED BY <1>2, <1>3

LEMMA NextSaves ==
  PageInv /\ ListInv /\ SavedInv /\ [Next]_vars => SavedInv'
<1> SUFFICES ASSUME PageInv, ListInv, SavedInv, [Next]_vars
             PROVE  SavedInv'
  OBVIOUS
<1>1. CASE Reload
  BY <1>1, StartSaves
<1>2. ASSUME AjaxLoad \/ Answer \/ RequestFails
      PROVE  SavedInv'
  <2> DEFINE s == oSettings
  <2>1. ~SortsItself(s)
    <3>1. s.loading \/ s.requests # {}
      BY <1>2 DEF AjaxLoad, Answer, RequestFails
    <3>2. s.requests # {} => s.f.bServerSide
      BY DEF PageInv, Base, Pending
    <3> QED BY <3>1, <3>2 DEF SavedInv, Saved, Quiet, Low, SortsItself
  <2>2. oSettings'.f = s.f
    BY <1>2, RowsComeFeatures
  <2>3. edits' \in Nat
    BY <1>2 DEF SavedInv, Saved, AjaxLoad, Answer, RequestFails
  <2> QED BY <2>1, <2>2, <2>3 DEF SavedInv, Saved, SortsItself
<1>3. CASE Type \/ SortClick \/ PageClick \/ PageNumberClick \/ LengthChange
  BY <1>3, SearchSaves, SortClickSaves, PageClickSaves, LengthChangeSaves
<1>4. CASE \E redraw \in BOOLEAN :
             AddData(redraw) \/ ClearRows(redraw) \/ DeleteRow(redraw) \/ Update(redraw)
  BY <1>4, EditSaves
<1>5. CASE CallFilter \/ CallSort \/ CallDraw \/ CallPageChange \/ Open \/ Close
  BY <1>5, SearchSaves, SortClickSaves, CallDrawSaves, CallPageChangeSaves, DetailsSave
<1>6. CASE UNCHANGED vars
  BY <1>6 DEF vars, SavedInv
<1> QED BY <1>1, <1>2, <1>3, <1>4, <1>5, <1>6 DEF Next

(* Two tables with the same rows, sorting and search display the same.     *)
LEMMA SameDisplay ==
  ASSUME NEW s, Base(s), NEW r, Base(r), Unedited(s), Unedited(r), r.f = s.f,
         r.aaSorting = s.aaSorting, r.sSearch = s.sSearch, r.sColumn = s.sColumn,
         Sorted(s, s.aiDisplayMaster), Sorted(r, r.aiDisplayMaster), Exact(s), Exact(r)
  PROVE  r.aiDisplay = s.aiDisplay
<1> DEFINE n == Len(s.aoData)
           R == Turns(s)
<1>1. SameRows(s, r)
  BY DEF SameRows, Unedited
<1>2. FoundRows(r) = FoundRows(s) /\ \A a, b \in DOMAIN s.aoData : Before(r, a, b) <=> Before(s, a, b)
  BY <1>1, SameRowsFound
<1>3. n \in Nat /\ DOMAIN s.aoData = 1 .. n /\ Len(r.aoData) \in Nat /\ DOMAIN r.aoData = 1 .. Len(r.aoData)
  BY RowsAre
<1>4. Len(r.aoData) = n
  BY <1>1, <1>3 DEF SameRows
<1>5. Turns(r) = R
  BY <1>1, <1>2 DEF Turns, SameRows
<1>6. Ordered(1 .. n, R)
  <2>1. RowsOK(s.aoData)
    BY DEF Base, RowsValid
  <2> QED BY <1>3, <2>1, TurnsOrdered
<1>7. Ranks(s.aiDisplayMaster, n, R) /\ Ranks(r.aiDisplayMaster, n, R)
  <2>1. RowsValid(s) /\ RowsValid(r)
    BY DEF Base
  <2>2. Ranks(s.aiDisplayMaster, n, R)
    BY <2>1, MasterRanks
  <2>3. Ranks(r.aiDisplayMaster, Len(r.aoData), Turns(r))
    BY <2>1, MasterRanks
  <2> QED BY <1>4, <1>5, <2>2, <2>3
<1> HIDE DEF n, R
<1>8. r.aiDisplayMaster = s.aiDisplayMaster
  BY <1>3, <1>6, <1>7, OneRanking
<1> QED BY <1>2, <1>8 DEF Exact

LEMMA ReloadSame ==
  ASSUME PageInv, ListInv, SavedInv, PageInv', ListInv', Reload, ClientSide,
         oSettings.f.bStateSave, oSettings.f.source = "dom", edits = 0,
         oSettings.f.bSort, oSettings.aaSorting # "none",
         ~oSettings.adrift, ~oSettings.loose, ~undrawn
  PROVE  RowsOf(oSettings'.body) = RowsOf(oSettings.body)
<1> DEFINE s == oSettings
           r == oSettings'
<1>1. SortsItself(s) /\ Quiet(s) /\ Unedited(s) /\ InView(s) /\ OnPage(s)
  BY DEF SavedInv, Saved, SortsItself, ClientSide
<1>2. /\ Base(s) /\ Started(s) /\ Exact(s) /\ MasterSorted(s) /\ Base(r)
      /\ \A saved \in s.cookie : Phrases(saved.search, saved.column)
  BY DEF PageInv, ListInv, ListOK, Listed, Typed, ClientSide
<1>3. PICK length \in s.f.aLengthMenu : r = Initialise(Constructed(s.f, s.cookie, length))
  BY DEF Reload
<1>4. /\ s.f \in Features /\ \A saved \in s.cookie : saved.start \in Int /\ saved.length \in PageLengths
  BY <1>2 DEF Base, Numbers
<1>5. s.f.bSort /\ s.f.bStateSave /\ s.f.source = "dom" /\ ~s.f.bServerSide /\ s.aaSorting # "none"
      /\ ~s.adrift
  BY DEF ClientSide
<1>6. ListOK(r)
  BY DEF ListInv
<1> HIDE DEF s, r
<1> DEFINE c == Constructed(s.f, s.cookie, length)
           first == LoadState(s.f, s.cookie, length)
<1>7. r = Sort(c) /\ r.f = s.f
  BY <1>2, <1>3, <1>4, <1>5, InitialiseFeatures
<1>8. first = SavedState(s)
  <2>1. s.cookie = {SavedState(s)}
    BY <1>1, <1>5 DEF OnPage
  <2>2. first = CHOOSE saved \in s.cookie : TRUE
    BY <1>5, <2>1 DEF LoadState
  <2> HIDE DEF first
  <2> QED BY <2>1, <2>2
<1>9. /\ Base(c) /\ SortsItself(c) /\ Low(c) /\ Unedited(c)
      /\ c.sSearch = s.sSearch /\ c.sColumn = s.sColumn /\ c.aaSorting = s.aaSorting
      /\ c.length = s.length /\ c.initStart = s.start
  <2>1. Base(c)
    BY <1>4, ConstructedBase
  <2>2. \A saved \in s.cookie : saved.start >= -1
    BY <1>1 DEF Quiet, Low
  <2>3. /\ SortsItself(c) /\ Low(c) /\ Unedited(c)
        /\ c.sSearch = first.search /\ c.sColumn = first.column /\ c.aaSorting = first.sorting
        /\ c.length = first.length /\ c.initStart = first.start
    BY <1>5, <2>2, ConstructedIs
  <2> HIDE DEF c, first
  <2> QED BY <1>8, <2>1, <2>3 DEF SavedState
<1> HIDE DEF c, first
<1>10. /\ Faithful(r) /\ r.start = First(c, r.aiDisplay) /\ r.sSearch = c.sSearch /\ r.loose = FALSE
  BY <1>7, <1>9, SortSaves
<1>11. r.sColumn = c.sColumn /\ r.aaSorting = c.aaSorting /\ r.length = c.length
  <2>1. Leaves(c, r, SortChanges)
    BY <1>7, <1>9, SortLeaves DEF Base
  <2> QED BY <2>1 DEF Leaves, Fields, SortChanges, FilterCompleteChanges, DrawChanges
<1>12. Unedited(r) /\ OnPage(r)
  BY <1>10 DEF Faithful
<1>13. r.aiDisplay = s.aiDisplay
  <2>1. Exact(r) /\ MasterSorted(r)
    BY <1>5, <1>6, <1>7, <1>10 DEF ListOK, Listed
  <2>2. Sorted(s, s.aiDisplayMaster) /\ Sorted(r, r.aiDisplayMaster)
    BY <1>1, <1>2, <1>5, <1>7, <1>9, <1>11, <1>12, <2>1 DEF MasterSorted, Unedited
  <2> QED BY <1>1, <1>2, <1>7, <1>9, <1>10, <1>11, <1>12, <2>1, <2>2, SameDisplay
<1>14. Page(r) = Page(s)
  <2>1. CASE s.aiDisplay = << >>
    BY <1>13, <2>1 DEF Page
  <2>2. CASE s.aiDisplay # << >>
    <3>1. s.start \in Int /\ Len(s.aiDisplay) \in Nat /\ Len(s.aiDisplay) # 0
      BY <1>2, <2>2, DisplayCounted DEF Base, Numbers
    <3>2. s.start >= 0 /\ s.start < Len(s.aiDisplay)
      BY <1>1, <1>2, <1>5, <2>2, <3>1 DEF InView, Started
    <3>3. r.start = s.start
      BY <1>9, <1>10, <1>13, <3>1, <3>2 DEF First
    <3>4. r.end = s.end
      <4>1. CalculateEnd(r).end = CalculateEnd(s).end
        BY <1>2, <1>7, <1>9, <1>11, <1>13, <3>3, EndSame DEF Base
      <4> QED BY <1>1, <1>12, <4>1 DEF OnPage
    <3> QED BY <1>7, <1>13, <3>3, <3>4 DEF Page
  <2> QED BY <2>1, <2>2
<1>15. RowsOf(r.body) = RowsOf(s.body)
  BY <1>1, <1>12, <1>14 DEF OnPage
<1> QED BY <1>15 DEF r, s

(* Whatever was sorted, searched and paged before: a page that is loaded   *)
(* again shows the rows it showed, from the cookie of its last draw.       *)
THEOREM ReloadAlwaysShowsTheSame == Spec => ReloadShowsTheSame
<1>1. Init => ListInv /\ SavedInv
  BY StartShows, StartSaves
<1>2. PageInv /\ ListInv /\ SavedInv /\ PageInv' /\ ListInv' =>
        [LET s == oSettings
         IN /\ ClientSide /\ s.f.bStateSave /\ s.f.source = "dom" /\ edits = 0
            /\ s.f.bSort /\ s.aaSorting # "none"
            /\ ~s.adrift /\ ~s.loose /\ ~undrawn /\ Reload
            => RowsOf(oSettings'.body) = RowsOf(s.body)]_vars
  BY ReloadSame
<1> QED BY <1>1, <1>2, InitPage, NextPage, NextShows, NextSaves, PTL DEF Spec, ReloadShowsTheSame
=============================================================================
