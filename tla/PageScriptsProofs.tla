-------------------------- MODULE PageScriptsProofs -------------------------
(***************************************************************************)
(* What holds of the scripts of the pages, whatever their size.            *)
(*                                                                         *)
(* The widgets of bootstrap.js, for every number of groups, items,         *)
(* elements, tabs, menus, buttons and sections: an inductive invariant of  *)
(* each widget, that it starts with it and keeps it, and that the          *)
(* properties follow; and that a page with any one of the widgets has all  *)
(* of them.  The cookies of jquery.dataTables.js, for every number of      *)
(* pages, tables and cookies: what their sizes add up to, what is given up *)
(* one by one for a new state, and the invariant of the cookies.           *)
(***************************************************************************)
EXTENDS Widgets, TableCookies, SequenceTheorems, FunctionTheorems, FiniteSetTheorems,
        WellFoundedInduction, TLAPS

(* A non-empty set of natural numbers has a least one.                     *)
LEMMA Least ==
  ASSUME NEW U \in SUBSET Nat, U # {}
  PROVE  \E m \in U : \A k \in U : m <= k
<1>1. \E m \in U : \A k \in U : ~ (<<k, m>> \in OpToRel(<, Nat))
  BY NatLessThanWellFounded, WFMin
<1>2. PICK m \in U : \A k \in U : ~ (<<k, m>> \in OpToRel(<, Nat))
  BY <1>1
<1>3. \A k \in U : ~ (k < m)
  BY <1>2 DEF OpToRel
<1> QED BY <1>3

(* Max is a greatest element of a non-empty part of 1 .. n.                *)
LEMMA MaxIs ==
  ASSUME NEW n \in Nat, NEW T \in SUBSET (1 .. n), T # {}
  PROVE  Max(T) \in T /\ \A x \in T : x <= Max(T)
<1> DEFINE U == {m \in Nat : n - m \in T}
<1>1. PICK x \in T : TRUE
  OBVIOUS
<1>2. n - x \in U
  OBVIOUS
<1>3. PICK m \in U : \A k \in U : m <= k
  BY <1>2, Least
<1>4. \A y \in T : n - y \in U /\ y \in Nat
  OBVIOUS
<1>5. n - m \in T /\ \A y \in T : y <= n - m
  BY <1>3, <1>4
<1> HIDE DEF U
<1>6. \E y \in T : \A z \in T : y >= z
  BY <1>5
<1>7. Max(T) \in T /\ \A z \in T : Max(T) >= z
  BY <1>6, Zenon DEF Max
<1> QED BY <1>7

(* A function of sets that is built from the empty set by adding the       *)
(* greatest element, as folds are, stays in a set that every step stays    *)
(* in.                                                                     *)
LEMMA AllStay ==
  ASSUME NEW S, NEW n \in Nat, NEW g,
         g[{}] \in S,
         \A T \in SUBSET (1 .. n) : T # {} /\ g[T \ {Max(T)}] \in S => g[T] \in S
  PROVE  \A T \in SUBSET (1 .. n) : g[T] \in S
<1> DEFINE U == {m \in 0 .. n : ~ \A T \in SUBSET (1 .. m) : g[T] \in S}
<1> SUFFICES U = {}
  <2>1. n \in 0 .. n
    OBVIOUS
  <2> QED BY <2>1
<1> SUFFICES ASSUME U # {}
             PROVE  FALSE
  OBVIOUS
<1>1. PICK m \in U : \A k \in U : m <= k
  <2>1. U \in SUBSET Nat
    OBVIOUS
  <2> HIDE DEF U
  <2> QED BY <2>1, Least
<1>2. m \in 0 .. n /\ m \in Nat
  BY <1>1
<1>3. PICK T \in SUBSET (1 .. m) : g[T] \notin S
  BY <1>1
<1>4. T # {} /\ m - 1 \in 0 .. n /\ ~ (m <= m - 1) /\ T \in SUBSET (1 .. n)
  <2>1. T # {}
    BY <1>3
  <2>2. PICK x \in T : x \in 1 .. m
    BY <2>1
  <2>3. m >= 1 /\ m <= n
    BY <1>2, <2>2
  <2>4. m - 1 \in 0 .. n /\ ~ (m <= m - 1)
    BY <1>2, <2>3
  <2>5. \A y \in 1 .. m : y \in 1 .. n
    BY <1>2
  <2> QED BY <2>1, <2>4, <2>5
<1>5. Max(T) \in T /\ \A x \in T : x <= Max(T)
  BY <1>4, MaxIs
<1>6. T \ {Max(T)} \in SUBSET (1 .. m - 1)
  <2> SUFFICES ASSUME NEW x \in T, x # Max(T)
               PROVE  x \in 1 .. m - 1
    OBVIOUS
  <2>1. x \in 1 .. m /\ Max(T) \in 1 .. m /\ x <= Max(T)
    BY <1>5
  <2> QED BY <1>2, <2>1
<1>8. m - 1 \notin U
  <2> HIDE DEF U
  <2> QED BY <1>1, <1>4
<1>7. g[T \ {Max(T)}] \in S
  BY <1>4, <1>6, <1>8
<1> QED BY <1>3, <1>4, <1>7

(* So after all of its elements.                                           *)
LEMMA StepsStay ==
  ASSUME NEW S, NEW n \in Nat, NEW g,
         g[{}] \in S,
         \A T \in SUBSET (1 .. n) : T # {} /\ g[T \ {Max(T)}] \in S => g[T] \in S
  PROVE  g[1 .. n] \in S
<1>1. \A T \in SUBSET (1 .. n) : g[T] \in S
  BY AllStay
<1> QED BY <1>1

(* Steps from subset to subset of 1 .. n, as a fold over a sequence takes  *)
(* them: from base, with the greatest element last.                        *)
FoldSteps(h, base, step, n) ==
  [T \in SUBSET (1 .. n) |-> IF T = {} THEN base ELSE step[<<h[T \ {Max(T)}], Max(T)>>]]

(* A function that takes these steps is there.                             *)
LEMMA FoldExists ==
  ASSUME NEW base, NEW step, NEW n \in Nat
  PROVE  \E h : h = FoldSteps(h, base, step, n)
<1> USE DEF FoldSteps
<1> DEFINE Step(h, m) == [T \in SUBSET (1 .. m) |->
                            IF T = {} THEN base ELSE step[<<h[T \ {Max(T)}], Max(T)>>]]
           U == {m \in 0 .. n : ~ \E h : h = Step(h, m)}
<1> SUFFICES U = {}
  <2>1. n \in 0 .. n
    OBVIOUS
  <2> QED BY <2>1
<1> SUFFICES ASSUME U # {}
             PROVE  FALSE
  OBVIOUS
<1>1. PICK m \in U : \A k \in U : m <= k
  <2>1. U \in SUBSET Nat
    OBVIOUS
  <2> HIDE DEF U
  <2> QED BY <2>1, Least
<1>2. m \in 0 .. n /\ ~ \E h : h = Step(h, m)
  OBVIOUS
<1>3. CASE m = 0
  <2> DEFINE h == [T \in SUBSET (1 .. m) |-> base]
  <2>1. \A T \in SUBSET (1 .. m) : T = {}
    BY <1>3
  <2>2. h = Step(h, m)
    BY <2>1
  <2> QED BY <1>2, <2>2
<1>4. CASE m # 0
  <2>1. m - 1 \in 0 .. n /\ m - 1 \notin U
    <3>1. m \in Nat /\ m - 1 \in 0 .. n /\ ~ (m <= m - 1)
      BY <1>2, <1>4
    <3> HIDE DEF U
    <3> QED BY <1>1, <3>1
  <2>2. PICK g : g = Step(g, m - 1)
    BY <2>1
  <2> DEFINE h == [T \in SUBSET (1 .. m) |-> IF m \in T THEN step[<<g[T \ {m}], m>>] ELSE g[T]]
  <2>3. \A T \in SUBSET (1 .. m) :
          /\ T \ {m} \in SUBSET (1 .. m - 1)
          /\ m \notin T => T \in SUBSET (1 .. m - 1)
    BY <1>2, <1>4
  <2>4. \A T \in SUBSET (1 .. m - 1) : T \in SUBSET (1 .. m) /\ m \notin T
    BY <1>2, <1>4
  <2>5. \A T \in SUBSET (1 .. m - 1) : h[T] = g[T]
    BY <2>4
  <2>6. \A T \in SUBSET (1 .. m - 1) :
          g[T] = IF T = {} THEN base ELSE step[<<g[T \ {Max(T)}], Max(T)>>]
    BY <2>2
  <2>7. h[{}] = base
    <3>1. {} \in SUBSET (1 .. m - 1)
      OBVIOUS
    <3> HIDE DEF h
    <3> QED BY <2>5, <2>6, <3>1
  <2>8. ASSUME NEW T \in SUBSET (1 .. m), T # {}
        PROVE  h[T] = step[<<h[T \ {Max(T)}], Max(T)>>]
    <3>1. Max(T) \in T /\ \A x \in T : x <= Max(T)
      <4>1. m \in Nat
        BY <1>2
      <4> QED BY <2>8, <4>1, MaxIs
    <3>2. CASE m \in T
      <4>1. Max(T) = m
        <5>1. m <= Max(T) /\ Max(T) \in T
          BY <3>1, <3>2
        <5>2. Max(T) \in 1 .. m
          BY <5>1
        <5>3. m \in Nat
          BY <1>2
        <5> QED BY <5>1, <5>2, <5>3
      <4>2. T \ {m} \in SUBSET (1 .. m - 1)
        BY <2>3
      <4>3. h[T \ {m}] = g[T \ {m}] /\ h[T] = step[<<g[T \ {m}], m>>]
        BY <2>5, <3>2, <4>2
      <4> HIDE DEF h
      <4> QED BY <4>1, <4>3
    <3>3. CASE m \notin T
      <4>1. T \in SUBSET (1 .. m - 1) /\ T \ {Max(T)} \in SUBSET (1 .. m - 1)
        BY <2>3, <3>3
      <4>2. g[T] = step[<<g[T \ {Max(T)}], Max(T)>>]
        BY <2>6, <2>8, <4>1
      <4>3. h[T] = g[T] /\ h[T \ {Max(T)}] = g[T \ {Max(T)}]
        BY <2>5, <4>1
      <4> HIDE DEF h
      <4> QED BY <4>2, <4>3
    <3> QED BY <3>2, <3>3
  <2>9. h = Step(h, m)
    <3>1. \A T \in SUBSET (1 .. m) :
            h[T] = IF T = {} THEN base ELSE step[<<h[T \ {Max(T)}], Max(T)>>]
      BY <2>7, <2>8
    <3>2. h = [T \in SUBSET (1 .. m) |-> h[T]]
      OBVIOUS
    <3> HIDE DEF h
    <3> QED BY <3>1, <3>2
  <2> QED BY <1>2, <2>9
<1> QED BY <1>3, <1>4

(* The last of the first m.                                                *)
LEMMA LastIs ==
  ASSUME NEW n \in Nat, NEW m \in 1 .. n
  PROVE  Max(1 .. m) = m /\ 1 .. m \in SUBSET (1 .. n) /\ 1 .. m # {} /\ (1 .. m) \ {m} = 1 .. m - 1
<1>1. 1 .. m \in SUBSET (1 .. n) /\ 1 .. m # {}
  <2>1. 1 \in 1 .. m
    OBVIOUS
  <2>2. \A x \in 1 .. m : x \in 1 .. n
    OBVIOUS
  <2> QED BY <2>1, <2>2
<1>2. Max(1 .. m) \in 1 .. m /\ \A x \in 1 .. m : x <= Max(1 .. m)
  BY <1>1, MaxIs
<1>3. m \in 1 .. m
  OBVIOUS
<1>4. m <= Max(1 .. m)
  BY <1>2, <1>3
<1>5. (1 .. m) \ {m} = 1 .. m - 1
  OBVIOUS
<1> QED BY <1>1, <1>2, <1>4, <1>5

(* Two such functions that start alike and take the same steps end alike.  *)
LEMMA StepsAgree ==
  ASSUME NEW n \in Nat, NEW it, NEW h, it[{}] = h[{}],
         \A T \in SUBSET (1 .. n) :
           T # {} /\ it[T \ {Max(T)}] = h[T \ {Max(T)}] => it[T] = h[T]
  PROVE  it[1 .. n] = h[1 .. n]
<1> DEFINE same == [T \in SUBSET (1 .. n) |-> it[T] = h[T]]
           S == {TRUE}
<1>1. {} \in SUBSET (1 .. n) /\ (1 .. n) \in SUBSET (1 .. n)
  OBVIOUS
<1>2. same[{}] \in S
  BY <1>1
<1>3. \A T \in SUBSET (1 .. n) : T # {} /\ same[T \ {Max(T)}] \in S => same[T] \in S
  <2> SUFFICES ASSUME NEW T \in SUBSET (1 .. n), T # {}, same[T \ {Max(T)}] \in S
               PROVE  same[T] \in S
    BY Zenon
  <2>1. T \ {Max(T)} \in SUBSET (1 .. n)
    OBVIOUS
  <2>2. it[T \ {Max(T)}] = h[T \ {Max(T)}]
    BY <2>1
  <2> QED BY <2>2
<1>4. same[1 .. n] \in S
  <2> HIDE DEF same, S
  <2> QED BY <1>2, <1>3, StepsStay
<1> QED BY <1>1, <1>4

(* A set whose elements are all the same has at most one.                  *)
LEMMA AtMostOne ==
  ASSUME NEW U, \A m, n \in U : m = n
  PROVE  Cardinality(U) <= 1
<1>1. CASE U = {}
  BY <1>1, FS_EmptySet
<1>2. CASE U # {}
  <2>1. PICK m \in U : TRUE
    BY <1>2
  <2>2. U = {m}
    BY <2>1
  <2> QED BY <2>2, FS_Singleton
<1> QED BY <1>1, <1>2

(* Min is a least element of a non-empty set of natural numbers.           *)
LEMMA MinIs ==
  ASSUME NEW T \in SUBSET Nat, T # {}
  PROVE  Min(T) \in T
<1>1. \E m \in T : \A k \in T : m <= k
  BY Least
<1> QED BY <1>1, Zenon DEF Min

(* The elements of I that come before i by the relation R.                 *)
Earlier(I, R, i) == {j \in I : <<j, i>> \in R}

(* A finite set with a total order.                                        *)
Ordered(I, R) ==
  /\ IsFiniteSet(I)
  /\ \A i \in I : <<i, i>> \notin R
  /\ \A i, j \in I : i = j \/ <<i, j>> \in R \/ <<j, i>> \in R
  /\ \A i, j, k \in I : <<i, j>> \in R /\ <<j, k>> \in R => <<i, k>> \in R

(* An element comes after fewer elements than one that comes after it, and *)
(* after fewer than there are.                                             *)
LEMMA EarlierCounts ==
  ASSUME NEW I, NEW R, Ordered(I, R), NEW i \in I
  PROVE  /\ IsFiniteSet(Earlier(I, R, i)) /\ Cardinality(Earlier(I, R, i)) \in 0 .. Cardinality(I) - 1
         /\ \A j \in I : <<i, j>> \in R => Cardinality(Earlier(I, R, i)) < Cardinality(Earlier(I, R, j))
<1>1. /\ IsFiniteSet(I) /\ Cardinality(I) \in Nat
      /\ \A j \in I : /\ Earlier(I, R, j) \in SUBSET I /\ IsFiniteSet(Earlier(I, R, j))
                      /\ Cardinality(Earlier(I, R, j)) \in Nat
  BY FS_CardinalityType, FS_Subset DEF Ordered, Earlier
<1>2. i \notin Earlier(I, R, i)
  BY DEF Ordered, Earlier
<1>3. Cardinality(Earlier(I, R, i)) < Cardinality(I)
  <2>1. Cardinality(Earlier(I, R, i)) <= Cardinality(I)
    BY <1>1, FS_Subset
  <2>2. Cardinality(Earlier(I, R, i)) # Cardinality(I)
    BY <1>1, <1>2, FS_Subset
  <2> QED BY <1>1, <2>1, <2>2
<1>4. ASSUME NEW j \in I, <<i, j>> \in R
      PROVE  Cardinality(Earlier(I, R, i)) < Cardinality(Earlier(I, R, j))
  <2>1. Earlier(I, R, i) \in SUBSET Earlier(I, R, j)
    BY <1>4 DEF Ordered, Earlier
  <2>2. i \in Earlier(I, R, j)
    BY <1>4 DEF Earlier
  <2>3. Cardinality(Earlier(I, R, i)) <= Cardinality(Earlier(I, R, j))
    BY <1>1, <2>1, FS_Subset
  <2>4. Cardinality(Earlier(I, R, i)) # Cardinality(Earlier(I, R, j))
    BY <1>1, <1>2, <2>1, <2>2, FS_Subset
  <2> QED BY <1>1, <2>3, <2>4
<1> QED BY <1>1, <1>3, <1>4

(* Each number of earlier elements there can be is that of an element.     *)
LEMMA EachPlace ==
  ASSUME NEW I, NEW R, Ordered(I, R), NEW k \in 1 .. Cardinality(I)
  PROVE  \E i \in I : Cardinality(Earlier(I, R, i)) = k - 1
<1> DEFINE n == Cardinality(I)
           f == [i \in I |-> Cardinality(Earlier(I, R, i))]
<1>1. IsFiniteSet(I) /\ n \in Nat
  BY FS_CardinalityType DEF Ordered
<1>2. \A i \in I : Cardinality(Earlier(I, R, i)) \in 0 .. n - 1
  BY EarlierCounts
<1>3. f \in Injection(I, 0 .. n - 1)
  <2>1. f \in [I -> 0 .. n - 1]
    BY <1>2
  <2>2. ASSUME NEW a \in I, NEW b \in I, a # b
        PROVE  f[a] # f[b]
    <3>1. <<a, b>> \in R \/ <<b, a>> \in R
      BY <2>2 DEF Ordered
    <3>2. <<a, b>> \in R => f[a] < f[b]
      BY EarlierCounts
    <3>3. <<b, a>> \in R => f[b] < f[a]
      BY EarlierCounts
    <3>4. f[a] \in Int /\ f[b] \in Int
      BY <1>2
    <3> HIDE DEF f
    <3> QED BY <3>1, <3>2, <3>3, <3>4
  <2> DEFINE T == 0 .. n - 1
  <2>3. f \in [I -> T]
    BY <2>1
  <2>4. \A a, b \in I : f[a] = f[b] => a = b
    BY <2>2
  <2> HIDE DEF f, T
  <2>5. f \in Injection(I, T)
    BY <2>3, <2>4, Fun_IsInj
  <2> QED BY <2>5 DEF T
<1>4. IsFiniteSet(0 .. n - 1) /\ Cardinality(0 .. n - 1) = n
  <2> HIDE DEF n
  <2>1. n - 1 \in Int /\ 0 \in Int /\ (0 > n - 1 => n = 0) /\ (n - 1) - 0 + 1 = n
    BY <1>1
  <2> QED BY <2>1, FS_Interval
<1> HIDE DEF f
<1>5. f \in Surjection(I, 0 .. n - 1)
  BY <1>3, <1>4, FS_Injection
<1>6. k - 1 \in 0 .. n - 1
  BY <1>1
<1>7. PICK i \in I : f[i] = k - 1
  BY <1>5, <1>6 DEF Surjection
<1> QED BY <1>7 DEF f

(* An element that comes after no more elements than another is that one   *)
(* or comes before it.                                                     *)
LEMMA OnePlace ==
  ASSUME NEW I, NEW R, Ordered(I, R), NEW i \in I, NEW j \in I,
         Cardinality(Earlier(I, R, i)) <= Cardinality(Earlier(I, R, j))
  PROVE  i = j \/ <<i, j>> \in R
<1>1. /\ Cardinality(Earlier(I, R, i)) \in 0 .. Cardinality(I) - 1
      /\ Cardinality(Earlier(I, R, j)) \in 0 .. Cardinality(I) - 1
      /\ <<j, i>> \in R => Cardinality(Earlier(I, R, j)) < Cardinality(Earlier(I, R, i))
  BY EarlierCounts
<1> DEFINE a == Cardinality(Earlier(I, R, i))
           b == Cardinality(Earlier(I, R, j))
<1>2. a \in Int /\ b \in Int /\ a <= b /\ (<<j, i>> \in R => b < a)
  BY <1>1
<1> HIDE DEF a, b
<1>3. <<j, i>> \notin R
  BY <1>2
<1> QED BY <1>3 DEF Ordered

-----------------------------------------------------------------------------
(* Collapse: one group of an accordion is open, and a group at rest has    *)
(* its height.                                                             *)

GroupEnds == [event : {"show", "hide"}, owned : BOOLEAN]

GroupType ==
  [in : BOOLEAN, height : {"0", "auto", "size"},
   data : [transitioning : BOOLEAN, parent : BOOLEAN, made : BOOLEAN], ends : Seq(GroupEnds)]

DroppedHide == [event |-> "hide", owned |-> FALSE]

(* The completions that wait are those of dropped objects, which hid the   *)
(* group, and after them that of the object it has, if it moves.  A group  *)
(* that does not move is closed as long as any wait.                       *)
EndsOK(group) ==
  LET last == group.ends[Len(group.ends)]
  IN /\ \A i \in DOMAIN group.ends :
          i < Len(group.ends) \/ ~group.data.transitioning => group.ends[i] = DroppedHide
     /\ group.data.transitioning =>
          /\ group.ends # << >>
          /\ last = [event |-> IF group.in THEN "show" ELSE "hide", owned |-> TRUE]
     /\ ~group.data.transitioning /\ group.ends # << >> => ~group.in
     /\ group.ends # << >> => transitions

GroupOK(group) ==
  /\ group \in GroupType
  /\ group.data = NoData \/ (group.data.made /\ group.data.parent)
  /\ EndsOK(group)
  /\ ~group.in => group.height = "0"
  /\ group.in /\ group.ends = << >> => group.height = "auto"

OneIn(all) == \A g, h \in Groups : all[g].in /\ all[h].in => g = h

GroupsOK(all) ==
  /\ DOMAIN all = Groups /\ all = [g \in Groups |-> all[g]]
  /\ \A g \in Groups : GroupOK(all[g])
  /\ OneIn(all)

CollapseInv ==
  /\ transitions \in BOOLEAN
  /\ ~scripted => GroupsOK(groups)

(* A group that does not move and is open has nothing that waits.          *)
LEMMA OpenIsStill ==
  ASSUME NEW x, GroupOK(x), x.in, ~x.data.transitioning
  PROVE  x.ends = << >>
BY DEF GroupOK, EndsOK

(* A completion that is appended is the last, and the others stay.         *)
LEMMA AppendEnd ==
  ASSUME NEW ends \in Seq(GroupEnds), NEW end \in GroupEnds
  PROVE  /\ Append(ends, end) \in Seq(GroupEnds) /\ Append(ends, end) # << >>
         /\ Len(Append(ends, end)) = Len(ends) + 1 /\ Len(ends) \in Nat
         /\ Append(ends, end)[Len(ends) + 1] = end
         /\ \A i \in 1 .. Len(ends) : Append(ends, end)[i] = ends[i]
         /\ DOMAIN ends = 1 .. Len(ends)
         /\ DOMAIN Append(ends, end) = 1 .. Len(ends) + 1
<1>1. /\ Append(ends, end) \in Seq(GroupEnds)
      /\ Len(Append(ends, end)) = Len(ends) + 1
      /\ Append(ends, end)[Len(ends) + 1] = end
      /\ \A i \in 1 .. Len(ends) : Append(ends, end)[i] = ends[i]
  BY AppendProperties
<1>2. Len(ends) \in Nat /\ DOMAIN ends = 1 .. Len(ends)
  OBVIOUS
<1> DEFINE more == Append(ends, end)
<1> HIDE DEF more
<1>3. more \in Seq(GroupEnds) /\ Len(more) = Len(ends) + 1
  BY <1>1 DEF more
<1>4. DOMAIN more = 1 .. Len(ends) + 1 /\ more # << >>
  BY <1>2, <1>3
<1> QED BY <1>1, <1>2, <1>4 DEF more

(* A group that is hidden, or that moves and is left alone, is as it       *)
(* should be, and is not opened.                                           *)
LEMMA HiddenKeeps ==
  ASSUME NEW x, GroupOK(x), x.data.made
  PROVE  GroupOK(Hidden(x)) /\ (Hidden(x).in => x.in) /\ Hidden(x).data.made
         /\ (~x.data.transitioning => ~Hidden(x).in)
<1>1. CASE x.data.transitioning \/ ~x.in
  BY <1>1 DEF Hidden
<1>2. CASE ~x.data.transitioning /\ x.in
  <2> DEFINE end == [event |-> "hide", owned |-> TRUE]
             data == [x.data EXCEPT !.transitioning = TRUE]
  <2>1. x.ends = << >> /\ x \in GroupType
    BY <1>2, OpenIsStill DEF GroupOK
  <2>2. CASE transitions
    <3>1. Append(x.ends, end) = <<end>>
      BY <2>1
    <3>2. Hidden(x) = [x EXCEPT !.in = FALSE, !.data = data, !.ends = <<end>>, !.height = "0"]
      BY <1>2, <2>1, <2>2, <3>1 DEF Hidden, Transition, GroupType
    <3>3. <<end>> \in Seq(GroupEnds) /\ Len(<<end>>) = 1 /\ DOMAIN <<end>> = {1} /\ <<end>>[1] = end /\ <<end>> # << >>
      <4>1. end \in GroupEnds
        BY DEF GroupEnds
      <4> HIDE DEF end
      <4> QED BY <4>1
    <3>4. data \in [transitioning : BOOLEAN, parent : BOOLEAN, made : BOOLEAN]
          /\ data.transitioning /\ data.made /\ data.parent = x.data.parent
      BY <1>2, <2>1 DEF GroupType
    <3>5. x.data.parent
      BY DEF GroupOK, NoData
    <3> DEFINE y == Hidden(x)
               ends == <<end>>
    <3> HIDE DEF data, ends
    <3>6. /\ y \in GroupType /\ ~y.in /\ y.data = data /\ y.ends = ends /\ y.height = "0"
      BY <2>1, <3>2, <3>3, <3>4 DEF GroupType, ends
    <3> HIDE DEF y
    <3>7. EndsOK(y)
      BY <2>2, <3>3, <3>4, <3>6 DEF EndsOK, ends
    <3>8. GroupOK(y)
      BY <3>4, <3>5, <3>6, <3>7 DEF GroupOK
    <3> QED BY <3>4, <3>6, <3>8 DEF y
  <2>3. CASE ~transitions
    <3> DEFINE y == [x EXCEPT !.in = FALSE, !.height = "0"]
    <3>1. Hidden(x) = y
      <4> DEFINE was == x.data
                 moves == [was EXCEPT !.transitioning = TRUE]
                 a == [x EXCEPT !.in = FALSE, !.data = moves]
      <4>1. was \in [transitioning : BOOLEAN, parent : BOOLEAN, made : BOOLEAN] /\ ~was.transitioning
        BY <1>2, <2>1 DEF GroupType
      <4>2. Hidden(x) = [Completed(a, "hide") EXCEPT !.height = "0"]
        BY <1>2, <2>3 DEF Hidden, Transition
      <4> HIDE DEF was
      <4>3. [moves EXCEPT !.transitioning = FALSE] = was
        BY <4>1
      <4> HIDE DEF moves
      <4>4. a.data = moves
        BY <2>1 DEF GroupType
      <4>5. Completed(a, "hide") = [a EXCEPT !.height = a.height, !.data = was]
        BY <4>3, <4>4 DEF Completed
      <4>6. x \in GroupType /\ was = x.data
        BY <2>1 DEF was
      <4> QED BY <4>2, <4>5, <4>6 DEF GroupType
    <3>2. /\ y \in GroupType /\ ~y.in /\ y.data = x.data /\ y.ends = << >> /\ y.height = "0"
      BY <2>1 DEF GroupType
    <3> HIDE DEF y
    <3>3. EndsOK(y)
      BY <1>2, <3>2 DEF EndsOK
    <3> QED BY <3>1, <3>2, <3>3 DEF GroupOK
  <2> QED BY <2>2, <2>3
<1> QED BY <1>1, <1>2 DEF GroupOK, GroupType

(* And so is one that is shown.                                            *)
LEMMA ShownKeeps ==
  ASSUME NEW x, GroupOK(x), x.data.made, ~x.data.transitioning, ~x.in
  PROVE  GroupOK(Shown(x)) /\ Shown(x).data.made
<1> DEFINE end == [event |-> "show", owned |-> TRUE]
           data == [x.data EXCEPT !.transitioning = TRUE]
           more == Append(x.ends, end)
           y == Shown(x)
<1>1. x \in GroupType /\ x.ends \in Seq(GroupEnds) /\ x.data.parent
  BY DEF GroupOK, GroupType, NoData
<1>2. CASE transitions
  <2>1. Shown(x) = [x EXCEPT !.in = TRUE, !.data = data, !.ends = more, !.height = "size"]
    BY <1>1, <1>2 DEF Shown, Transition, GroupType
  <2>2. end \in GroupEnds /\ end.event = "show" /\ end.owned
    BY DEF GroupEnds
  <2>3. /\ data \in [transitioning : BOOLEAN, parent : BOOLEAN, made : BOOLEAN]
        /\ data.transitioning /\ data.made /\ data.parent
    BY <1>1 DEF GroupType
  <2>4. \A i \in DOMAIN x.ends : x.ends[i] = DroppedHide
    BY DEF GroupOK, EndsOK
  <2>5. end = [event |-> "show", owned |-> TRUE]
    OBVIOUS
  <2> HIDE DEF end, data
  <2>6. /\ more \in Seq(GroupEnds) /\ more # << >> /\ Len(more) = Len(x.ends) + 1 /\ Len(x.ends) \in Nat
        /\ more[Len(x.ends) + 1] = end /\ \A i \in 1 .. Len(x.ends) : more[i] = x.ends[i]
        /\ DOMAIN x.ends = 1 .. Len(x.ends) /\ DOMAIN more = 1 .. Len(x.ends) + 1
    BY <1>1, <2>2, AppendEnd
  <2> HIDE DEF more
  <2>7. y \in GroupType /\ y.in /\ y.data = data /\ y.ends = more /\ y.height = "size"
    BY <1>1, <2>1, <2>3, <2>6 DEF GroupType
  <2> HIDE DEF y
  <2>8. \A i \in DOMAIN more : i < Len(more) => more[i] = DroppedHide
    BY <2>4, <2>6
  <2>9. EndsOK(y)
    BY <1>2, <2>3, <2>5, <2>6, <2>7, <2>8 DEF EndsOK
  <2>10. GroupOK(y)
    BY <2>3, <2>6, <2>7, <2>9 DEF GroupOK
  <2> QED BY <2>3, <2>7, <2>10 DEF y
<1>3. CASE ~transitions
  <2> DEFINE z == [x EXCEPT !.in = TRUE, !.height = "auto"]
  <2>1. x.ends = << >>
    BY <1>3 DEF GroupOK, EndsOK
  <2>2. Shown(x) = z
    <3>1. [[x.data EXCEPT !.transitioning = TRUE] EXCEPT !.transitioning = FALSE] = x.data
      BY <1>1 DEF GroupType
    <3>2. Shown(x) = [x EXCEPT !.in = TRUE, !.height = "auto",
                               !.data = [[x.data EXCEPT !.transitioning = TRUE] EXCEPT !.transitioning = FALSE]]
      BY <1>1, <1>3 DEF Shown, Transition, Completed, GroupType
    <3> QED BY <1>1, <3>1, <3>2 DEF GroupType
  <2>3. z \in GroupType /\ z.in /\ z.data = x.data /\ z.ends = << >> /\ z.height = "auto"
    BY <1>1, <2>1 DEF GroupType
  <2> HIDE DEF z
  <2>4. EndsOK(z)
    BY <2>3 DEF EndsOK
  <2> QED BY <1>1, <2>2, <2>3, <2>4 DEF GroupOK
<1> QED BY <1>2, <1>3

(* A group without an object is given one, which hides it, and loses it.   *)
LEMMA DroppedKeeps ==
  ASSUME NEW x, GroupOK(x), ~x.data.made, x.in
  PROVE  GroupOK(Dropped(ActiveHidden(x))) /\ ~Dropped(ActiveHidden(x)).in
<1> DEFINE end == [event |-> "hide", owned |-> TRUE]
           y == Dropped(ActiveHidden(x))
<1>1. x \in GroupType /\ x.data = NoData /\ ~x.data.transitioning
  BY DEF GroupOK, NoData
<1>2. x.ends = << >>
  BY <1>1, OpenIsStill
<1>3. NoData \in [transitioning : BOOLEAN, parent : BOOLEAN, made : BOOLEAN] /\ ~NoData.transitioning
  BY DEF NoData
<1>4. CASE transitions
  <2> DEFINE data == [Object(FALSE) EXCEPT !.transitioning = TRUE]
             h == [x EXCEPT !.in = FALSE, !.data = data, !.ends = <<end>>, !.height = "0"]
             ends == <<DroppedHide>>
  <2>1. Append(<< >>, end) = <<end>>
    OBVIOUS
  <2>2. ActiveHidden(x) = h
    BY <1>1, <1>2, <1>4, <2>1 DEF ActiveHidden, Hidden, Transition, GroupType, Object
  <2>3. [i \in DOMAIN <<end>> |-> [<<end>>[i] EXCEPT !.owned = FALSE]] = ends
    <3>1. DOMAIN <<end>> = 1 .. 1 /\ <<end>>[1] = end
      OBVIOUS
    <3>2. [end EXCEPT !.owned = FALSE] = DroppedHide
      <4>1. end \in GroupEnds /\ end.event = "hide"
        BY DEF GroupEnds
      <4>2. DroppedHide \in GroupEnds /\ DroppedHide.event = "hide" /\ DroppedHide.owned = FALSE
        BY DEF DroppedHide, GroupEnds
      <4> DEFINE lost == [end EXCEPT !.owned = FALSE]
      <4> HIDE DEF end
      <4>3. lost \in GroupEnds /\ lost.event = "hide" /\ lost.owned = FALSE
        BY <4>1 DEF GroupEnds
      <4>4. \A a, b \in GroupEnds : a.event = b.event /\ a.owned = b.owned => a = b
        BY DEF GroupEnds
      <4> HIDE DEF lost
      <4>5. lost = DroppedHide
        BY <4>2, <4>3, <4>4
      <4> QED BY <4>5 DEF lost
    <3>3. [i \in DOMAIN <<end>> |-> [<<end>>[i] EXCEPT !.owned = FALSE]] = [i \in 1 .. 1 |-> DroppedHide]
      BY <3>1, <3>2
    <3>4. [i \in 1 .. 1 |-> DroppedHide] = <<DroppedHide>>
      OBVIOUS
    <3> QED BY <3>3, <3>4
  <2>4. y = [x EXCEPT !.in = FALSE, !.data = NoData, !.ends = ends, !.height = "0"]
    <3> DEFINE own == <<end>>
               a == [x EXCEPT !.in = FALSE, !.data = data, !.ends = own, !.height = "0"]
    <3>1. ActiveHidden(x) = a /\ [i \in DOMAIN own |-> [own[i] EXCEPT !.owned = FALSE]] = ends
      BY <2>2, <2>3
    <3> HIDE DEF data, own, ends
    <3>2. a.ends = own
      BY <1>1 DEF GroupType
    <3>3. y = [a EXCEPT !.data = NoData, !.ends = ends]
      BY <3>1, <3>2 DEF Dropped
    <3> QED BY <1>1, <3>3 DEF GroupType
  <2>5. ends \in Seq(GroupEnds) /\ DOMAIN ends = {1} /\ ends[1] = DroppedHide
    <3>1. DroppedHide \in GroupEnds
      BY DEF DroppedHide, GroupEnds
    <3> QED BY <3>1
  <2> HIDE DEF ends
  <2>6. y \in GroupType /\ ~y.in /\ y.data = NoData /\ y.ends = ends /\ y.height = "0"
    BY <1>1, <1>3, <2>4, <2>5 DEF GroupType
  <2> HIDE DEF y
  <2>7. EndsOK(y)
    BY <1>3, <1>4, <2>5, <2>6 DEF EndsOK
  <2> QED BY <2>6, <2>7 DEF GroupOK, y
<1>5. CASE ~transitions
  <2> DEFINE z == [x EXCEPT !.in = FALSE, !.height = "0"]
  <2>1. ActiveHidden(x) = [x EXCEPT !.in = FALSE, !.height = "0", !.data = Object(FALSE)]
    <3> DEFINE data == [[Object(FALSE) EXCEPT !.transitioning = TRUE] EXCEPT !.transitioning = FALSE]
               made == [x EXCEPT !.data = Object(FALSE)]
    <3>1. data = Object(FALSE)
      <4> DEFINE o == Object(FALSE)
      <4>1. o \in [transitioning : BOOLEAN, parent : BOOLEAN, made : BOOLEAN] /\ ~o.transitioning
        BY DEF Object
      <4> HIDE DEF o
      <4>2. [[o EXCEPT !.transitioning = TRUE] EXCEPT !.transitioning = FALSE] = o
        BY <4>1
      <4> QED BY <4>2 DEF o
    <3>2. ActiveHidden(x) = Hidden(made) /\ made.in /\ ~made.data.transitioning
      BY <1>1 DEF ActiveHidden, NoData, GroupType, Object
    <3>3. Hidden(made) = [x EXCEPT !.in = FALSE, !.height = "0", !.data = data]
      BY <1>1, <1>5, <3>2 DEF Hidden, Transition, Completed, GroupType, Object
    <3> QED BY <3>1, <3>2, <3>3
  <2>2. [i \in DOMAIN x.ends |-> [x.ends[i] EXCEPT !.owned = FALSE]] = x.ends
    BY <1>2
  <2>3. y = z
    <3> DEFINE o == Object(FALSE)
               a == [x EXCEPT !.in = FALSE, !.height = "0", !.data = o]
    <3>1. ActiveHidden(x) = a
      BY <2>1
    <3> HIDE DEF o
    <3>2. a.ends = x.ends
      BY <1>1 DEF GroupType
    <3>3. y = [a EXCEPT !.data = NoData, !.ends = x.ends]
      BY <2>2, <3>1, <3>2 DEF Dropped
    <3> QED BY <1>1, <3>3 DEF GroupType
  <2>4. z \in GroupType /\ ~z.in /\ z.data = NoData /\ z.ends = << >> /\ z.height = "0"
    BY <1>1, <1>2 DEF GroupType
  <2> HIDE DEF z
  <2>5. EndsOK(z)
    BY <1>3, <2>4 DEF EndsOK
  <2> QED BY <2>3, <2>4, <2>5 DEF GroupOK
<1> QED BY <1>4, <1>5

(* One group that changes, and is open only if it was, or if no other is.  *)
LEMMA OneChanges ==
  ASSUME NEW all, GroupsOK(all), NEW g \in Groups, NEW x, GroupOK(x),
         x.in => \A h \in Groups \ {g} : ~all[h].in
  PROVE  GroupsOK([all EXCEPT ![g] = x])
<1> DEFINE new == [all EXCEPT ![g] = x]
<1>1. /\ DOMAIN new = Groups /\ new = [h \in Groups |-> new[h]]
      /\ new[g] = x /\ \A h \in Groups \ {g} : new[h] = all[h]
  BY DEF GroupsOK
<1> HIDE DEF new
<1>2. \A h \in Groups : GroupOK(new[h])
  BY <1>1 DEF GroupsOK
<1>3. OneIn(new)
  BY <1>1 DEF GroupsOK, OneIn
<1>4. GroupsOK(new)
  BY <1>1, <1>2, <1>3 DEF GroupsOK
<1> QED BY <1>4 DEF new

(* Hiding one of the groups keeps the others as they are.                  *)
LEMMA HideGroupKeeps ==
  ASSUME NEW all, GroupsOK(all), NEW g \in Groups, all[g].data.made
  PROVE  GroupsOK(Hide(all, g))
<1>1. GroupOK(Hidden(all[g])) /\ (Hidden(all[g]).in => all[g].in)
  BY HiddenKeeps DEF GroupsOK
<1>2. Hidden(all[g]).in => \A h \in Groups \ {g} : ~all[h].in
  BY <1>1 DEF GroupsOK, OneIn
<1> DEFINE x == Hidden(all[g])
<1> HIDE DEF x
<1>3. GroupsOK([all EXCEPT ![g] = x])
  BY <1>1, <1>2, OneChanges DEF x
<1> QED BY <1>3 DEF Hide, x

(* To show a group is to hide the open one first: it is the only one, so   *)
(* the first, and either it has an object or it is given one for a while.  *)
LEMMA ShowGroupKeeps ==
  ASSUME NEW all, GroupsOK(all), NEW g \in Groups, all[g].data.made
  PROVE  GroupsOK(Show(all, g))
<1>1. all[g].data.parent /\ all[g] \in GroupType
  BY DEF GroupsOK, GroupOK, NoData
<1>2. CASE all[g].data.transitioning \/ all[g].in \/ FirstActiveMoves(all)
  BY <1>1, <1>2 DEF Show
<1>3. CASE ~ (all[g].data.transitioning \/ all[g].in \/ FirstActiveMoves(all))
  <2> DEFINE others == OthersHidden(all, g)
  <2>1. Show(all, g) = [others EXCEPT ![g] = Shown(others[g])]
    BY <1>3 DEF Show
  <2>2. GroupsOK(others) /\ others[g] = all[g] /\ \A h \in Groups : ~others[h].in
    <3>1. CASE Actives(all) = {}
      <4>1. others = [h \in Groups |-> all[h]]
        BY <1>1, <3>1 DEF OthersHidden
      <4> QED BY <3>1, <4>1 DEF GroupsOK, Actives
    <3>2. CASE Actives(all) # {}
      <4>1. PICK h \in Actives(all) : TRUE
        BY <3>2
      <4>2. Actives(all) = {h} /\ h \in Groups /\ h # g /\ all[h].in /\ h <= h
        <5>1. h \in Groups /\ all[h].in /\ h \in Nat
          <6>1. h \in Groups /\ all[h].in
            BY <4>1 DEF Actives
          <6>2. Cardinality(Groups) \in Nat /\ h \in 1 .. Cardinality(Groups)
            BY <6>1, GroupsAssumption, FS_CardinalityType
          <6> QED BY <6>1, <6>2
        <5>2. \A k \in Actives(all) : k = h
          BY <5>1 DEF Actives, GroupsOK, OneIn
        <5>3. h <= h
          BY <5>1
        <5> QED BY <1>3, <4>1, <5>1, <5>2, <5>3
      <4>3. ~all[h].data.transitioning /\ GroupOK(all[h])
        BY <1>3, <4>2 DEF FirstActiveMoves, GroupsOK
      <4> DEFINE x == IF all[h].data.made THEN ActiveHidden(all[h]) ELSE Dropped(ActiveHidden(all[h]))
      <4>4. GroupOK(x) /\ ~x.in
        <5>1. CASE all[h].data.made
          BY <4>3, <5>1, HiddenKeeps DEF ActiveHidden
        <5>2. CASE ~all[h].data.made
          BY <4>2, <4>3, <5>2, DroppedKeeps
        <5> QED BY <5>1, <5>2
      <4> HIDE DEF x
      <4>5. others = [all EXCEPT ![h] = x]
        <5>1. (\E k \in {h} : (\A j \in {h} : k <= j) /\ all[k].data.made) = all[h].data.made
          BY <4>2, <4>3 DEF GroupOK, GroupType
        <5>2. others = [k \in Groups |-> IF k \in {h} THEN x ELSE all[k]]
          BY <1>1, <4>2, <5>1 DEF OthersHidden, x
        <5>3. DOMAIN all = Groups /\ all = [k \in Groups |-> all[k]]
          BY DEF GroupsOK
        <5>4. [k \in Groups |-> IF k \in {h} THEN x ELSE all[k]] = [all EXCEPT ![h] = x]
          BY <4>2, <5>3
        <5> QED BY <5>2, <5>4
      <4>6. GroupsOK(others)
        <5>1. GroupsOK([all EXCEPT ![h] = x])
          BY <4>2, <4>4, OneChanges
        <5> QED BY <4>5, <5>1
      <4>7. others[h] = x /\ \A k \in Groups \ {h} : others[k] = all[k]
        BY <4>2, <4>5 DEF GroupsOK
      <4> HIDE DEF others
      <4>8. \A k \in Groups : ~others[k].in
        BY <4>2, <4>4, <4>7 DEF Actives
      <4> QED BY <4>2, <4>6, <4>7, <4>8
    <3> QED BY <3>1, <3>2
  <2> HIDE DEF others
  <2>3. GroupOK(Shown(others[g]))
    BY <1>3, <2>2, ShownKeeps DEF GroupsOK
  <2> DEFINE x == Shown(others[g])
  <2> HIDE DEF x
  <2>4. GroupsOK([others EXCEPT ![g] = x])
    BY <2>2, <2>3, OneChanges DEF x
  <2> QED BY <2>1, <2>4 DEF x
<1> QED BY <1>2, <1>3

(* toggle() shows what is closed and hides what is open.                   *)
LEMMA ToggleKeeps ==
  ASSUME NEW all, GroupsOK(all), NEW g \in Groups, all[g].data.made
  PROVE  GroupsOK(Toggle(all, g))
BY HideGroupKeeps, ShowGroupKeeps DEF Toggle

(* A group whose object is made for a click on its heading is not moved by *)
(* that.                                                                   *)
LEMMA MadeGroupKeeps ==
  ASSUME NEW all, GroupsOK(all), NEW g \in Groups, ~all[g].data.made
  PROVE  GroupsOK(Made(all, g, TRUE))
<1> DEFINE x == [all[g] EXCEPT !.data = Object(TRUE)]
           with == [all EXCEPT ![g] = x]
<1>1. all[g] \in GroupType /\ all[g].data = NoData /\ GroupOK(all[g])
  BY DEF GroupsOK, GroupOK
<1>2. Object(TRUE) \in [transitioning : BOOLEAN, parent : BOOLEAN, made : BOOLEAN]
      /\ ~Object(TRUE).transitioning /\ Object(TRUE).parent /\ Object(TRUE).made
  BY DEF Object
<1>3. x \in GroupType /\ x.in = all[g].in /\ x.data = Object(TRUE) /\ x.height = all[g].height
      /\ x.ends = all[g].ends
  BY <1>1, <1>2 DEF GroupType
<1>4. Made(all, g, TRUE) = Toggle(with, g)
  BY DEF Made
<1> HIDE DEF x
<1>5. EndsOK(x)
  <2>1. ~all[g].data.transitioning /\ ~x.data.transitioning
    <3>1. ~NoData.transitioning
      BY DEF NoData
    <3>2. x.data.transitioning = Object(TRUE).transitioning /\ all[g].data.transitioning = NoData.transitioning
      BY <1>1, <1>3
    <3> QED BY <1>2, <3>1, <3>2
  <2>2. /\ \A i \in DOMAIN all[g].ends : all[g].ends[i] = DroppedHide
        /\ all[g].ends # << >> => ~all[g].in /\ transitions
    BY <1>1, <2>1 DEF GroupOK, EndsOK
  <2> QED BY <1>3, <2>1, <2>2 DEF EndsOK
<1>6. GroupOK(x)
  BY <1>1, <1>2, <1>3, <1>5 DEF GroupOK
<1>7. GroupsOK(with) /\ with[g] = x
  BY <1>3, <1>6, OneChanges DEF GroupsOK, OneIn
<1> HIDE DEF with
<1> QED BY <1>2, <1>3, <1>4, <1>7, ToggleKeeps

(* What waits for the end of a transition comes to the one completion of   *)
(* the object that moves: those of dropped objects change nothing.         *)
LEMMA EndsRun ==
  ASSUME NEW x, GroupOK(x), x.ends # << >>,
         NEW base, base = [x EXCEPT !.ends = << >>]
  PROVE  FoldLeft(RunEnd, base, x.ends) =
           IF x.data.transitioning THEN Completed(base, IF x.in THEN "show" ELSE "hide") ELSE base
<1> DEFINE event == IF x.in THEN "show" ELSE "hide"
           last == Completed(base, event)
           n == Len(x.ends)
           ends == x.ends
           h == [T \in SUBSET (1 .. n) |-> IF n \in T /\ x.data.transitioning THEN last ELSE base]
           Step(it) == [T \in SUBSET (1 .. n) |->
                          IF T = {} THEN base ELSE RunEnd(it[T \ {Max(T)}], ends[Max(T)])]
<1>1. x \in GroupType /\ base \in GroupType
  <2>1. << >> \in Seq(GroupEnds)
    OBVIOUS
  <2> QED BY <2>1 DEF GroupOK, GroupType
<1>2. n \in Nat \ {0} /\ DOMAIN ends = 1 .. n
  <2>1. x.ends \in Seq(GroupEnds)
    BY <1>1 DEF GroupType
  <2> QED BY <2>1
<1>3. RunEnd(base, DroppedHide) = base
  BY <1>1 DEF RunEnd, DroppedHide, CompletedDropped, GroupType
<1>4. \A i \in 1 .. n : i < n \/ ~x.data.transitioning => ends[i] = DroppedHide
  BY <1>2 DEF GroupOK, EndsOK
<1>5. x.data.transitioning => RunEnd(base, ends[n]) = last
  BY DEF GroupOK, EndsOK, RunEnd
<1> HIDE DEF event, last, ends, n
<1>6. ASSUME NEW T \in SUBSET (1 .. n), T # {}
      PROVE  h[T] = RunEnd(h[T \ {Max(T)}], ends[Max(T)])
  <2> DEFINE m == Max(T)
  <2>1. m \in T /\ \A y \in T : y <= m
    BY <1>2, <1>6, MaxIs
  <2> HIDE DEF m
  <2>2. m \in 1 .. n /\ T \ {m} \in SUBSET (1 .. n) /\ n \notin T \ {m}
    <3>1. m \in 1 .. n
      BY <2>1
    <3>2. n \in T => n <= m
      BY <2>1
    <3> QED BY <1>2, <3>1, <3>2
  <2>3. h[T \ {m}] = base
    BY <2>2
  <2>4. CASE m = n
    <3>1. h[T] = IF x.data.transitioning THEN last ELSE base
      BY <2>1, <2>4
    <3>2. RunEnd(base, ends[n]) = IF x.data.transitioning THEN last ELSE base
      BY <1>2, <1>3, <1>4, <1>5
    <3> HIDE DEF h
    <3> QED BY <2>3, <2>4, <3>1, <3>2 DEF m
  <2>5. CASE m # n
    <3>1. n \notin T
      BY <2>2, <2>5
    <3>2. h[T] = base
      BY <3>1
    <3>3. ends[m] = DroppedHide
      BY <1>2, <1>4, <2>2, <2>5
    <3> HIDE DEF h
    <3> QED BY <1>3, <2>3, <3>2, <3>3 DEF m
  <2> QED BY <2>4, <2>5
<1>7. h = Step(h)
  <2>1. h[{}] = base /\ {} \in SUBSET (1 .. n)
    OBVIOUS
  <2>2. \A T \in SUBSET (1 .. n) : h[T] = Step(h)[T]
    <3> SUFFICES ASSUME NEW T \in SUBSET (1 .. n)
                 PROVE  h[T] = IF T = {} THEN base ELSE RunEnd(h[T \ {Max(T)}], ends[Max(T)])
      OBVIOUS
    <3> QED BY <1>6, <2>1
  <2> QED BY <2>2
<1> DEFINE it == CHOOSE g : g = Step(g)
<1>8. it = Step(it)
  <2> HIDE DEF Step
  <2> QED BY <1>7
<1>9. FoldLeft(RunEnd, base, ends) = it[1 .. n]
  BY <1>2 DEF FoldLeft, MapThenFoldSet
<1> HIDE DEF it
<1>10. it[1 .. n] = h[1 .. n]
  <2>1. it[{}] = base /\ h[{}] = base
    BY <1>8
  <2>2. ASSUME NEW T \in SUBSET (1 .. n), T # {}, it[T \ {Max(T)}] = h[T \ {Max(T)}]
        PROVE  it[T] = h[T]
    <3>1. it[T] = RunEnd(it[T \ {Max(T)}], ends[Max(T)])
      BY <1>8, <2>2
    <3> HIDE DEF h
    <3> QED BY <1>6, <2>2, <3>1
  <2> HIDE DEF h, Step
  <2>3. n \in Nat
    BY <1>2
  <2>4. \A T \in SUBSET (1 .. n) : T # {} /\ it[T \ {Max(T)}] = h[T \ {Max(T)}] => it[T] = h[T]
    BY <2>2
  <2>5. it[{}] = h[{}]
    BY <2>1
  <2> HIDE DEF n
  <2> QED BY <2>3, <2>4, <2>5, StepsAgree, Zenon
<1>11. h[1 .. n] = IF x.data.transitioning THEN last ELSE base
  BY <1>2
<1> QED BY <1>9, <1>10, <1>11 DEF event, last, ends, n

(* Groups start closed, or with the first one open.                        *)
LEMMA CollapseStarts == CollapseInit => CollapseInv
<1> SUFFICES ASSUME CollapseInit
             PROVE  CollapseInv
  OBVIOUS
<1>1. PICK opened \in Groups \cup {0} : groups = [g \in Groups |-> IF g = opened THEN Opened ELSE Closed]
  BY DEF CollapseInit
<1>2. << >> \in Seq(GroupEnds) /\ DOMAIN << >> = {}
  OBVIOUS
<1>3. NoData \in [transitioning : BOOLEAN, parent : BOOLEAN, made : BOOLEAN] /\ ~NoData.transitioning
  BY DEF NoData
<1>4. GroupOK(Closed) /\ ~Closed.in
  BY <1>2, <1>3 DEF Closed, GroupOK, GroupType, EndsOK
<1>5. GroupOK(Opened) /\ Opened.in
  BY <1>2, <1>3 DEF Closed, Opened, GroupOK, GroupType, EndsOK
<1>6. \A g \in Groups : GroupOK(groups[g]) /\ (groups[g].in => g = opened)
  BY <1>1, <1>4, <1>5
<1>7. GroupsOK(groups)
  BY <1>1, <1>6 DEF GroupsOK, OneIn
<1> QED BY <1>7 DEF CollapseInv, CollapseInit

(* The state of the browser is that of before.                             *)
LEMMA TransitionEndKeeps ==
  ASSUME GroupsOK(groups), NEW g \in Groups, TransitionEnd(g)
  PROVE  GroupsOK(groups')
<1> DEFINE x == groups[g]
           base == [x EXCEPT !.ends = << >>]
           y == FoldLeft(RunEnd, base, x.ends)
<1>1. GroupOK(x) /\ x.ends # << >> /\ groups' = [groups EXCEPT ![g] = y]
  BY DEF GroupsOK, TransitionEnd
<1>2. y = IF x.data.transitioning THEN Completed(base, IF x.in THEN "show" ELSE "hide") ELSE base
  BY <1>1, EndsRun
<1> HIDE DEF x, y
<1>3. << >> \in Seq(GroupEnds) /\ x \in GroupType /\ DOMAIN << >> = {}
  BY <1>1 DEF GroupOK
<1>4. GroupOK(y) /\ y.in = x.in
  <2>1. CASE ~x.data.transitioning
    <3>1. y = base /\ ~x.in /\ x.height = "0"
      BY <1>1, <1>2, <2>1 DEF GroupOK, EndsOK
    <3>2. y \in GroupType /\ y.in = x.in /\ y.data = x.data /\ y.ends = << >> /\ y.height = "0"
      BY <1>3, <3>1 DEF GroupType
    <3>3. EndsOK(y)
      BY <1>3, <2>1, <3>1, <3>2 DEF EndsOK
    <3> QED BY <1>1, <3>1, <3>2, <3>3 DEF GroupOK
  <2>2. CASE x.data.transitioning
    <3> DEFINE height == IF x.in THEN "auto" ELSE x.height
               data == [x.data EXCEPT !.transitioning = FALSE]
    <3>1. y = [x EXCEPT !.ends = << >>, !.height = height, !.data = data]
      BY <1>2, <1>3, <2>2 DEF Completed, GroupType
    <3>2. data \in [transitioning : BOOLEAN, parent : BOOLEAN, made : BOOLEAN]
          /\ ~data.transitioning /\ data.made = x.data.made /\ data.parent = x.data.parent
      BY <1>3 DEF GroupType
    <3>3. x.data.made /\ x.data.parent
      BY <1>1, <2>2 DEF GroupOK, NoData
    <3>4. height \in {"0", "auto", "size"} /\ (~x.in => height = "0") /\ (x.in => height = "auto")
      BY <1>1, <1>3 DEF GroupOK, GroupType
    <3> HIDE DEF height, data
    <3>5. y \in GroupType /\ y.in = x.in /\ y.data = data /\ y.ends = << >> /\ y.height = height
      BY <1>3, <3>1, <3>2, <3>4 DEF GroupType
    <3>6. EndsOK(y)
      BY <1>3, <3>2, <3>5 DEF EndsOK
    <3> QED BY <3>2, <3>3, <3>4, <3>5, <3>6 DEF GroupOK
  <2> QED BY <2>1, <2>2
<1>5. y.in => \A h \in Groups \ {g} : ~groups[h].in
  BY <1>4 DEF GroupsOK, OneIn, x
<1>6. GroupsOK([groups EXCEPT ![g] = y])
  BY <1>4, <1>5, OneChanges
<1> QED BY <1>1, <1>6

(* Clicks and ends of transitions keep at most one group open and every    *)
(* group as it should be.                                                  *)
LEMMA CollapseKeeps ==
  ASSUME CollapseInv, CollapseNext \/ UNCHANGED collapseVars
  PROVE  CollapseInv'
<1>1. transitions' = transitions
  BY DEF CollapseNext, Click, Call, TransitionEnd, collapseVars
<1>3. GroupsOK(groups)' <=> GroupsOK(groups')
  BY <1>1 DEF GroupsOK, GroupOK, EndsOK, OneIn
<1>4. ASSUME ~scripted'
      PROVE  GroupsOK(groups')
  <2>1. CASE UNCHANGED collapseVars
    BY <1>4, <2>1 DEF collapseVars, CollapseInv
  <2>2. CASE CollapseNext
    <3>1. PICK g \in Groups : Click(g) \/ Call(g) \/ TransitionEnd(g)
      BY <2>2 DEF CollapseNext
    <3>2. ~scripted /\ GroupsOK(groups)
      <4>1. CASE Click(g)
        BY <1>4, <4>1 DEF Click, CollapseInv
      <4>2. CASE Call(g)
        <5>1. scripted' = (scripted \/ ~groups[g].data.made)
          BY <4>2 DEF Call
        <5> QED BY <1>4, <5>1 DEF CollapseInv
      <4>3. CASE TransitionEnd(g)
        BY <1>4, <4>3 DEF TransitionEnd, CollapseInv
      <4> QED BY <3>1, <4>1, <4>2, <4>3
    <3>3. CASE Click(g)
      BY <3>2, <3>3, ToggleKeeps, MadeGroupKeeps DEF Click
    <3>4. CASE Call(g)
      <4>1. groups[g].data.made
        BY <1>4, <3>4 DEF Call
      <4>2. PICK method \in {"show", "hide", "toggle"} : groups' = Method(groups, g, method)
        BY <3>4, <4>1 DEF Call
      <4> QED BY <3>2, <4>1, <4>2, ShowGroupKeeps, HideGroupKeeps, ToggleKeeps DEF Method
    <3>5. CASE TransitionEnd(g)
      BY <3>2, <3>5, TransitionEndKeeps
    <3> QED BY <3>1, <3>3, <3>4, <3>5
  <2> QED BY <2>1, <2>2
<1> QED BY <1>1, <1>3, <1>4 DEF CollapseInv

(* So at most one group is open, and one at rest has the height of its     *)
(* state.                                                                  *)
LEMMA CollapseHolds == CollapseInv => OneGroupOpen /\ RestingHeight
<1> SUFFICES ASSUME CollapseInv, ~scripted
             PROVE  OneGroupOpen /\ RestingHeight
  BY DEF OneGroupOpen, RestingHeight
<1>1. GroupsOK(groups)
  BY DEF CollapseInv
<1>2. OneGroupOpen
  BY <1>1 DEF GroupsOK, OneIn, OneGroupOpen
<1>3. ASSUME NEW g \in Groups, groups[g].ends = << >>
      PROVE  /\ groups[g].height = IF groups[g].in THEN "auto" ELSE "0"
             /\ ~groups[g].data.transitioning
  BY <1>1, <1>3 DEF GroupsOK, GroupOK, EndsOK
<1> QED BY <1>2, <1>3 DEF RestingHeight

-----------------------------------------------------------------------------
(* Carousel: one timer, one item, and the one asked for last.              *)

(* A slide that runs: the item it leaves and the one it brings.            *)
Slides == [from : SUBSET Items, next : Items]

SlidPositions == Items \cup {NoItem}

CarouselType ==
  [active : SUBSET Items, marked : SUBSET Items, sliding : BOOLEAN, ends : Seq(Slides),
   slids : Seq(SlidPositions), timeouts : Nat, interval : BOOLEAN, timers : Int,
   paused : BOOLEAN, asked : SlidPositions, hasty : BOOLEAN]

(* There is a timer if and only if the carousel knows it, and none when it *)
(* is paused.                                                              *)
TimerOK(c) ==
  /\ c.timers = (IF c.interval THEN 1 ELSE 0)
  /\ c.paused => ~c.interval

Timed(c) == c \in CarouselType /\ TimerOK(c)

(* Two carousels alike but for their timers.                               *)
SameSlides(c, d) ==
  /\ c.active = d.active /\ c.marked = d.marked /\ c.sliding = d.sliding /\ c.ends = d.ends
  /\ c.slids = d.slids /\ c.timeouts = d.timeouts /\ c.asked = d.asked /\ c.hasty = d.hasty

(* clearInterval() stops the timer there is.                               *)
LEMMA ClearIntervalDoes ==
  ASSUME NEW c \in CarouselType, c.timers = (IF c.interval THEN 1 ELSE 0)
  PROVE  /\ Timed(ClearInterval(c)) /\ SameSlides(ClearInterval(c), c)
         /\ ~ClearInterval(c).interval /\ ClearInterval(c).timers = 0
         /\ ClearInterval(c).paused = c.paused
<1>1. CASE c.interval
  <2> DEFINE timers == c.timers - 1
             y == [c EXCEPT !.timers = timers, !.interval = FALSE]
  <2>1. timers = 0 /\ timers \in Int
    BY <1>1
  <2>2. ClearInterval(c) = y
    BY <1>1 DEF ClearInterval
  <2> HIDE DEF timers
  <2>3. y \in CarouselType
    BY <2>1 DEF CarouselType
  <2>4. SameSlides(y, c) /\ ~y.interval /\ y.timers = timers /\ y.paused = c.paused
    BY DEF CarouselType, SameSlides
  <2> HIDE DEF y
  <2> QED BY <2>1, <2>2, <2>3, <2>4 DEF Timed, TimerOK
<1>2. CASE ~c.interval
  BY <1>2 DEF Timed, TimerOK, ClearInterval, SameSlides
<1> QED BY <1>1, <1>2

(* cycle() starts a timer only after it has stopped the one there is.      *)
LEMMA CycleDoes ==
  ASSUME NEW c \in CarouselType, c.timers = (IF c.interval THEN 1 ELSE 0), NEW byEvent \in BOOLEAN
  PROVE  Timed(Cycle(c, byEvent)) /\ SameSlides(Cycle(c, byEvent), c)
<1> DEFINE paused == [c EXCEPT !.paused = @ /\ byEvent]
           cleared == ClearInterval(paused)
<1>1. /\ paused \in CarouselType /\ SameSlides(paused, c)
      /\ paused.timers = c.timers /\ paused.interval = c.interval
  BY DEF CarouselType, SameSlides
<1> HIDE DEF paused
<1>2. Timed(cleared) /\ SameSlides(cleared, paused) /\ ~cleared.interval /\ cleared.timers = 0
  BY <1>1, ClearIntervalDoes DEF Timed, TimerOK
<1>3. Cycle(c, byEvent) = IF cleared.paused THEN cleared ELSE Started(cleared)
  BY DEF Cycle, paused
<1> HIDE DEF cleared
<1>4. CASE cleared.paused
  BY <1>1, <1>2, <1>3, <1>4 DEF SameSlides
<1>5. CASE ~cleared.paused
  <2>1. Timed(Started(cleared)) /\ SameSlides(Started(cleared), cleared)
    <3> DEFINE timers == cleared.timers + 1
               y == [cleared EXCEPT !.interval = TRUE, !.timers = timers]
    <3>1. timers = 1 /\ timers \in Int /\ cleared \in CarouselType
      BY <1>2 DEF Timed
    <3>2. Started(cleared) = y
      BY DEF Started
    <3> HIDE DEF timers
    <3>3. y \in CarouselType
      BY <3>1 DEF CarouselType
    <3>4. SameSlides(y, cleared) /\ y.interval = TRUE /\ y.timers = timers /\ y.paused = cleared.paused
      BY <3>1 DEF CarouselType, SameSlides
    <3> HIDE DEF y
    <3> QED BY <1>5, <3>1, <3>2, <3>3, <3>4 DEF Timed, TimerOK
  <2> QED BY <1>1, <1>2, <1>3, <1>5, <2>1 DEF SameSlides
<1> QED BY <1>4, <1>5

(* pause() of a carousel that does not move stops its timer and nothing    *)
(* else.                                                                   *)
LEMMA PauseStill ==
  ASSUME NEW c, Timed(c), c.ends = << >>, NEW byEvent \in BOOLEAN
  PROVE  Timed(Pause(c, byEvent)) /\ SameSlides(Pause(c, byEvent), c)
<1> DEFINE paused == [c EXCEPT !.paused = @ \/ ~byEvent]
<1>1. Pause(c, byEvent) = ClearInterval(paused)
  BY DEF Pause, CarouselType, Timed
<1>2. paused \in CarouselType /\ paused.timers = c.timers /\ paused.interval = c.interval
      /\ SameSlides(paused, c)
  BY DEF Timed, CarouselType, SameSlides
<1> HIDE DEF paused
<1>3. Timed(ClearInterval(paused)) /\ SameSlides(ClearInterval(paused), paused)
  BY <1>2, ClearIntervalDoes DEF Timed, TimerOK
<1> QED BY <1>1, <1>2, <1>3 DEF SameSlides

OneActive(c) == \E i \in Items : c.active = {i}

(* A carousel that slides waits for the end of the one slide from its      *)
(* active item.                                                            *)
EndsMatch(c) ==
  IF c.sliding THEN \E next \in Items : c.ends = << [from |-> c.active, next |-> next] >>
  ELSE c.ends = << >>

(* A handler of slid waits only while a slide runs or a timeout for its    *)
(* event does.                                                             *)
SlidsMatch(c) ==
  /\ ~c.sliding /\ c.timeouts = 0 => c.slids = << >>
  /\ \A i \in DOMAIN c.slids :
       i > 1 /\ c.slids[i] = NoItem => c.timeouts > 1 \/ (c.sliding /\ c.timeouts > 0)
  /\ c.sliding \/ c.timeouts > 0 => hasTransitions

(* As long as no slide was asked for in haste, indicators are marked by    *)
(* one handler, the first.                                                 *)
Marks(c) ==
  ~c.hasty =>
    /\ c.timeouts <= 1 /\ (c.sliding => c.timeouts = 0)
    /\ c.sliding \/ c.timeouts = 1 =>
         c.marked = {} /\ c.slids # << >> /\ c.slids[1] = NoItem
    /\ ~c.sliding /\ c.timeouts = 0 => c.marked = c.active

SlidesOK(c) == OneActive(c) /\ EndsMatch(c) /\ SlidsMatch(c) /\ Marks(c)

(* What a carousel is going to show at rest: the last position that waits, *)
(* else the item it slides to, else the one it has.                        *)
Shows(c, q) ==
  IF Queued(c) # {} THEN \E i \in Queued(c) : c.slids[i] = q /\ \A j \in Queued(c) : j <= i
  ELSE IF c.sliding THEN c.ends[1].next = q ELSE c.active = {q}

(* The timer has no part in what the slides should be.                     *)
LEMMA SameSlidesOK ==
  ASSUME NEW c, NEW d, SameSlides(c, d)
  PROVE  /\ SlidesOK(d) => SlidesOK(c)
         /\ Queued(c) = Queued(d)
         /\ \A q : Shows(d, q) => Shows(c, q)
<1>1. Queued(c) = Queued(d)
  BY DEF SameSlides, Queued
<1>2. SlidesOK(d) => SlidesOK(c)
  BY DEF SameSlides, SlidesOK, OneActive, EndsMatch, SlidsMatch, Marks
<1> QED BY <1>1, <1>2 DEF SameSlides, Shows

(* A transition of one slide that is ended is ended once.                  *)
LEMMA EndSlideOnce ==
  ASSUME NEW c, NEW slide
  PROVE  FoldLeft(EndSlide, c, <<slide>>) = EndSlide(c, slide)
<1> DEFINE ends == <<slide>>
           once == EndSlide(c, slide)
           h == [T \in SUBSET {1} |-> IF T = {} THEN c ELSE once]
           Step(it) == [T \in SUBSET {1} |->
                          IF T = {} THEN c ELSE EndSlide(it[T \ {Max(T)}], ends[Max(T)])]
<1>1. DOMAIN ends = {1} /\ ends[1] = slide
  OBVIOUS
<1>2. Max({1}) = 1
  BY DEF Max
<1>3. \A T \in SUBSET {1} : T = {} \/ T = {1}
  OBVIOUS
<1> HIDE DEF once, ends
<1>4. h = Step(h)
  <2>1. {1} \ {1} = {} /\ {} \in SUBSET {1}
    OBVIOUS
  <2>2. h[{1} \ {Max({1})}] = c
    BY <1>2, <2>1
  <2>3. \A T \in SUBSET {1} : h[T] = Step(h)[T]
    BY <1>1, <1>2, <1>3, <2>2 DEF once
  <2> QED BY <2>3
<1> DEFINE it == CHOOSE g : g = Step(g)
<1>5. it = Step(it)
  <2> HIDE DEF Step
  <2> QED BY <1>4
<1>6. FoldLeft(EndSlide, c, ends) = it[{1}]
  BY <1>1 DEF FoldLeft, MapThenFoldSet
<1> HIDE DEF it
<1>7. it[{}] = c
  BY <1>5
<1>8. it[{1}] = EndSlide(it[{1} \ {Max({1})}], ends[Max({1})])
  BY <1>5
<1>9. it[{1}] = EndSlide(it[{}], slide)
  BY <1>1, <1>2, <1>8
<1> QED BY <1>6, <1>7, <1>9 DEF once, ends

(* What end() leaves is a carousel at rest on the item it moved to.        *)
LEMMA EndDoes ==
  ASSUME NEW c \in CarouselType, SlidesOK(c), c.ends # << >>
  PROVE  /\ End(c) \in CarouselType /\ SlidesOK(End(c)) /\ End(c).ends = << >>
         /\ End(c).timers = c.timers /\ End(c).interval = c.interval /\ End(c).paused = c.paused
         /\ End(c).asked = c.asked
         /\ \A q : Shows(c, q) => Shows(End(c), q)
<1>1. c.sliding
  BY DEF SlidesOK, EndsMatch
<1>2. PICK next \in Items : c.ends = << [from |-> c.active, next |-> next] >>
  BY <1>1 DEF SlidesOK, EndsMatch
<1> DEFINE slide == [from |-> c.active, next |-> next]
           timeouts == c.timeouts + 1
           d == [c EXCEPT !.ends = << >>, !.active = {next}, !.sliding = FALSE, !.timeouts = timeouts]
<1>3. End(c) = d
  <2>1. End(c) = EndSlide([c EXCEPT !.ends = << >>], slide)
    BY <1>2, EndSlideOnce DEF End
  <2>2. (c.active \ slide.from) \cup {slide.next} = {next}
    OBVIOUS
  <2> QED BY <2>1, <2>2 DEF EndSlide, CarouselType
<1>4. timeouts \in Nat /\ timeouts = c.timeouts + 1 /\ c.timeouts \in Nat
  BY DEF CarouselType
<1> HIDE DEF timeouts
<1>5. d \in CarouselType
  <2>1. << >> \in Seq(Slides) /\ {next} \in SUBSET Items
    OBVIOUS
  <2> QED BY <1>4, <2>1 DEF CarouselType
<1>6. /\ d.ends = << >> /\ d.active = {next} /\ d.sliding = FALSE /\ d.timeouts = timeouts
      /\ d.timers = c.timers /\ d.interval = c.interval /\ d.paused = c.paused /\ d.asked = c.asked
      /\ d.marked = c.marked /\ d.slids = c.slids /\ d.hasty = c.hasty
  BY DEF CarouselType
<1>7. c.ends[1].next = next
  BY <1>2
<1> HIDE DEF d
<1>8. OneActive(d) /\ EndsMatch(d)
  BY <1>6 DEF OneActive, EndsMatch
<1>9. SlidsMatch(d)
  BY <1>1, <1>4, <1>6 DEF SlidesOK, SlidsMatch
<1>10. Marks(d)
  BY <1>1, <1>4, <1>6 DEF SlidesOK, Marks
<1>11. \A q : Shows(c, q) => Shows(d, q)
  <2>1. Queued(d) = Queued(c)
    BY <1>6 DEF Queued
  <2> QED BY <1>1, <1>6, <1>7, <2>1 DEF Shows
<1> QED BY <1>3, <1>5, <1>6, <1>8, <1>9, <1>10, <1>11 DEF SlidesOK

(* pause() ends a slide, and what was going to be shown still is.          *)
LEMMA PauseDoes ==
  ASSUME NEW c, Timed(c), SlidesOK(c), NEW byEvent \in BOOLEAN
  PROVE  /\ Timed(Pause(c, byEvent)) /\ SlidesOK(Pause(c, byEvent))
         /\ Pause(c, byEvent).ends = << >> /\ Pause(c, byEvent).asked = c.asked
         /\ \A q : Shows(c, q) => Shows(Pause(c, byEvent), q)
<1>1. CASE c.ends = << >>
  BY <1>1, PauseStill, SameSlidesOK DEF SameSlides
<1>2. CASE c.ends # << >>
  <2> DEFINE paused == [c EXCEPT !.paused = @ \/ ~byEvent]
             d == End(paused)
             e == Cycle(d, TRUE)
  <2>1. /\ paused \in CarouselType /\ SameSlides(paused, c)
        /\ paused.timers = c.timers /\ paused.interval = c.interval /\ paused.ends = c.ends
    BY DEF Timed, CarouselType, SameSlides
  <2>2. Pause(c, byEvent) = ClearInterval(e)
    BY <1>2, <2>1 DEF Pause
  <2> HIDE DEF paused
  <2>3. SlidesOK(paused) /\ \A q : Shows(c, q) => Shows(paused, q)
    BY <2>1, SameSlidesOK
  <2>4. /\ d \in CarouselType /\ SlidesOK(d) /\ d.ends = << >>
        /\ d.timers = paused.timers /\ d.interval = paused.interval /\ d.asked = paused.asked
        /\ \A q : Shows(paused, q) => Shows(d, q)
    BY <1>2, <2>1, <2>3, EndDoes
  <2> HIDE DEF d
  <2>5. d.timers = (IF d.interval THEN 1 ELSE 0)
    BY <2>1, <2>4 DEF Timed, TimerOK
  <2>6. Timed(e) /\ SameSlides(e, d)
    BY <2>4, <2>5, CycleDoes
  <2> HIDE DEF e
  <2>7. Timed(ClearInterval(e)) /\ SameSlides(ClearInterval(e), e)
    BY <2>6, ClearIntervalDoes DEF Timed, TimerOK
  <2>8. SameSlides(ClearInterval(e), d)
    BY <2>6, <2>7 DEF SameSlides
  <2>9. SlidesOK(ClearInterval(e)) /\ \A q : Shows(d, q) => Shows(ClearInterval(e), q)
    BY <2>4, <2>8, SameSlidesOK
  <2>10. ClearInterval(e).ends = << >> /\ ClearInterval(e).asked = c.asked
    BY <2>1, <2>4, <2>8 DEF SameSlides
  <2> QED BY <2>2, <2>3, <2>4, <2>7, <2>9, <2>10
<1> QED BY <1>1, <1>2

(* The index of the active item is that of the one there is.               *)
LEMMA ActiveIndexIs ==
  ASSUME NEW c, NEW i \in Items, c.active = {i}
  PROVE  ActiveIndex(c) = i
<1>1. i \in Nat
  BY ItemsAssumption, FS_CardinalityType
<1>2. \A j \in {i} : j <= i /\ i <= j
  BY <1>1
<1> QED BY <1>2 DEF ActiveIndex

(* A slide that begins marks no indicator, and is bound to slid; without   *)
(* transitions it is over at once.                                         *)
LEMMA SlideDoes ==
  ASSUME NEW c, Timed(c), SlidesOK(c), ~c.sliding, NEW next \in Items, hasTransitions \in BOOLEAN
  PROVE  /\ Timed(Slide(c, next)) /\ SlidesOK(Slide(c, next)) /\ Slide(c, next).asked = c.asked
         /\ Queued(Slide(c, next)) = Queued(c)
         /\ Queued(c) = {} => Shows(Slide(c, next), next)
         /\ Queued(c) # {} => \A q : Shows(c, q) => Shows(Slide(c, next), q)
         /\ c.timeouts > 0 => Slide(c, next).hasty /\ Slide(c, next).timeouts > 0
<1> DEFINE begun == [c EXCEPT !.sliding = TRUE]
           stopped == IF c.interval THEN Pause(begun, FALSE) ELSE begun
           hasty == c.timeouts > 0
           unmarked == [stopped EXCEPT !.marked = {}, !.hasty = hasty]
           slide == [from |-> c.active, next |-> next]
           slid == IF hasTransitions
                   THEN [unmarked EXCEPT !.ends = Append(@, slide), !.slids = Append(@, NoItem)]
                   ELSE Mark([unmarked EXCEPT !.active = {next}, !.sliding = FALSE])
           d == Slide(c, next)
<1>1. d = IF c.interval THEN Cycle(slid, FALSE) ELSE slid
  BY DEF Slide
<1>2. c \in CarouselType /\ c.ends = << >> /\ c.timeouts \in Nat
  BY DEF Timed, SlidesOK, EndsMatch, CarouselType
<1>3. /\ Timed(begun) /\ begun.ends = << >> /\ begun.sliding = TRUE
      /\ begun.slids = c.slids /\ begun.timeouts = c.timeouts /\ begun.active = c.active
      /\ begun.asked = c.asked
  BY <1>2 DEF Timed, TimerOK, CarouselType
<1> HIDE DEF begun
<1>4. Timed(stopped) /\ SameSlides(stopped, begun)
  BY <1>3, PauseStill DEF SameSlides
<1> HIDE DEF stopped
<1>5. hasty \in BOOLEAN
  OBVIOUS
<1> HIDE DEF hasty
<1>6. /\ Timed(unmarked) /\ unmarked.marked = {} /\ unmarked.hasty = hasty /\ unmarked.sliding = TRUE
      /\ unmarked.ends = << >> /\ unmarked.slids = c.slids /\ unmarked.timeouts = c.timeouts
      /\ unmarked.active = c.active /\ unmarked.asked = c.asked
  <2>1. stopped \in CarouselType
    BY <1>4 DEF Timed
  <2>2. unmarked \in CarouselType /\ unmarked.marked = {} /\ unmarked.hasty = hasty
        /\ unmarked.sliding = stopped.sliding /\ unmarked.ends = stopped.ends
        /\ unmarked.slids = stopped.slids /\ unmarked.timeouts = stopped.timeouts
        /\ unmarked.active = stopped.active /\ unmarked.asked = stopped.asked
        /\ unmarked.timers = stopped.timers /\ unmarked.interval = stopped.interval
        /\ unmarked.paused = stopped.paused
    BY <1>5, <2>1 DEF CarouselType
  <2> HIDE DEF unmarked
  <2> QED BY <1>3, <1>4, <2>2 DEF Timed, TimerOK, SameSlides
<1> HIDE DEF unmarked
<1>7. /\ slide \in Slides /\ NoItem \in SlidPositions /\ NoItem \notin Items
      /\ c.slids \in Seq(SlidPositions) /\ unmarked \in CarouselType
      /\ SlidsMatch(c) /\ OneActive(c)
  <2>1. NoItem \notin Items
    BY ItemsAssumption, FS_CardinalityType DEF NoItem
  <2> QED BY <1>2, <1>6, <2>1 DEF CarouselType, Slides, SlidPositions, Timed, SlidesOK
<1>8. /\ slid \in CarouselType /\ slid.timers = unmarked.timers /\ slid.interval = unmarked.interval
      /\ slid.paused = unmarked.paused /\ slid.asked = c.asked /\ slid.timeouts = c.timeouts
      /\ slid.hasty = hasty
      /\ hasTransitions =>
           /\ slid.active = c.active /\ slid.marked = {} /\ slid.sliding = TRUE
           /\ slid.ends = <<slide>> /\ slid.slids = Append(c.slids, NoItem)
      /\ ~hasTransitions =>
           /\ slid.active = {next} /\ slid.marked = {next} /\ slid.sliding = FALSE
           /\ slid.ends = << >> /\ slid.slids = c.slids
  <2>1. CASE hasTransitions
    <3> DEFINE ends == <<slide>>
               slids == Append(c.slids, NoItem)
    <3>1. ends \in Seq(Slides) /\ Append(<< >>, slide) = ends /\ slids \in Seq(SlidPositions)
      <4> HIDE DEF slide
      <4> QED BY <1>7
    <3>2. slid = [unmarked EXCEPT !.ends = ends, !.slids = slids]
      BY <1>6, <2>1, <3>1
    <3> HIDE DEF ends, slids
    <3>3. slid \in CarouselType
      BY <1>7, <3>1, <3>2 DEF CarouselType
    <3>4. slid.timers = unmarked.timers /\ slid.interval = unmarked.interval
          /\ slid.paused = unmarked.paused /\ slid.asked = unmarked.asked /\ slid.timeouts = unmarked.timeouts
          /\ slid.hasty = unmarked.hasty /\ slid.active = unmarked.active /\ slid.marked = unmarked.marked
          /\ slid.sliding = unmarked.sliding /\ slid.ends = ends /\ slid.slids = slids
      BY <1>7, <3>2 DEF CarouselType
    <3> QED BY <1>6, <2>1, <3>3, <3>4 DEF ends, slids
  <2>2. CASE ~hasTransitions
    <3> DEFINE moved == [unmarked EXCEPT !.active = {next}, !.sliding = FALSE]
    <3>1. slid = Mark(moved)
      BY <2>2
    <3>2. moved.active = {next} /\ moved.marked = {} /\ {next} \in SUBSET Items
      BY <1>6, <1>7 DEF CarouselType
    <3>3. ActiveIndex(moved) = next
      BY <3>2, ActiveIndexIs
    <3>4. moved.marked \cup {ActiveIndex(moved)} = {next}
      BY <3>2, <3>3
    <3>5. slid = [moved EXCEPT !.marked = {next}]
      BY <3>1, <3>4 DEF Mark
    <3>6. slid = [unmarked EXCEPT !.active = {next}, !.sliding = FALSE, !.marked = {next}]
      BY <3>5
    <3>7. slid \in CarouselType
      BY <1>7, <3>2, <3>6 DEF CarouselType
    <3>8. slid.timers = unmarked.timers /\ slid.interval = unmarked.interval
          /\ slid.paused = unmarked.paused /\ slid.asked = unmarked.asked /\ slid.timeouts = unmarked.timeouts
          /\ slid.hasty = unmarked.hasty /\ slid.active = {next} /\ slid.marked = {next}
          /\ slid.sliding = FALSE /\ slid.ends = unmarked.ends /\ slid.slids = unmarked.slids
      BY <1>7, <3>6 DEF CarouselType
    <3> QED BY <1>6, <2>2, <3>7, <3>8
  <2> QED BY <2>1, <2>2
<1> HIDE DEF slid
<1>9. slid.timers = (IF slid.interval THEN 1 ELSE 0) /\ Timed(slid)
  BY <1>6, <1>8 DEF Timed, TimerOK
<1>10. Timed(d) /\ SameSlides(d, slid)
  <2>1. slid \in CarouselType /\ slid.timers = (IF slid.interval THEN 1 ELSE 0)
    BY <1>8, <1>9
  <2>2. Timed(Cycle(slid, FALSE)) /\ SameSlides(Cycle(slid, FALSE), slid)
    BY <2>1, CycleDoes
  <2>3. d = slid \/ d = Cycle(slid, FALSE)
    BY <1>1
  <2> QED BY <1>9, <2>2, <2>3 DEF SameSlides
<1> HIDE DEF d
<1>11. CASE hasTransitions
  <2> DEFINE more == Append(c.slids, NoItem)
  <2>1. /\ more \in Seq(SlidPositions) /\ Len(more) = Len(c.slids) + 1 /\ Len(c.slids) \in Nat
        /\ \A i \in 1 .. Len(c.slids) : more[i] = c.slids[i]
        /\ more[Len(c.slids) + 1] = NoItem
        /\ DOMAIN c.slids = 1 .. Len(c.slids)
    BY <1>7, AppendProperties
  <2> HIDE DEF more
  <2>2. DOMAIN more = 1 .. Len(c.slids) + 1 /\ more # << >>
    BY <2>1
  <2>3. c.slids = << >> => more[1] = NoItem
    BY <2>1
  <2>4. /\ slid.active = c.active /\ slid.marked = {} /\ slid.sliding = TRUE
        /\ slid.ends = <<slide>> /\ slid.slids = more
    BY <1>8, <1>11 DEF more
  <2>5. OneActive(slid) /\ EndsMatch(slid)
    BY <1>7, <2>4 DEF OneActive, EndsMatch
  <2>6. SlidsMatch(slid)
    <3>1. ASSUME NEW i \in DOMAIN more, i > 1, more[i] = NoItem
          PROVE  c.timeouts > 0
      <4>1. c.slids # << >>
        BY <2>1, <2>2, <3>1
      <4> QED BY <1>2, <1>7, <4>1 DEF SlidsMatch
    <3> QED BY <1>8, <1>11, <2>4, <3>1 DEF SlidsMatch
  <2>7. Marks(slid)
    <3>1. ~hasty => c.timeouts = 0 /\ c.slids = << >>
      BY <1>2, <1>7 DEF hasty, SlidsMatch
    <3> QED BY <1>8, <2>2, <2>3, <2>4, <3>1 DEF Marks
  <2>8. Queued(slid) = Queued(c) /\ \A i \in Queued(c) : slid.slids[i] = c.slids[i]
    BY <2>1, <2>2, <2>4 DEF Queued
  <2>9. slid.ends[1].next = next
    BY <2>4
  <2>10. Queued(c) = {} => Shows(slid, next)
    BY <2>4, <2>8, <2>9 DEF Shows
  <2>11. Queued(c) # {} => \A q : Shows(c, q) => Shows(slid, q)
    BY <2>8 DEF Shows
  <2>12. c.timeouts > 0 => slid.hasty /\ slid.timeouts > 0
    BY <1>8 DEF hasty
  <2> QED BY <1>8, <1>10, <2>5, <2>6, <2>7, <2>8, <2>10, <2>11, <2>12, SameSlidesOK DEF d, SlidesOK, SameSlides
<1>12. CASE ~hasTransitions
  <2>1. /\ slid.active = {next} /\ slid.marked = {next} /\ slid.sliding = FALSE
        /\ slid.ends = << >> /\ slid.slids = c.slids
    BY <1>8, <1>12
  <2>2. c.timeouts = 0 /\ c.slids = << >> /\ DOMAIN << >> = {}
    BY <1>2, <1>7, <1>12 DEF SlidsMatch
  <2>3. SlidesOK(slid)
    BY <1>8, <2>1, <2>2 DEF SlidesOK, OneActive, EndsMatch, SlidsMatch, Marks
  <2>4. Queued(slid) = Queued(c) /\ Queued(c) = {}
    BY <2>1, <2>2 DEF Queued
  <2>5. Shows(slid, next)
    BY <2>1, <2>4 DEF Shows
  <2> QED BY <1>8, <1>10, <2>2, <2>3, <2>4, <2>5, SameSlidesOK DEF d, SameSlides
<1> QED BY <1>11, <1>12

(* What is bound to slid runs step by step: the steps exist for the empty  *)
(* sequence, and with them one more step does.                             *)
SlidSteps(h, base, seq, n) ==
  [T \in SUBSET (1 .. n) |-> IF T = {} THEN base ELSE RunSlid(h[T \ {Max(T)}], seq[Max(T)])]

(* A function that runs the handlers of slid one after another is there.   *)
LEMMA SlidStepsExist ==
  ASSUME NEW base, NEW seq, NEW n \in Nat
  PROVE  \E h : h = SlidSteps(h, base, seq, n)
<1> USE DEF SlidSteps
<1> DEFINE Step(h, m) == [T \in SUBSET (1 .. m) |->
                            IF T = {} THEN base ELSE RunSlid(h[T \ {Max(T)}], seq[Max(T)])]
           U == {m \in 0 .. n : ~ \E h : h = Step(h, m)}
<1> SUFFICES U = {}
  <2>1. n \in 0 .. n
    OBVIOUS
  <2> QED BY <2>1
<1> SUFFICES ASSUME U # {}
             PROVE  FALSE
  OBVIOUS
<1>1. PICK m \in U : \A k \in U : m <= k
  <2>1. U \in SUBSET Nat
    OBVIOUS
  <2> HIDE DEF U
  <2> QED BY <2>1, Least
<1>2. m \in 0 .. n /\ ~ \E h : h = Step(h, m)
  OBVIOUS
<1>3. CASE m = 0
  <2> DEFINE h == [T \in SUBSET (1 .. m) |-> base]
  <2>1. \A T \in SUBSET (1 .. m) : T = {}
    BY <1>3
  <2>2. h = Step(h, m)
    BY <2>1
  <2> QED BY <1>2, <2>2
<1>4. CASE m # 0
  <2>1. m - 1 \in 0 .. n /\ m - 1 \notin U
    <3>1. m \in Nat /\ m - 1 \in 0 .. n /\ ~ (m <= m - 1)
      BY <1>2, <1>4
    <3> HIDE DEF U
    <3> QED BY <1>1, <3>1
  <2>2. PICK g : g = Step(g, m - 1)
    BY <2>1
  <2> DEFINE h == [T \in SUBSET (1 .. m) |-> IF m \in T THEN RunSlid(g[T \ {m}], seq[m]) ELSE g[T]]
  <2>3. \A T \in SUBSET (1 .. m) :
          /\ T \ {m} \in SUBSET (1 .. m - 1)
          /\ m \notin T => T \in SUBSET (1 .. m - 1)
    BY <1>2, <1>4
  <2>4. \A T \in SUBSET (1 .. m - 1) : T \in SUBSET (1 .. m) /\ m \notin T
    BY <1>2, <1>4
  <2>5. \A T \in SUBSET (1 .. m - 1) : h[T] = g[T]
    BY <2>4
  <2>6. \A T \in SUBSET (1 .. m - 1) :
          g[T] = IF T = {} THEN base ELSE RunSlid(g[T \ {Max(T)}], seq[Max(T)])
    BY <2>2
  <2>7. h[{}] = base
    <3>1. {} \in SUBSET (1 .. m - 1)
      OBVIOUS
    <3> HIDE DEF h
    <3> QED BY <2>5, <2>6, <3>1
  <2>8. ASSUME NEW T \in SUBSET (1 .. m), T # {}
        PROVE  h[T] = RunSlid(h[T \ {Max(T)}], seq[Max(T)])
    <3>1. Max(T) \in T /\ \A x \in T : x <= Max(T)
      <4>1. m \in Nat
        BY <1>2
      <4> QED BY <2>8, <4>1, MaxIs
    <3>2. CASE m \in T
      <4>1. Max(T) = m
        <5>1. m <= Max(T) /\ Max(T) \in T
          BY <3>1, <3>2
        <5>2. Max(T) \in 1 .. m
          BY <5>1
        <5>3. m \in Nat
          BY <1>2
        <5> QED BY <5>1, <5>2, <5>3
      <4>2. T \ {m} \in SUBSET (1 .. m - 1)
        BY <2>3
      <4>3. h[T \ {m}] = g[T \ {m}] /\ h[T] = RunSlid(g[T \ {m}], seq[m])
        BY <2>5, <3>2, <4>2
      <4> HIDE DEF h
      <4> QED BY <4>1, <4>3
    <3>3. CASE m \notin T
      <4>1. T \in SUBSET (1 .. m - 1) /\ T \ {Max(T)} \in SUBSET (1 .. m - 1)
        BY <2>3, <3>3
      <4>2. g[T] = RunSlid(g[T \ {Max(T)}], seq[Max(T)])
        BY <2>6, <2>8, <4>1
      <4>3. h[T] = g[T] /\ h[T \ {Max(T)}] = g[T \ {Max(T)}]
        BY <2>5, <4>1
      <4> HIDE DEF h
      <4> QED BY <4>2, <4>3
    <3> QED BY <3>2, <3>3
  <2>9. h = Step(h, m)
    <3>1. \A T \in SUBSET (1 .. m) :
            h[T] = IF T = {} THEN base ELSE RunSlid(h[T \ {Max(T)}], seq[Max(T)])
      BY <2>7, <2>8
    <3>2. h = [T \in SUBSET (1 .. m) |-> h[T]]
      OBVIOUS
    <3> HIDE DEF h
    <3> QED BY <3>1, <3>2
  <2> QED BY <1>2, <2>9
<1> QED BY <1>3, <1>4

SlidResult(base, seq) == FoldLeft(RunSlid, base, seq)

(* A run of the handlers, one by one.                                      *)
SlidRun(base, seq, n, f) ==
  /\ f[0] = base /\ f[n] = SlidResult(base, seq)
  /\ \A m \in 1 .. n : f[m] = RunSlid(f[m - 1], seq[m])

(* The carousel after all of them is where a run of single handlers ends.  *)
LEMMA SlidRuns ==
  ASSUME NEW base, NEW seq, NEW n \in Nat, DOMAIN seq = 1 .. n
  PROVE  \E f : SlidRun(base, seq, n, f)
<1> DEFINE Step(h) == SlidSteps(h, base, seq, n)
           it == CHOOSE h : h = Step(h)
<1>1. \E h : h = Step(h)
  BY SlidStepsExist
<1>2. it = Step(it)
  <2> HIDE DEF Step
  <2> QED BY <1>1
<1>3. SlidResult(base, seq) = it[1 .. n]
  BY DEF SlidResult, FoldLeft, MapThenFoldSet, SlidSteps
<1> HIDE DEF it
<1> USE DEF SlidSteps
<1> DEFINE f == [m \in 0 .. n |-> it[1 .. m]]
<1>4. f[0] = base
  <2>1. 1 .. 0 = {} /\ {} \in SUBSET (1 .. n) /\ 0 \in 0 .. n
    OBVIOUS
  <2>2. it[{}] = base
    BY <1>2, <2>1
  <2> QED BY <2>1, <2>2
<1>5. f[n] = SlidResult(base, seq)
  BY <1>3
<1>6. ASSUME NEW m \in 1 .. n
      PROVE  f[m] = RunSlid(f[m - 1], seq[m])
  <2>1. /\ 1 .. m \in SUBSET (1 .. n) /\ 1 .. m # {}
        /\ m \in 0 .. n /\ m - 1 \in 0 .. n
    <3>1. 1 \in 1 .. m /\ m \in 0 .. n /\ m - 1 \in 0 .. n
      OBVIOUS
    <3>2. \A x \in 1 .. m : x \in 1 .. n
      OBVIOUS
    <3> QED BY <3>1, <3>2
  <2>2. Max(1 .. m) = m
    <3>1. Max(1 .. m) \in 1 .. m /\ \A x \in 1 .. m : x <= Max(1 .. m)
      BY <2>1, MaxIs
    <3>2. m \in 1 .. m
      OBVIOUS
    <3>3. m <= Max(1 .. m)
      BY <3>1, <3>2
    <3> QED BY <3>1, <3>3
  <2>3. (1 .. m) \ {m} = 1 .. (m - 1)
    OBVIOUS
  <2>4. it[1 .. m] = RunSlid(it[(1 .. m) \ {Max(1 .. m)}], seq[Max(1 .. m)])
    BY <1>2, <2>1
  <2> QED BY <2>1, <2>2, <2>3, <2>4
<1>7. SlidRun(base, seq, n, f)
  BY <1>4, <1>5, <1>6 DEF SlidRun
<1> QED BY <1>7

(* What holds before the first of n steps and of each step holds after all. *)
LEMMA Climb ==
  ASSUME NEW n \in Nat, NEW U, 0 \in U, \A m \in 1 .. n : m - 1 \in U => m \in U
  PROVE  n \in U
<1> DEFINE V == {m \in 0 .. n : m \notin U}
<1> SUFFICES V = {}
  OBVIOUS
<1> SUFFICES ASSUME V # {}
             PROVE  FALSE
  OBVIOUS
<1>1. PICK m \in V : \A k \in V : m <= k
  <2>1. V \in SUBSET Nat
    OBVIOUS
  <2> HIDE DEF V
  <2> QED BY <2>1, Least
<1>2. m \in 1 .. n /\ m - 1 \in 0 .. n
  OBVIOUS
<1>3. m - 1 \notin V
  <2>1. ~ (m <= m - 1)
    BY <1>2
  <2> HIDE DEF V
  <2> QED BY <1>1, <2>1
<1> QED BY <1>2, <1>3

(* To mark the indicator of the active item moves nothing.                 *)
LEMMA MarkDoes ==
  ASSUME NEW c, Timed(c), OneActive(c)
  PROVE  /\ Timed(Mark(c)) /\ Mark(c).marked = c.marked \cup c.active
         /\ Mark(c).active = c.active /\ Mark(c).sliding = c.sliding /\ Mark(c).ends = c.ends
         /\ Mark(c).slids = c.slids /\ Mark(c).timeouts = c.timeouts /\ Mark(c).asked = c.asked
         /\ Mark(c).hasty = c.hasty
         /\ Queued(Mark(c)) = Queued(c) /\ \A q : Shows(c, q) => Shows(Mark(c), q)
<1>1. PICK i \in Items : c.active = {i}
  BY DEF OneActive
<1>2. ActiveIndex(c) = i
  BY <1>1, ActiveIndexIs
<1> DEFINE marks == c.marked \cup {i}
           d == [c EXCEPT !.marked = marks]
<1>3. Mark(c) = d
  BY <1>2 DEF Mark
<1>4. marks \in SUBSET Items /\ c \in CarouselType
  BY DEF Timed, CarouselType
<1>5. marks = c.marked \cup c.active
  BY <1>1
<1> HIDE DEF marks
<1>6. /\ d \in CarouselType /\ d.marked = marks /\ d.active = c.active /\ d.sliding = c.sliding
      /\ d.ends = c.ends /\ d.slids = c.slids /\ d.timeouts = c.timeouts /\ d.asked = c.asked
      /\ d.hasty = c.hasty /\ d.timers = c.timers /\ d.interval = c.interval /\ d.paused = c.paused
  BY <1>4 DEF CarouselType
<1> HIDE DEF d
<1>7. Queued(d) = Queued(c)
  BY <1>6 DEF Queued
<1>8. \A q : Shows(c, q) => Shows(d, q)
  BY <1>6, <1>7 DEF Shows
<1> QED BY <1>3, <1>5, <1>6, <1>7, <1>8 DEF Timed, TimerOK

(* No item is not an item.                                                 *)
LEMMA NoItemApart == NoItem \notin Items
BY ItemsAssumption, FS_CardinalityType DEF NoItem

(* A position is shown in the end unless one waits that came before it.    *)
LEMMA ToDoes ==
  ASSUME NEW c, Timed(c), SlidesOK(c), NEW pos \in Items, hasTransitions \in BOOLEAN
  PROVE  /\ Timed(To(c, pos)) /\ SlidesOK(To(c, pos)) /\ To(c, pos).asked = c.asked
         /\ c.sliding \/ Queued(c) = {} =>
              /\ To(c, pos).sliding \/ Queued(To(c, pos)) = {}
              /\ Shows(To(c, pos), pos)
         /\ ~c.sliding => Queued(To(c, pos)) = Queued(c)
         /\ c.sliding => Queued(To(c, pos)) # {}
         /\ c.hasty /\ (c.sliding \/ c.timeouts > 0) =>
              To(c, pos).hasty /\ (To(c, pos).sliding \/ To(c, pos).timeouts > 0)
<1> DEFINE d == To(c, pos)
<1>1. c \in CarouselType /\ c.timeouts \in Nat
  BY DEF Timed, CarouselType
<1>2. CASE c.sliding
  <2> DEFINE more == Append(c.slids, pos)
  <2>1. d = [c EXCEPT !.slids = more]
    BY <1>2 DEF To
  <2>2. /\ pos \in SlidPositions /\ pos # NoItem /\ c.slids \in Seq(SlidPositions)
    BY <1>1, NoItemApart DEF CarouselType, SlidPositions
  <2>3. /\ more \in Seq(SlidPositions) /\ Len(more) = Len(c.slids) + 1 /\ Len(c.slids) \in Nat
        /\ \A i \in 1 .. Len(c.slids) : more[i] = c.slids[i]
        /\ more[Len(c.slids) + 1] = pos
        /\ DOMAIN c.slids = 1 .. Len(c.slids)
    BY <2>2, AppendProperties
  <2> HIDE DEF more
  <2>4. DOMAIN more = 1 .. Len(c.slids) + 1 /\ more # << >> /\ Len(c.slids) + 1 \in DOMAIN more
    BY <2>3
  <2>5. /\ d \in CarouselType /\ d.slids = more /\ d.marked = c.marked /\ d.active = c.active
        /\ d.sliding = c.sliding /\ d.ends = c.ends /\ d.timeouts = c.timeouts /\ d.asked = c.asked
        /\ d.hasty = c.hasty /\ d.timers = c.timers /\ d.interval = c.interval /\ d.paused = c.paused
    BY <1>1, <2>1, <2>3 DEF CarouselType
  <2> HIDE DEF d
  <2>6. Timed(d) /\ OneActive(d) /\ EndsMatch(d)
    BY <2>5 DEF Timed, TimerOK, SlidesOK, OneActive, EndsMatch
  <2>7. SlidsMatch(d)
    <3>1. ASSUME NEW i \in DOMAIN more, i > 1, more[i] = NoItem
          PROVE  i \in DOMAIN c.slids /\ c.slids[i] = NoItem
      BY <2>2, <2>3, <2>4, <3>1
    <3>2. SlidsMatch(c)
      BY DEF SlidesOK
    <3> QED BY <1>2, <2>5, <3>1, <3>2 DEF SlidsMatch
  <2>8. Marks(d)
    <3>1. c.slids # << >> /\ c.slids[1] = NoItem => more[1] = NoItem
      BY <2>3
    <3>2. Marks(c)
      BY DEF SlidesOK
    <3> QED BY <1>2, <2>4, <2>5, <3>1, <3>2 DEF Marks
  <2>9. Shows(d, pos) /\ Queued(d) # {}
    <3>1. Len(c.slids) + 1 \in Queued(d) /\ \A j \in Queued(d) : j <= Len(c.slids) + 1
      BY <2>2, <2>3, <2>4, <2>5 DEF Queued
    <3> QED BY <2>3, <2>5, <3>1 DEF Shows
  <2> QED BY <1>2, <2>5, <2>6, <2>7, <2>8, <2>9 DEF SlidesOK, d
<1>3. CASE ~c.sliding /\ c.active = {pos}
  <2> DEFINE p == Pause(c, FALSE)
  <2>1. c.ends = << >>
    BY <1>3 DEF SlidesOK, EndsMatch
  <2>2. Timed(p) /\ SameSlides(p, c)
    BY <2>1, PauseStill
  <2>3. d = Cycle(p, FALSE)
    BY <1>3 DEF To
  <2> HIDE DEF p
  <2>4. Timed(d) /\ SameSlides(d, p)
    BY <2>2, <2>3, CycleDoes DEF Timed, TimerOK
  <2>5. SameSlides(d, c)
    BY <2>2, <2>4 DEF SameSlides
  <2> HIDE DEF d
  <2>6. SlidesOK(d) /\ Queued(d) = Queued(c)
    BY <2>5, SameSlidesOK
  <2>7. Queued(c) = {} => Shows(d, pos)
    BY <1>3, <2>5, <2>6 DEF Shows, SameSlides
  <2> QED BY <1>3, <2>4, <2>5, <2>6, <2>7 DEF SameSlides, d
<1>4. CASE ~c.sliding /\ c.active # {pos}
  <2>1. d = Slide(c, pos)
    BY <1>4 DEF To
  <2> HIDE DEF d
  <2>2. /\ Timed(d) /\ SlidesOK(d) /\ d.asked = c.asked
        /\ Queued(d) = Queued(c) /\ (Queued(c) = {} => Shows(d, pos))
        /\ (c.timeouts > 0 => d.hasty /\ d.timeouts > 0)
    BY <1>4, <2>1, SlideDoes
  <2> QED BY <1>4, <2>2 DEF d
<1> QED BY <1>2, <1>3, <1>4

(* The carousel is steady, and will show what was asked for last.          *)
AskedOK(c) == c.asked # NoItem => Shows(c, c.asked)

CarouselInv ==
  /\ hasTransitions \in BOOLEAN
  /\ Timed(carousel) /\ SlidesOK(carousel) /\ AskedOK(carousel)

(* A second mark for the indicator waits only once slides came in haste.   *)
LateMark(c) == \E i \in DOMAIN c.slids : i > 1 /\ c.slids[i] = NoItem

(* A handler that marks the indicator, behind another, waits only once     *)
(* slides came in haste.                                                   *)
LEMMA LateIsHasty ==
  ASSUME NEW c, Timed(c), SlidesOK(c), LateMark(c)
  PROVE  c.hasty /\ (c.timeouts > 1 \/ (c.sliding /\ c.timeouts > 0))
<1>1. c.timeouts > 1 \/ (c.sliding /\ c.timeouts > 0)
  BY DEF LateMark, SlidesOK, SlidsMatch
<1>2. c.timeouts \in Nat
  BY DEF Timed, CarouselType
<1>3. c.hasty
  BY <1>1, <1>2 DEF SlidesOK, Marks
<1> QED BY <1>1, <1>3

(* slid is triggered: every handler that waits runs, in order, and the     *)
(* carousel is as it should be after each.                                 *)
LEMMA SlidKeeps ==
  ASSUME CarouselInv, Slid
  PROVE  Timed(carousel') /\ SlidesOK(carousel') /\ AskedOK(carousel')
<1> DEFINE c == carousel
           n == Len(c.slids)
           wanted == c.asked
           timeouts == c.timeouts - 1
           triggered == [c EXCEPT !.timeouts = timeouts, !.slids = << >>]
<1>1. /\ Timed(c) /\ SlidesOK(c) /\ AskedOK(c) /\ c.timeouts > 0 /\ c \in CarouselType
      /\ carousel' = SlidResult(triggered, c.slids) /\ hasTransitions \in BOOLEAN
  BY DEF CarouselInv, Slid, Timed, SlidResult
<1> HIDE DEF c
<1>2. /\ n \in Nat /\ DOMAIN c.slids = 1 .. n /\ (c.slids = << >> <=> n = 0)
      /\ \A m \in 1 .. n : c.slids[m] # NoItem => c.slids[m] \in Items
  <2>1. c.slids \in Seq(SlidPositions)
    BY <1>1 DEF CarouselType
  <2>2. \A m \in 1 .. n : c.slids[m] \in SlidPositions
    BY <2>1, ElementOfSeq
  <2> QED BY <2>1, <2>2 DEF SlidPositions
<1>3. timeouts \in Nat /\ timeouts = c.timeouts - 1 /\ c.timeouts \in Nat
  BY <1>1 DEF CarouselType
<1> HIDE DEF timeouts
<1>4. /\ triggered \in CarouselType
      /\ triggered.slids = << >> /\ triggered.timeouts = timeouts /\ triggered.marked = c.marked
      /\ triggered.active = c.active /\ triggered.sliding = c.sliding /\ triggered.ends = c.ends
      /\ triggered.asked = c.asked /\ triggered.hasty = c.hasty /\ triggered.timers = c.timers
      /\ triggered.interval = c.interval /\ triggered.paused = c.paused
  <2>1. << >> \in Seq(SlidPositions)
    OBVIOUS
  <2> QED BY <1>1, <1>3, <2>1 DEF CarouselType
<1> HIDE DEF triggered
<1>5. Timed(triggered) /\ OneActive(triggered) /\ EndsMatch(triggered)
  BY <1>1, <1>4 DEF Timed, TimerOK, SlidesOK, OneActive, EndsMatch
<1>6. SlidsMatch(triggered) /\ Queued(triggered) = {}
  <2>1. DOMAIN triggered.slids = {}
    BY <1>4
  <2> QED BY <1>1, <1>3, <1>4, <2>1 DEF SlidesOK, SlidsMatch, Queued
<1>7. c.hasty => SlidesOK(triggered)
  BY <1>4, <1>5, <1>6 DEF SlidesOK, Marks
<1>8. ~c.hasty => n > 0 /\ c.slids[1] = NoItem /\ c.timeouts = 1 /\ ~c.sliding /\ c.marked = {}
  BY <1>1, <1>2, <1>3 DEF SlidesOK, Marks
<1>9. LateMark(c) => c.hasty /\ (c.sliding \/ timeouts > 0)
  BY <1>1, <1>3, LateIsHasty
<1>10. PICK f : /\ f[0] = triggered /\ f[n] = carousel'
                /\ \A m \in 1 .. n : f[m] = RunSlid(f[m - 1], c.slids[m])
  <2> DEFINE seq == c.slids
  <2>1. n \in Nat /\ DOMAIN seq = 1 .. n
    BY <1>2
  <2> HIDE DEF n, seq
  <2>2. \E f : SlidRun(triggered, seq, n, f)
    BY <2>1, SlidRuns
  <2>3. PICK f : SlidRun(triggered, seq, n, f)
    BY <2>2
  <2> WITNESS f
  <2> QED BY <1>1, <2>3 DEF seq, SlidRun
\* The position asked for last is reached where it stands, and kept.
<1> DEFINE Latest(m) == \A i \in Queued(c) : i <= m
           Fine(m) ==
             LET d == f[m]
             IN /\ Timed(d) /\ OneActive(d) /\ d.asked = wanted
                /\ d.sliding \/ Queued(d) = {}
                /\ m = 0 => d = triggered
                /\ m > 0 \/ LateMark(c) => SlidesOK(d)
                /\ LateMark(c) => d.hasty /\ (d.sliding \/ d.timeouts > 0)
                /\ wanted # NoItem /\ Latest(m) => Shows(d, wanted)
           U == {m \in 0 .. n : Fine(m)}
<1>11. 0 \in U
  <2>1. wanted # NoItem /\ Latest(0) => Shows(triggered, wanted)
    <3>1. Latest(0) => Queued(c) = {}
      BY <1>2 DEF Queued
    <3>2. wanted # NoItem => Shows(c, wanted)
      BY <1>1 DEF AskedOK
    <3>3. Queued(c) = {} /\ Shows(c, wanted) => Shows(triggered, wanted)
      BY <1>4, <1>6 DEF Shows
    <3> QED BY <3>1, <3>2, <3>3
  <2>2. Fine(0)
    BY <1>4, <1>5, <1>6, <1>7, <1>9, <1>10, <2>1
  <2> QED BY <1>2, <2>2
<1>12. ASSUME NEW m \in 1 .. n, m - 1 \in U
       PROVE  m \in U
  <2> DEFINE d == f[m - 1]
             e == f[m]
             pos == c.slids[m]
  <2>1. Fine(m - 1) /\ e = RunSlid(d, pos) /\ m \in 0 .. n /\ m > 0 /\ m - 1 \in Nat
    BY <1>2, <1>10, <1>12
  <2>2. /\ Timed(d) /\ OneActive(d) /\ d.asked = wanted
        /\ d.sliding \/ Queued(d) = {}
        /\ m = 1 => d = triggered
        /\ m > 1 \/ LateMark(c) => SlidesOK(d)
        /\ LateMark(c) => d.hasty /\ (d.sliding \/ d.timeouts > 0)
        /\ wanted # NoItem /\ Latest(m - 1) => Shows(d, wanted)
    BY <2>1
  <2> HIDE DEF d, e, pos
  <2>3. CASE pos = NoItem
    <3>1. e = Mark(d)
      BY <2>1, <2>3 DEF RunSlid
    <3>2. /\ Timed(e) /\ e.marked = d.marked \cup d.active
          /\ e.active = d.active /\ e.sliding = d.sliding /\ e.ends = d.ends
          /\ e.slids = d.slids /\ e.timeouts = d.timeouts /\ e.asked = d.asked
          /\ e.hasty = d.hasty
          /\ Queued(e) = Queued(d) /\ \A q : Shows(d, q) => Shows(e, q)
      BY <2>2, <3>1, MarkDoes
    <3>3. OneActive(e)
      BY <2>2, <3>2 DEF OneActive
    <3>4. m > 1 => LateMark(c)
      BY <1>2, <2>3 DEF LateMark, pos
    <3>5. d.hasty /\ SlidesOK(d) => SlidesOK(e)
      BY <3>2, <3>3 DEF SlidesOK, EndsMatch, SlidsMatch, Marks
    <3>6. SlidesOK(e)
      <4>1. CASE m > 1 \/ c.hasty
        <5>1. d.hasty /\ SlidesOK(d)
          BY <1>4, <1>7, <2>1, <2>2, <3>4, <4>1
        <5> QED BY <3>5, <5>1
      <4>2. CASE m = 1 /\ ~c.hasty
        <5>1. d = triggered /\ timeouts = 0 /\ ~d.sliding /\ d.marked = {} /\ d.slids = << >>
          BY <1>3, <1>4, <1>8, <2>2, <4>2
        <5>2. EndsMatch(d) /\ SlidsMatch(d) /\ d.timeouts = 0
          BY <1>4, <1>5, <1>6, <5>1
        <5>3. EndsMatch(e) /\ SlidsMatch(e)
          BY <3>2, <5>2 DEF EndsMatch, SlidsMatch
        <5>4. Marks(e)
          BY <3>2, <5>1, <5>2 DEF Marks
        <5> QED BY <3>3, <5>3, <5>4 DEF SlidesOK
      <4> QED BY <2>1, <4>1, <4>2
    <3>7. Latest(m) => Latest(m - 1)
      <4>1. m \notin Queued(c) /\ \A i \in Queued(c) : i \in Nat
        BY <1>2, <2>3 DEF Queued, pos
      <4> QED BY <4>1, <2>1
    <3>8. Fine(m)
      BY <2>1, <2>2, <3>2, <3>3, <3>6, <3>7 DEF e
    <3> QED BY <2>1, <3>8
  <2>4. CASE pos # NoItem
    <3>1. e = To(d, pos) /\ pos \in Items
      BY <1>2, <2>1, <2>4 DEF RunSlid, pos
    <3>2. SlidesOK(d)
      <4>1. CASE m > 1
        BY <2>2, <4>1
      <4>2. CASE m = 1
        BY <1>7, <1>8, <2>2, <2>4, <4>2 DEF pos
      <4> QED BY <2>1, <4>1, <4>2
    <3>3. /\ Timed(e) /\ SlidesOK(e) /\ e.asked = d.asked
          /\ e.sliding \/ Queued(e) = {}
          /\ Shows(e, pos)
          /\ d.hasty /\ (d.sliding \/ d.timeouts > 0) => e.hasty /\ (e.sliding \/ e.timeouts > 0)
      BY <1>1, <2>2, <3>1, <3>2, ToDoes
    <3>4. wanted # NoItem /\ Latest(m) => pos = wanted
      <4>1. m \in Queued(c)
        BY <1>2, <2>4 DEF Queued, pos
      <4>2. wanted # NoItem => \E i \in Queued(c) : c.slids[i] = wanted /\ \A j \in Queued(c) : j <= i
        BY <1>1, <4>1 DEF AskedOK, Shows
      <4>3. \A i \in Queued(c) : i \in Nat
        BY <1>2 DEF Queued
      <4>4. ASSUME NEW i \in Queued(c), \A j \in Queued(c) : j <= i, Latest(m)
            PROVE  i = m
        <5>1. m <= i /\ i <= m
          BY <4>1, <4>4
        <5> QED BY <4>3, <5>1
      <4> HIDE DEF wanted
      <4> QED BY <4>2, <4>4 DEF pos
    <3>5. OneActive(e)
      BY <3>3 DEF SlidesOK
    <3>6. Fine(m)
      BY <2>1, <2>2, <3>3, <3>4, <3>5 DEF e
    <3> QED BY <2>1, <3>6
  <2> QED BY <2>3, <2>4
<1>13. n \in U
  <2> HIDE DEF U
  <2> QED BY <1>2, <1>11, <1>12, Climb
<1>14. Fine(n) /\ f[n] = carousel'
  BY <1>10, <1>13
<1>15. Latest(n)
  BY <1>2 DEF Queued
<1>16. SlidesOK(carousel')
  BY <1>2, <1>7, <1>8, <1>14
<1> QED BY <1>14, <1>15, <1>16 DEF AskedOK

(* The next and the previous item are items.                               *)
LEMMA NeighbourIsItem ==
  ASSUME NEW c, OneActive(c), NEW type
  PROVE  Neighbour(c, type) \in Items
<1>1. PICK i \in Items : c.active = {i}
  BY DEF OneActive
<1>2. (CHOOSE j \in c.active : TRUE) = i
  BY <1>1
<1>3. Number \in Nat \ {0, 1} /\ Items = 0 .. Number - 1
  BY ItemsAssumption, FS_CardinalityType DEF Number
<1> HIDE DEF Number
<1>4. \A k \in Nat : k % Number \in Items
  BY <1>3
<1>5. i + 1 \in Nat /\ i + Number - 1 \in Nat
  BY <1>3
<1> QED BY <1>2, <1>4, <1>5 DEF Neighbour

(* To slide to a neighbour keeps what is going to be shown, if something   *)
(* is.                                                                     *)
LEMMA MoveDoes ==
  ASSUME NEW c, Timed(c), SlidesOK(c), NEW type, hasTransitions \in BOOLEAN
  PROVE  /\ Timed(Move(c, type)) /\ SlidesOK(Move(c, type)) /\ Move(c, type).asked = c.asked
         /\ c.sliding \/ Queued(c) # {} => \A q : Shows(c, q) => Shows(Move(c, type), q)
<1>1. CASE c.sliding
  BY <1>1 DEF Move
<1>2. CASE ~c.sliding
  <2>1. Neighbour(c, type) \in Items
    BY NeighbourIsItem DEF SlidesOK
  <2>2. Move(c, type) = Slide(c, Neighbour(c, type))
    BY <1>2 DEF Move
  <2> QED BY <1>2, <2>1, <2>2, SlideDoes
<1> QED BY <1>1, <1>2

(* The history variable is no part of what a carousel does.                *)
LEMMA AskedAside ==
  ASSUME NEW c, Timed(c), SlidesOK(c), NEW wanted \in SlidPositions
  PROVE  LET d == [c EXCEPT !.asked = wanted]
         IN /\ Timed(d) /\ SlidesOK(d) /\ d.asked = wanted
            /\ Queued(d) = Queued(c) /\ \A q : Shows(c, q) => Shows(d, q)
<1> DEFINE d == [c EXCEPT !.asked = wanted]
<1>1. c \in CarouselType
  BY DEF Timed
<1>2. /\ d \in CarouselType /\ d.slids = c.slids /\ d.marked = c.marked /\ d.active = c.active
      /\ d.sliding = c.sliding /\ d.ends = c.ends /\ d.timeouts = c.timeouts /\ d.asked = wanted
      /\ d.hasty = c.hasty /\ d.timers = c.timers /\ d.interval = c.interval /\ d.paused = c.paused
  BY <1>1 DEF CarouselType
<1> HIDE DEF d
<1>3. Timed(d) /\ SlidesOK(d)
  BY <1>2 DEF Timed, TimerOK, SlidesOK, OneActive, EndsMatch, SlidsMatch, Marks
<1>4. Queued(d) = Queued(c)
  BY <1>2 DEF Queued
<1>5. \A q : Shows(c, q) => Shows(d, q)
  BY <1>2, <1>4 DEF Shows
<1> QED BY <1>2, <1>3, <1>4, <1>5 DEF d

(* So a call or a click or the timer that slides to it keeps the carousel  *)
(* as it should be.                                                        *)
LEMMA MovedKeeps ==
  ASSUME CarouselInv, NEW type
  PROVE  Timed(Moved(type)) /\ SlidesOK(Moved(type)) /\ AskedOK(Moved(type))
<1> DEFINE c == carousel
           d == Move(c, type)
           keep == c.sliding \/ Queued(c) # {}
           wanted == IF keep THEN d.asked ELSE NoItem
           e == [d EXCEPT !.asked = wanted]
<1>1. Timed(c) /\ SlidesOK(c) /\ AskedOK(c) /\ hasTransitions \in BOOLEAN
  BY DEF CarouselInv
<1>2. Moved(type) = e
  BY DEF Moved
<1> HIDE DEF c
<1>3. /\ Timed(d) /\ SlidesOK(d) /\ d.asked = c.asked
      /\ keep => \A q : Shows(c, q) => Shows(d, q)
  BY <1>1, MoveDoes
<1> HIDE DEF d, keep
<1>4. wanted \in SlidPositions
  <2>1. d.asked \in SlidPositions
    BY <1>3 DEF Timed, CarouselType
  <2> QED BY <2>1 DEF SlidPositions
<1> HIDE DEF wanted
<1>5. /\ Timed(e) /\ SlidesOK(e) /\ e.asked = wanted
      /\ \A q : Shows(d, q) => Shows(e, q)
  BY <1>3, <1>4, AskedAside
<1> HIDE DEF e
<1>6. AskedOK(e)
  BY <1>1, <1>3, <1>5 DEF AskedOK, wanted
<1> QED BY <1>2, <1>5, <1>6

(* Of the positions that wait the last one is going to be shown.           *)
LEMMA QueuedMax ==
  ASSUME NEW c, Timed(c), Queued(c) # {}
  PROVE  /\ c.slids[Max(Queued(c))] \in Items
         /\ Shows(c, c.slids[Max(Queued(c))])
<1>1. /\ Len(c.slids) \in Nat /\ DOMAIN c.slids = 1 .. Len(c.slids)
      /\ \A m \in 1 .. Len(c.slids) : c.slids[m] \in SlidPositions
  <2>1. c.slids \in Seq(SlidPositions)
    BY DEF Timed, CarouselType
  <2> QED BY <2>1, ElementOfSeq
<1>2. Queued(c) \in SUBSET (1 .. Len(c.slids))
  BY <1>1 DEF Queued
<1> DEFINE m == Max(Queued(c))
<1>3. m \in Queued(c) /\ \A j \in Queued(c) : j <= m
  BY <1>1, <1>2, MaxIs
<1> HIDE DEF m
<1>4. c.slids[m] \in Items
  BY <1>1, <1>3 DEF Queued, SlidPositions
<1>5. Shows(c, c.slids[m])
  BY <1>3 DEF Shows
<1> QED BY <1>4, <1>5 DEF m

(* A position that is asked for and going to be shown may be taken as      *)
(* asked for.                                                              *)
LEMMA AskedKeeps ==
  ASSUME NEW c, Timed(c), SlidesOK(c), NEW pos \in Items, Queued(c) = {} => Shows(c, pos)
  PROVE  Timed(Asked(c, pos)) /\ SlidesOK(Asked(c, pos)) /\ AskedOK(Asked(c, pos))
<1> DEFINE wanted == IF Queued(c) = {} THEN pos ELSE c.slids[Max(Queued(c))]
           d == [c EXCEPT !.asked = wanted]
<1>1. Asked(c, pos) = d
  BY DEF Asked
<1>2. wanted \in SlidPositions /\ Shows(c, wanted)
  BY QueuedMax DEF SlidPositions
<1> HIDE DEF wanted
<1>3. /\ Timed(d) /\ SlidesOK(d) /\ d.asked = wanted /\ \A q : Shows(c, q) => Shows(d, q)
  BY <1>2, AskedAside
<1> HIDE DEF d
<1> QED BY <1>1, <1>2, <1>3 DEF AskedOK

(* A carousel starts at rest on an item, with no timer.                    *)
LEMMA CarouselStarts ==
  ASSUME CarouselInit
  PROVE  CarouselInv
<1>1. /\ Items = 0 .. Cardinality(Items) - 1 /\ Cardinality(Items) \in Nat
      /\ Cardinality(Items) > 1
  BY ItemsAssumption, FS_CardinalityType
<1>2. 0 \in Items
  BY <1>1
<1> DEFINE c == Fresh
<1>3. << >> \in Seq(Slides) /\ << >> \in Seq(SlidPositions) /\ DOMAIN << >> = {}
  OBVIOUS
<1>4. c \in CarouselType
  BY <1>2, <1>3 DEF Fresh, CarouselType, SlidPositions
<1>5. /\ c.active = {0} /\ c.marked = {0} /\ c.sliding = FALSE /\ c.ends = << >>
      /\ c.slids = << >> /\ c.timeouts = 0 /\ c.interval = FALSE /\ c.timers = 0
      /\ c.paused = FALSE /\ c.asked = NoItem /\ c.hasty = FALSE
  BY DEF Fresh
<1>6. carousel = Cycle(Pause(c, FALSE), FALSE) /\ hasTransitions \in BOOLEAN
  BY DEF CarouselInit
<1> HIDE DEF c
<1>7. Timed(c)
  BY <1>4, <1>5 DEF Timed, TimerOK
<1>8. OneActive(c) /\ EndsMatch(c) /\ Marks(c)
  BY <1>2, <1>5 DEF OneActive, EndsMatch, Marks
<1>9. SlidsMatch(c)
  <2>1. DOMAIN c.slids = {}
    BY <1>3, <1>5
  <2> QED BY <1>5, <2>1 DEF SlidsMatch
<1>10. Timed(Pause(c, FALSE)) /\ SameSlides(Pause(c, FALSE), c)
  BY <1>5, <1>7, PauseStill
<1> DEFINE d == Pause(c, FALSE)
<1> HIDE DEF d
<1>11. Timed(Cycle(d, FALSE)) /\ SameSlides(Cycle(d, FALSE), d)
  BY <1>10, CycleDoes DEF d, Timed, TimerOK
<1>12. SlidesOK(d) /\ d.asked = NoItem
  BY <1>5, <1>8, <1>9, <1>10, SameSlidesOK DEF d, SlidesOK, SameSlides
<1>13. SlidesOK(Cycle(d, FALSE)) /\ Cycle(d, FALSE).asked = NoItem
  BY <1>11, <1>12, SameSlidesOK DEF SameSlides
<1> QED BY <1>6, <1>11, <1>13 DEF d, CarouselInv, AskedOK

CarouselKept(d) == Timed(d) /\ SlidesOK(d) /\ AskedOK(d)

(* What keeps what is going to be shown keeps what was asked for.          *)
LEMMA SameAskedOK ==
  ASSUME NEW c, NEW d, AskedOK(c), d.asked = c.asked, \A q : Shows(c, q) => Shows(d, q)
  PROVE  AskedOK(d)
BY DEF AskedOK

(* pause() keeps all of it.                                                *)
LEMMA PauseKeeps ==
  ASSUME NEW c, CarouselKept(c), NEW byEvent \in BOOLEAN
  PROVE  CarouselKept(Pause(c, byEvent))
<1> DEFINE d == Pause(c, byEvent)
<1>1. Timed(d) /\ SlidesOK(d) /\ d.asked = c.asked /\ \A q : Shows(c, q) => Shows(d, q)
  BY PauseDoes DEF CarouselKept
<1> HIDE DEF d
<1>2. AskedOK(d)
  BY <1>1, SameAskedOK DEF CarouselKept
<1> QED BY <1>1, <1>2 DEF CarouselKept, d

(* And so does cycle().                                                    *)
LEMMA CycleKeeps ==
  ASSUME NEW c, CarouselKept(c), NEW byEvent \in BOOLEAN
  PROVE  CarouselKept(Cycle(c, byEvent))
<1> DEFINE d == Cycle(c, byEvent)
<1>1. Timed(d) /\ SameSlides(d, c)
  BY CycleDoes DEF CarouselKept, Timed, TimerOK
<1> HIDE DEF d
<1>2. SlidesOK(d) /\ d.asked = c.asked /\ \A q : Shows(c, q) => Shows(d, q)
  BY <1>1, SameSlidesOK DEF CarouselKept, SameSlides
<1>3. AskedOK(d)
  BY <1>2, SameAskedOK DEF CarouselKept
<1> QED BY <1>1, <1>2, <1>3 DEF CarouselKept, d

(* to(pos) by a script: at once, or once the slide that runs has ended.    *)
LEMMA CallToKeeps ==
  ASSUME CarouselInv, CallTo
  PROVE  CarouselKept(carousel')
<1>1. PICK pos \in Items : carousel' = Asked(To(carousel, pos), pos)
  BY DEF CallTo
<1> DEFINE d == To(carousel, pos)
<1>2. Timed(d) /\ SlidesOK(d) /\ (Queued(d) = {} => Shows(d, pos))
  BY ToDoes DEF CarouselInv
<1> HIDE DEF d
<1>3. CarouselKept(Asked(d, pos))
  BY <1>2, AskedKeeps DEF CarouselKept
<1> QED BY <1>1, <1>3 DEF d

(* A click on an indicator: to(pos), and pause() when it slides.           *)
LEMMA IndicatorKeeps ==
  ASSUME CarouselInv, Indicator
  PROVE  CarouselKept(carousel')
<1>1. PICK pos \in Items :
        carousel' = Asked(Cycle(To(Pause(Cycle(Pause(carousel, FALSE), FALSE), FALSE), pos), FALSE), pos)
  BY DEF Indicator
<1>2. CarouselKept(carousel) /\ hasTransitions \in BOOLEAN
  BY DEF CarouselInv, CarouselKept
<1>3. CarouselKept(Cycle(Pause(carousel, FALSE), FALSE))
  BY <1>2, PauseKeeps, CycleKeeps
<1>4. CarouselKept(Pause(Cycle(Pause(carousel, FALSE), FALSE), FALSE))
  BY <1>3, PauseKeeps
<1> DEFINE c == Pause(Cycle(Pause(carousel, FALSE), FALSE), FALSE)
           d == To(c, pos)
           e == Cycle(d, FALSE)
<1> HIDE DEF c
<1>5. Timed(d) /\ SlidesOK(d) /\ (Queued(d) = {} => Shows(d, pos))
  BY <1>2, <1>4, ToDoes DEF CarouselKept, c
<1> HIDE DEF d
<1>6. Timed(e) /\ SameSlides(e, d)
  BY <1>5, CycleDoes DEF Timed, TimerOK
<1> HIDE DEF e
<1>7. SlidesOK(e) /\ (Queued(e) = {} => Shows(e, pos))
  BY <1>5, <1>6, SameSlidesOK
<1>8. CarouselKept(Asked(e, pos))
  BY <1>6, <1>7, AskedKeeps DEF CarouselKept
<1> QED BY <1>1, <1>8 DEF c, d, e

(* Every step keeps the carousel as it should be.                          *)
LEMMA CarouselKeeps ==
  ASSUME CarouselInv, CarouselNext \/ UNCHANGED carouselVars
  PROVE  CarouselInv'
<1>1. CarouselKept(carousel) /\ hasTransitions \in BOOLEAN
  BY DEF CarouselInv, CarouselKept
<1>2. CarouselKept(carousel') /\ hasTransitions' = hasTransitions
  <2>1. hasTransitions' = hasTransitions
    BY DEF CarouselNext, carouselVars
  <2>2. ASSUME Tick \/ Arrow
       PROVE  CarouselKept(carousel')
    BY <2>2, MovedKeeps DEF Tick, Arrow, CarouselKept
  <2>3. ASSUME CallTo
       PROVE  CarouselKept(carousel')
    BY <2>3, CallToKeeps
  <2>4. ASSUME Indicator
       PROVE  CarouselKept(carousel')
    BY <2>4, IndicatorKeeps
  <2>5. ASSUME CallPause \/ MouseEnter
       PROVE  CarouselKept(carousel')
    BY <1>1, <2>5, PauseKeeps DEF CallPause, MouseEnter
  <2>6. ASSUME CallCycle \/ MouseLeave
       PROVE  CarouselKept(carousel')
    BY <1>1, <2>6, CycleKeeps DEF CallCycle, MouseLeave
  <2>7. ASSUME SlideEnd
       PROVE  CarouselKept(carousel')
    <3> DEFINE d == End(carousel)
    <3>1. /\ d \in CarouselType /\ SlidesOK(d) /\ d.timers = carousel.timers
          /\ d.interval = carousel.interval /\ d.paused = carousel.paused
          /\ d.asked = carousel.asked /\ \A q : Shows(carousel, q) => Shows(d, q)
      BY <1>1, <2>7, EndDoes DEF SlideEnd, CarouselKept, Timed
    <3> HIDE DEF d
    <3>2. Timed(d)
      BY <1>1, <3>1 DEF CarouselKept, Timed, TimerOK
    <3>3. AskedOK(d)
      BY <1>1, <3>1, SameAskedOK DEF CarouselKept
    <3> QED BY <2>7, <3>1, <3>2, <3>3 DEF SlideEnd, CarouselKept, d
  <2>8. ASSUME Slid
       PROVE  CarouselKept(carousel')
    BY <2>8, SlidKeeps DEF CarouselKept
  <2>9. ASSUME UNCHANGED carouselVars
       PROVE  CarouselKept(carousel')
    BY <1>1, <2>9 DEF carouselVars
  <2>10. CarouselKept(carousel')
    BY <2>2, <2>3, <2>4, <2>5, <2>6, <2>7, <2>8, <2>9 DEF CarouselNext
  <2> QED BY <2>1, <2>10
<1>3. hasTransitions = hasTransitions'
  BY <1>2
<1>4. SlidesOK(carousel)' /\ Timed(carousel)' /\ AskedOK(carousel)'
  BY <1>2 DEF CarouselKept, SlidesOK, OneActive, EndsMatch, SlidsMatch, Marks, Timed, TimerOK,
              AskedOK, Shows, Queued
<1> QED BY <1>1, <1>3, <1>4 DEF CarouselInv

(* So there is one timer, one active item, and at rest the one asked for   *)
(* last.                                                                   *)
LEMMA CarouselHolds ==
  ASSUME CarouselInv
  PROVE  OneTimer /\ OneItemActive /\ AskedIsShown
<1>1. /\ Timed(carousel) /\ OneActive(carousel) /\ SlidsMatch(carousel) /\ Marks(carousel)
      /\ AskedOK(carousel)
  BY DEF CarouselInv, SlidesOK
<1>2. OneTimer
  BY <1>1 DEF OneTimer, Timed, TimerOK
<1>3. OneItemActive
  <2>1. Cardinality(carousel.active) = 1
    BY <1>1, FS_Singleton DEF OneActive
  <2>2. AtRest /\ ~carousel.hasty => carousel.marked = carousel.active
    BY <1>1 DEF AtRest, Marks
  <2> QED BY <2>1, <2>2 DEF OneItemActive
<1>4. AskedIsShown
  <2>1. AtRest => Queued(carousel) = {}
    BY DEF AtRest, Queued
  <2> QED BY <1>1, <2>1 DEF AskedIsShown, AskedOK, Shows, AtRest
<1> QED BY <1>2, <1>3, <1>4

-----------------------------------------------------------------------------
(* Modal: a dialog that was not shown and hidden in haste is in one of     *)
(* five phases.                                                            *)

(* The handlers of the element that show() and hide() leave.               *)
ShownEnd == [run |-> "shown", clears |-> {}]

HideEnd == [run |-> "hideModal", clears |-> {1}]

Gone == [b \in {} |-> << >>]

Standing(callbacks) == [b \in {1} |-> callbacks]

(* The values that a dialog not shown and hidden in haste keeps to.        *)
DialogEnds == {<< >>, <<ShownEnd>>, <<HideEnd>>, <<ShownEnd, HideEnd>>}

Bodies == {Gone, Standing(<< >>), Standing(<<"display">>), Standing(<<"remove">>)}

DialogType ==
  [isShown : BOOLEAN, display : BOOLEAN, in : BOOLEAN, focusin : BOOLEAN, keyup : BOOLEAN,
   ends : DialogEnds, timeouts : {{}, {1}}, backdrop : {NoBackdrop, 1}, body : Bodies]

\* The class in and the focus handler come and go together.
IsDialog(m, isShown, display, in, ends, timeouts, backdrop, body) ==
  /\ m \in DialogType
  /\ m.isShown = isShown /\ m.display = display /\ m.in = in /\ m.focusin = in
  /\ m.ends = ends /\ m.timeouts = timeouts /\ m.backdrop = backdrop /\ m.body = body

(* The backdrop of a dialog that is shown.                                 *)
BackdropAsked == IF options.backdrop = "no" THEN NoBackdrop ELSE 1

BodyAsked == IF options.backdrop = "no" THEN Gone ELSE Standing(<< >>)

(* The five phases: hidden, showing, shown, hiding, and its backdrop       *)
(* fading out.                                                             *)
DialogHidden(m) == IsDialog(m, FALSE, FALSE, FALSE, << >>, {}, NoBackdrop, Gone)

\* The backdrop fades in.
DialogShowing(m) ==
  /\ options.animate = TRUE /\ options.backdrop # "no"
  /\ IsDialog(m, TRUE, FALSE, FALSE, << >>, {}, 1, Standing(<<"display">>))

DialogShown(m) ==
  \/ IsDialog(m, TRUE, TRUE, TRUE, << >>, {}, BackdropAsked, BodyAsked)
  \/ options.animate = TRUE /\ IsDialog(m, TRUE, TRUE, TRUE, <<ShownEnd>>, {}, BackdropAsked, BodyAsked)

\* The dialog fades out.
DialogHiding(m) ==
  /\ options.animate = TRUE
  /\ \/ IsDialog(m, FALSE, TRUE, FALSE, <<HideEnd>>, {1}, BackdropAsked, BodyAsked)
     \/ IsDialog(m, FALSE, TRUE, FALSE, <<ShownEnd, HideEnd>>, {1}, BackdropAsked, BodyAsked)

\* The backdrop fades out.
DialogRemoving(m) ==
  /\ options.animate = TRUE /\ options.backdrop # "no"
  /\ IsDialog(m, FALSE, FALSE, FALSE, << >>, {}, 1, Standing(<<"remove">>))

InPhase(m) ==
  DialogHidden(m) \/ DialogShowing(m) \/ DialogShown(m) \/ DialogHiding(m) \/ DialogRemoving(m)

ModalInv ==
  /\ options \in ModalOptions /\ crossed \in BOOLEAN
  /\ crossed = FALSE => InPhase(modal)

(* The first timeout of a dialog is the first.                             *)
LEMMA FirstUnused == Unused({}) = 1
<1>1. Cardinality({}) = 0
  BY FS_EmptySet
<1>2. 1 .. 0 + 1 = {1}
  OBVIOUS
<1> QED BY <1>1, <1>2 DEF Unused

(* One callback of the backdrop is run once.                               *)
LEMMA CallbackOnce ==
  ASSUME NEW m, NEW name
  PROVE  FoldLeft(Callback, m, <<name>>) = Callback(m, name)
<1> DEFINE ends == <<name>>
           once == Callback(m, name)
           h == [T \in SUBSET {1} |-> IF T = {} THEN m ELSE once]
           Step(it) == [T \in SUBSET {1} |->
                          IF T = {} THEN m ELSE Callback(it[T \ {Max(T)}], ends[Max(T)])]
<1>1. DOMAIN ends = {1} /\ ends[1] = name
  OBVIOUS
<1>2. Max({1}) = 1
  BY DEF Max
<1>3. \A T \in SUBSET {1} : T = {} \/ T = {1}
  OBVIOUS
<1> HIDE DEF once, ends
<1>4. h = Step(h)
  <2>1. {1} \ {1} = {} /\ {} \in SUBSET {1}
    OBVIOUS
  <2>2. h[{1} \ {Max({1})}] = m
    BY <1>2, <2>1
  <2>3. \A T \in SUBSET {1} : h[T] = Step(h)[T]
    BY <1>1, <1>2, <1>3, <2>2 DEF once
  <2> QED BY <2>3
<1> DEFINE it == CHOOSE g : g = Step(g)
<1>5. it = Step(it)
  <2> HIDE DEF Step
  <2> QED BY <1>4
<1>6. FoldLeft(Callback, m, ends) = it[{1}]
  BY <1>1 DEF FoldLeft, MapThenFoldSet
<1> HIDE DEF it
<1>7. it[{}] = m
  BY <1>5
<1>8. it[{1}] = Callback(it[{1} \ {Max({1})}], ends[Max({1})])
  BY <1>5
<1>9. it[{1}] = Callback(it[{}], name)
  BY <1>1, <1>2, <1>8
<1> QED BY <1>6, <1>7, <1>9 DEF once, ends

(* One handler of the element is run once.                                 *)
LEMMA EndedOnce ==
  ASSUME NEW m, NEW end
  PROVE  FoldLeft(ElementEnded, m, <<end>>) = ElementEnded(m, end)
<1> DEFINE ends == <<end>>
           once == ElementEnded(m, end)
           h == [T \in SUBSET {1} |-> IF T = {} THEN m ELSE once]
           Step(it) == [T \in SUBSET {1} |->
                          IF T = {} THEN m ELSE ElementEnded(it[T \ {Max(T)}], ends[Max(T)])]
<1>1. DOMAIN ends = {1} /\ ends[1] = end
  OBVIOUS
<1>2. Max({1}) = 1
  BY DEF Max
<1>3. \A T \in SUBSET {1} : T = {} \/ T = {1}
  OBVIOUS
<1> HIDE DEF once, ends
<1>4. h = Step(h)
  <2>1. {1} \ {1} = {} /\ {} \in SUBSET {1}
    OBVIOUS
  <2>2. h[{1} \ {Max({1})}] = m
    BY <1>2, <2>1
  <2>3. \A T \in SUBSET {1} : h[T] = Step(h)[T]
    BY <1>1, <1>2, <1>3, <2>2 DEF once
  <2> QED BY <2>3
<1> DEFINE it == CHOOSE g : g = Step(g)
<1>5. it = Step(it)
  <2> HIDE DEF Step
  <2> QED BY <1>4
<1>6. FoldLeft(ElementEnded, m, ends) = it[{1}]
  BY <1>1 DEF FoldLeft, MapThenFoldSet
<1> HIDE DEF it
<1>7. it[{}] = m
  BY <1>5
<1>8. it[{1}] = ElementEnded(it[{1} \ {Max({1})}], ends[Max({1})])
  BY <1>5
<1>9. it[{1}] = ElementEnded(it[{}], end)
  BY <1>1, <1>2, <1>8
<1> QED BY <1>6, <1>7, <1>9 DEF once, ends

(* The element's transition ends for all of the handlers that wait.        *)
AllEnded(m, ends) == FoldLeft(ElementEnded, m, ends)

(* Two of them are run one after the other.                                *)
LEMMA EndedTwice ==
  ASSUME NEW m, NEW one, NEW two
  PROVE  AllEnded(m, <<one, two>>) = ElementEnded(ElementEnded(m, one), two)
<1> DEFINE ends == <<one, two>>
           first == ElementEnded(m, one)
           second == ElementEnded(m, two)
           both == ElementEnded(first, two)
           h == [T \in SUBSET {1, 2} |->
                   IF T = {} THEN m ELSE IF T = {1} THEN first ELSE IF T = {2} THEN second ELSE both]
           Step(it) == [T \in SUBSET {1, 2} |->
                          IF T = {} THEN m ELSE ElementEnded(it[T \ {Max(T)}], ends[Max(T)])]
<1>1. DOMAIN ends = {1, 2} /\ ends[1] = one /\ ends[2] = two
  OBVIOUS
<1>2. Max({1}) = 1 /\ Max({2}) = 2 /\ Max({1, 2}) = 2
  BY DEF Max
<1>3. \A T \in SUBSET {1, 2} : T = {} \/ T = {1} \/ T = {2} \/ T = {1, 2}
  OBVIOUS
<1>4. /\ first = ElementEnded(m, one) /\ second = ElementEnded(m, two)
      /\ both = ElementEnded(first, two)
  OBVIOUS
<1> HIDE DEF first, second, both, ends
<1>5. h = Step(h)
  <2>1. /\ {1} \ {1} = {} /\ {2} \ {2} = {} /\ {1, 2} \ {2} = {1} /\ {1} # {2}
        /\ {1, 2} # {} /\ {1, 2} # {1} /\ {1, 2} # {2} /\ {1} # {} /\ {2} # {}
        /\ {} \in SUBSET {1, 2} /\ {1} \in SUBSET {1, 2}
    OBVIOUS
  <2>2. h[{1} \ {Max({1})}] = m /\ h[{2} \ {Max({2})}] = m /\ h[{1, 2} \ {Max({1, 2})}] = first
    BY <1>2, <2>1
  <2>3. \A T \in SUBSET {1, 2} : h[T] = Step(h)[T]
    <3> SUFFICES ASSUME NEW T \in SUBSET {1, 2}
                 PROVE  h[T] = Step(h)[T]
      OBVIOUS
    <3>1. Step(h)[T] = IF T = {} THEN m ELSE ElementEnded(h[T \ {Max(T)}], ends[Max(T)])
      OBVIOUS
    <3>2. h[T] = IF T = {} THEN m ELSE IF T = {1} THEN first ELSE IF T = {2} THEN second ELSE both
      OBVIOUS
    <3> HIDE DEF h, Step
    <3>3. CASE T = {}
      BY <3>1, <3>2, <3>3
    <3>4. CASE T = {1}
      BY <1>1, <1>2, <1>4, <2>1, <2>2, <3>1, <3>2, <3>4
    <3>5. CASE T = {2}
      BY <1>1, <1>2, <1>4, <2>1, <2>2, <3>1, <3>2, <3>5
    <3>6. CASE T = {1, 2}
      BY <1>1, <1>2, <1>4, <2>1, <2>2, <3>1, <3>2, <3>6
    <3> QED BY <1>3, <3>3, <3>4, <3>5, <3>6
  <2> HIDE DEF h
  <2>4. DOMAIN h = SUBSET {1, 2} /\ h = [T \in DOMAIN h |-> h[T]]
    BY DEF h
  <2> QED BY <2>3, <2>4
<1> DEFINE it == CHOOSE g : g = Step(g)
<1>6. it = Step(it)
  <2> HIDE DEF Step
  <2> QED BY <1>5
<1>7. FoldLeft(ElementEnded, m, ends) = it[{1, 2}]
  BY <1>1 DEF FoldLeft, MapThenFoldSet
<1> HIDE DEF it
<1>8. it[{}] = m
  BY <1>6
<1>9. it[{1}] = ElementEnded(it[{1} \ {Max({1})}], ends[Max({1})])
  BY <1>6
<1>10. it[{1, 2}] = ElementEnded(it[{1, 2} \ {Max({1, 2})}], ends[Max({1, 2})])
  BY <1>6
<1>11. {1} \ {1} = {} /\ {1, 2} \ {2} = {1}
  OBVIOUS
<1>12. it[{1}] = first
  BY <1>1, <1>2, <1>4, <1>8, <1>9, <1>11
<1>13. it[{1, 2}] = both
  BY <1>1, <1>2, <1>4, <1>10, <1>11, <1>12
<1> QED BY <1>7, <1>13 DEF AllEnded, both, first, ends

(* The handlers that a dialog asked to show and then to hide can have.     *)
LEMMA Listed ==
  /\ << >> \in DialogEnds /\ <<ShownEnd>> \in DialogEnds /\ <<HideEnd>> \in DialogEnds
  /\ <<ShownEnd, HideEnd>> \in DialogEnds
  /\ Append(<< >>, ShownEnd) = <<ShownEnd>> /\ Append(<< >>, HideEnd) = <<HideEnd>>
  /\ Append(<<ShownEnd>>, HideEnd) = <<ShownEnd, HideEnd>>
<1>1. /\ << >> \in DialogEnds /\ <<ShownEnd>> \in DialogEnds /\ <<HideEnd>> \in DialogEnds
      /\ <<ShownEnd, HideEnd>> \in DialogEnds
  BY DEF DialogEnds
<1>2. ASSUME NEW a, NEW b
      PROVE  Append(<< >>, a) = <<a>> /\ Append(<<a>>, b) = <<a, b>>
  <2>1. /\ << >> \in Seq({a, b}) /\ <<a>> \in Seq({a, b}) /\ <<a, b>> \in Seq({a, b})
        /\ Append(<< >>, a) \in Seq({a, b}) /\ Append(<<a>>, b) \in Seq({a, b})
    OBVIOUS
  <2>2. Len(<<a>>) = 1 /\ Len(<<a, b>>) = 2 /\ Len(<< >>) = 0
    OBVIOUS
  <2>3. /\ Len(Append(<< >>, a)) = 1 /\ Append(<< >>, a)[1] = a
        /\ Len(Append(<<a>>, b)) = 2 /\ Append(<<a>>, b)[1] = a /\ Append(<<a>>, b)[2] = b
    BY <2>1, <2>2, AppendProperties
  <2>4. /\ \A i \in 1 .. 1 : Append(<< >>, a)[i] = <<a>>[i]
        /\ \A i \in 1 .. 2 : Append(<<a>>, b)[i] = <<a, b>>[i]
    BY <2>3
  <2> QED BY <2>1, <2>2, <2>3, <2>4, SeqEqual
<1> QED BY <1>1, <1>2

(* The backdrops that such a page can have: none, or one with a callback   *)
(* or without.                                                             *)
LEMMA Bodied ==
  /\ Gone \in Bodies /\ DOMAIN Gone = {}
  /\ \A callbacks : DOMAIN Standing(callbacks) = {1} /\ Standing(callbacks)[1] = callbacks
  /\ Standing(<< >>) \in Bodies /\ Standing(<<"display">>) \in Bodies
  /\ Standing(<<"remove">>) \in Bodies
  /\ BodyAsked \in Bodies /\ BackdropAsked \in {NoBackdrop, 1}
BY DEF Bodies, Gone, Standing, BodyAsked, BackdropAsked

(* A dialog that is displayed on its backdrop is shown.                    *)
LEMMA DisplayedDoes ==
  ASSUME options.animate \in BOOLEAN,
         NEW m, IsDialog(m, TRUE, FALSE, FALSE, << >>, {}, BackdropAsked, BodyAsked)
  PROVE  DialogShown(Displayed(m))
<1> DEFINE ends == IF options.animate THEN <<ShownEnd>> ELSE << >>
           y == [m EXCEPT !.display = TRUE, !.in = TRUE, !.focusin = TRUE, !.ends = ends]
<1>1. Displayed(m) = y
  BY Listed DEF Displayed, IsDialog, ShownEnd
<1>2. ends \in DialogEnds /\ m \in DialogType
  BY Listed DEF IsDialog
<1> HIDE DEF ends
<1>3. y \in DialogType
  BY <1>2 DEF DialogType
<1>4. /\ y.isShown = m.isShown /\ y.display = TRUE /\ y.in = TRUE /\ y.focusin = TRUE
      /\ y.ends = ends /\ y.timeouts = m.timeouts /\ y.backdrop = m.backdrop /\ y.body = m.body
  BY <1>2 DEF DialogType
<1> HIDE DEF y
<1>5. IsDialog(y, TRUE, TRUE, TRUE, ends, {}, BackdropAsked, BodyAsked)
  BY <1>3, <1>4 DEF IsDialog
<1> QED BY <1>1, <1>5 DEF DialogShown, ends

(* A hidden dialog whose backdrop is removed leaves nothing.               *)
LEMMA RemoveBackdropDoes ==
  ASSUME NEW m, NEW backdrop, NEW body,
         IsDialog(m, FALSE, FALSE, FALSE, << >>, {}, backdrop, body),
         DOMAIN body \ {backdrop} = {}
  PROVE  DialogHidden(RemoveBackdrop(m))
<1> DEFINE y == [m EXCEPT !.body = Gone, !.backdrop = NoBackdrop]
<1>1. RemoveBackdrop(m) = y
  <2>1. [b \in DOMAIN m.body \ {m.backdrop} |-> m.body[b]] = Gone
    BY DEF IsDialog, Gone
  <2>2. RemoveBackdrop(m) =
          [m EXCEPT !.body = [b \in DOMAIN m.body \ {m.backdrop} |-> m.body[b]], !.backdrop = NoBackdrop]
    BY DEF RemoveBackdrop, IsDialog, DialogType
  <2> QED BY <2>1, <2>2
<1>2. m \in DialogType /\ Gone \in Bodies
  BY Bodied DEF IsDialog
<1>3. y \in DialogType
  BY <1>2 DEF DialogType
<1>4. /\ y.isShown = m.isShown /\ y.display = m.display /\ y.in = m.in /\ y.focusin = m.focusin
      /\ y.ends = m.ends /\ y.timeouts = m.timeouts /\ y.backdrop = NoBackdrop /\ y.body = Gone
  BY <1>2 DEF DialogType
<1> HIDE DEF y
<1> QED BY <1>1, <1>3, <1>4 DEF DialogHidden, IsDialog

(* The callback of the one backdrop waits.                                 *)
LEMMA CallbackWaits ==
  ASSUME NEW m, NEW name, m.body = Standing(<<name>>)
  PROVE  name \in Callbacks(m)
<1>1. DOMAIN m.body = {1} /\ m.body[1] = <<name>>
  BY DEF Standing
<1>2. name \in ToSet(m.body[1])
  <2>1. 1 \in DOMAIN <<name>> /\ <<name>>[1] = name
    OBVIOUS
  <2> QED BY <1>1, <2>1 DEF ToSet
<1> QED BY <1>1, <1>2 DEF Callbacks

\* hideModal() on a dialog that was shown.
LEMMA HideModalDoes ==
  ASSUME options.animate \in BOOLEAN,
         NEW m, IsDialog(m, FALSE, TRUE, FALSE, << >>, {}, BackdropAsked, BodyAsked)
  PROVE  DialogHidden(HideModal(m)) \/ DialogRemoving(HideModal(m))
<1> DEFINE y == [m EXCEPT !.display = FALSE]
<1>1. HideModal(m) = Backdrop(y, "remove")
  BY DEF HideModal
<1>2. m \in DialogType
  BY DEF IsDialog
<1>3. y \in DialogType
  BY <1>2 DEF DialogType
<1>4. /\ y.isShown = m.isShown /\ y.display = FALSE /\ y.in = m.in /\ y.focusin = m.focusin
      /\ y.ends = m.ends /\ y.timeouts = m.timeouts /\ y.backdrop = m.backdrop /\ y.body = m.body
  BY <1>2 DEF DialogType
<1> HIDE DEF y
<1>5. IsDialog(y, FALSE, FALSE, FALSE, << >>, {}, BackdropAsked, BodyAsked)
  BY <1>3, <1>4 DEF IsDialog
<1>6. CASE options.animate = FALSE \/ options.backdrop = "no"
  <2>1. Backdrop(y, "remove") = RemoveBackdrop(y)
    BY <1>5, <1>6 DEF Backdrop, Callback, IsDialog, BackdropAsked
  <2>2. DOMAIN BodyAsked \ {BackdropAsked} = {}
    BY Bodied DEF BodyAsked, BackdropAsked
  <2> QED BY <1>1, <1>5, <2>1, <2>2, RemoveBackdropDoes
<1>7. CASE options.animate = TRUE /\ options.backdrop # "no"
  <2> DEFINE removing == Standing(<<"remove">>)
             z == [y EXCEPT !.body = removing]
  <2>1. Backdrop(y, "remove") = z
    <3>1. y.backdrop = 1 /\ y.body = Standing(<< >>) /\ y.isShown = FALSE
      BY <1>5, <1>7 DEF IsDialog, BackdropAsked, BodyAsked
    <3>2. Backdrop(y, "remove") = [y EXCEPT !.body[1] = Append(@, "remove")]
      BY <1>7, <3>1 DEF Backdrop, NoBackdrop
    <3>3. [y.body EXCEPT ![1] = Append(@, "remove")] = removing
      <4>1. Append(<< >>, "remove") = <<"remove">>
        OBVIOUS
      <4> QED BY <3>1, <4>1 DEF Standing
    <3>4. [y EXCEPT !.body[1] = Append(@, "remove")]
            = [y EXCEPT !.body = [y.body EXCEPT ![1] = Append(@, "remove")]]
      BY <1>3 DEF DialogType
    <3> QED BY <3>2, <3>3, <3>4
  <2>2. removing \in Bodies
    BY Bodied
  <2> HIDE DEF removing
  <2>3. z \in DialogType
    BY <1>3, <2>2 DEF DialogType
  <2>4. /\ z.isShown = y.isShown /\ z.display = y.display /\ z.in = y.in /\ z.focusin = y.focusin
        /\ z.ends = y.ends /\ z.timeouts = y.timeouts /\ z.backdrop = y.backdrop
        /\ z.body = removing
    BY <1>3 DEF DialogType
  <2> HIDE DEF z
  <2>5. IsDialog(z, FALSE, FALSE, FALSE, << >>, {}, 1, removing)
    BY <1>5, <1>7, <2>3, <2>4 DEF IsDialog, BackdropAsked
  <2> QED BY <1>1, <1>7, <2>1, <2>5 DEF DialogRemoving, removing
<1> QED BY <1>6, <1>7

(* A dialog starts hidden.                                                 *)
LEMMA ModalStarts ==
  ASSUME ModalInit
  PROVE  ModalInv
<1>1. IsDialog(Dialog, FALSE, FALSE, FALSE, << >>, {}, NoBackdrop, Gone)
  <2>1. Gone = [b \in {} |-> << >>]
    BY DEF Gone
  <2> HIDE DEF Gone
  <2>2. Dialog \in DialogType
    BY <2>1, Listed, Bodied DEF Dialog, DialogType
  <2> QED BY <2>1, <2>2 DEF IsDialog, Dialog
<1> QED BY <1>1 DEF ModalInit, ModalInv, InPhase, DialogHidden

(* show() of a dialog in a phase brings it to one, unless it is still on   *)
(* its way out.                                                            *)
LEMMA ShowDialogKeeps ==
  ASSUME options \in ModalOptions, InPhase(modal), ModalShow, ~crossed'
  PROVE  InPhase(modal')
<1>1. options.animate \in BOOLEAN /\ options.keyboard \in BOOLEAN
  BY DEF ModalOptions
<1>2. CASE modal.isShown
  BY <1>2 DEF ModalShow, ShowDialog
<1>3. CASE ~modal.isShown
  <2>1. modal.timeouts = {} /\ "remove" \notin Callbacks(modal)
    BY <1>3 DEF ModalShow
  <2>2. ~DialogRemoving(modal)
    BY <2>1, CallbackWaits DEF DialogRemoving, IsDialog
  <2>3. DialogHidden(modal)
    BY <1>3, <2>1, <2>2 DEF InPhase, DialogShowing, DialogShown, DialogHiding, IsDialog
  <2> DEFINE y == [modal EXCEPT !.isShown = TRUE, !.keyup = options.keyboard]
  <2>4. modal' = Backdrop(y, "display")
    BY <1>3 DEF ModalShow, ShowDialog
  <2>5. modal \in DialogType
    BY <2>3 DEF DialogHidden, IsDialog
  <2>6. y \in DialogType
    BY <1>1, <2>5 DEF DialogType
  <2>7. /\ y.isShown = TRUE /\ y.display = modal.display /\ y.in = modal.in
        /\ y.focusin = modal.focusin /\ y.ends = modal.ends /\ y.timeouts = modal.timeouts
        /\ y.backdrop = modal.backdrop /\ y.body = modal.body
    BY <2>5 DEF DialogType
  <2> HIDE DEF y
  <2>8. IsDialog(y, TRUE, FALSE, FALSE, << >>, {}, NoBackdrop, Gone)
    BY <2>3, <2>6, <2>7 DEF DialogHidden, IsDialog
  <2>9. CASE options.backdrop = "no"
    <3>1. modal' = Displayed(y)
      BY <2>4, <2>8, <2>9 DEF Backdrop, Callback, IsDialog
    <3>2. IsDialog(y, TRUE, FALSE, FALSE, << >>, {}, BackdropAsked, BodyAsked)
      BY <2>8, <2>9 DEF BackdropAsked, BodyAsked
    <3> QED BY <1>1, <3>1, <3>2, DisplayedDoes DEF InPhase
  <2>10. CASE options.backdrop # "no"
    <3> DEFINE body == Standing(IF options.animate THEN <<"display">> ELSE << >>)
               z == [y EXCEPT !.backdrop = 1, !.body = body]
    <3>1. modal' = IF options.animate THEN z ELSE Callback(z, "display")
      <4>1. DOMAIN y.body = {} /\ {} \cup {1} = {1}
        BY <2>8, Bodied DEF IsDialog
      <4>2. Unused(DOMAIN y.body) = 1
        BY <4>1, FirstUnused
      <4>3. [c \in DOMAIN y.body \cup {1} |->
               IF c = 1 THEN IF options.animate THEN <<"display">> ELSE << >> ELSE y.body[c]] = body
        BY <4>1 DEF Standing
      <4>4. modal' = NewBackdrop(y, "display")
        BY <2>4, <2>8, <2>10 DEF Backdrop, IsDialog
      <4>5. z = [y EXCEPT !.backdrop = 1, !.body = [c \in DOMAIN @ \cup {1} |->
               IF c = 1 THEN IF options.animate THEN <<"display">> ELSE << >> ELSE y.body[c]]]
        BY <4>3, <2>6 DEF DialogType
      <4> HIDE DEF z, body
      <4> QED BY <4>2, <4>4, <4>5 DEF NewBackdrop
    <3>2. body \in Bodies
      BY <1>1, Bodied
    <3> HIDE DEF body
    <3>3. z \in DialogType
      BY <2>6, <3>2 DEF DialogType
    <3>4. /\ z.isShown = y.isShown /\ z.display = y.display /\ z.in = y.in
          /\ z.focusin = y.focusin /\ z.ends = y.ends /\ z.timeouts = y.timeouts
          /\ z.backdrop = 1 /\ z.body = body
      BY <2>6 DEF DialogType
    <3> HIDE DEF z
    <3>5. IsDialog(z, TRUE, FALSE, FALSE, << >>, {}, 1, body)
      BY <2>8, <3>3, <3>4 DEF IsDialog
    <3>6. CASE options.animate = TRUE
      BY <2>10, <3>1, <3>5, <3>6 DEF InPhase, DialogShowing, body
    <3>7. CASE options.animate = FALSE
      <4>1. modal' = Displayed(z)
        BY <3>1, <3>7 DEF Callback
      <4>2. IsDialog(z, TRUE, FALSE, FALSE, << >>, {}, BackdropAsked, BodyAsked)
        BY <2>10, <3>5, <3>7 DEF BackdropAsked, BodyAsked, body
      <4> QED BY <1>1, <4>1, <4>2, DisplayedDoes DEF InPhase
    <3> QED BY <1>1, <3>6, <3>7
  <2> QED BY <2>9, <2>10
<1> QED BY <1>2, <1>3

(* hide() brings it to one, unless it is still on its way in.              *)
LEMMA HideDialogKeeps ==
  ASSUME options \in ModalOptions, InPhase(modal), ModalHide, ~crossed'
  PROVE  InPhase(modal')
<1>1. options.animate \in BOOLEAN
  BY DEF ModalOptions
<1>2. CASE ~modal.isShown
  BY <1>2 DEF ModalHide, HideDialog
<1>3. CASE modal.isShown
  <2>1. "display" \notin Callbacks(modal)
    BY <1>3 DEF ModalHide
  <2>2. ~DialogShowing(modal)
    BY <2>1, CallbackWaits DEF DialogShowing, IsDialog
  <2>3. DialogShown(modal)
    BY <1>3, <2>2 DEF InPhase, DialogHidden, DialogHiding, DialogRemoving, IsDialog
  <2> DEFINE y == [modal EXCEPT !.isShown = FALSE, !.keyup = FALSE, !.focusin = FALSE, !.in = FALSE]
             ends == modal.ends
  <2>4. modal' = IF options.animate THEN HideWithTransition(y) ELSE HideModal(y)
    BY <1>1, <1>3 DEF ModalHide, HideDialog
  <2>5. modal \in DialogType /\ ends \in {<< >>, <<ShownEnd>>} /\ (options.animate \/ ends = << >>)
    BY <2>3 DEF DialogShown, IsDialog
  <2>6. y \in DialogType
    BY <2>5 DEF DialogType
  <2>7. /\ y.isShown = FALSE /\ y.display = modal.display /\ y.in = FALSE
        /\ y.focusin = FALSE /\ y.ends = ends /\ y.timeouts = modal.timeouts
        /\ y.backdrop = modal.backdrop /\ y.body = modal.body
    BY <2>5 DEF DialogType
  <2> HIDE DEF y
  <2>8. IsDialog(y, FALSE, TRUE, FALSE, ends, {}, BackdropAsked, BodyAsked)
    BY <2>3, <2>6, <2>7 DEF DialogShown, IsDialog
  <2> HIDE DEF ends
  <2>9. CASE options.animate = TRUE
    <3> DEFINE more == Append(ends, HideEnd)
               z == [y EXCEPT !.timeouts = {1}, !.ends = more]
    <3>1. modal' = z
      <4>1. y.timeouts = {} /\ y.ends = ends
        BY <2>8 DEF IsDialog
      <4>2. modal' = [y EXCEPT !.timeouts = @ \cup {1}, !.ends = Append(@, HideEnd)]
        BY <2>4, <2>9, <4>1, FirstUnused DEF HideWithTransition, HideEnd
      <4> QED BY <4>1, <4>2, <2>6 DEF DialogType
    <3>2. more \in {<<HideEnd>>, <<ShownEnd, HideEnd>>} /\ more \in DialogEnds
      BY <2>5, Listed
    <3> HIDE DEF more
    <3>3. z \in DialogType
      BY <2>6, <3>2 DEF DialogType
    <3>4. /\ z.isShown = y.isShown /\ z.display = y.display /\ z.in = y.in
          /\ z.focusin = y.focusin /\ z.ends = more /\ z.timeouts = {1}
          /\ z.backdrop = y.backdrop /\ z.body = y.body
      BY <2>6 DEF DialogType
    <3> HIDE DEF z
    <3>5. IsDialog(z, FALSE, TRUE, FALSE, more, {1}, BackdropAsked, BodyAsked)
      BY <2>8, <3>3, <3>4 DEF IsDialog
    <3> QED BY <2>9, <3>1, <3>2, <3>5 DEF InPhase, DialogHiding
  <2>10. CASE options.animate = FALSE
    <3>1. modal' = HideModal(y) /\ IsDialog(y, FALSE, TRUE, FALSE, << >>, {}, BackdropAsked, BodyAsked)
      BY <2>4, <2>5, <2>8, <2>10
    <3> QED BY <1>1, <3>1, HideModalDoes DEF InPhase
  <2> QED BY <1>1, <2>9, <2>10
<1> QED BY <1>2, <1>3

\* The element's end has come, or the timeout instead of it.
LEMMA EndsCleared ==
  ASSUME NEW m \in DialogType, NEW timeouts \in {{}, {1}}, m.focusin = m.in
  PROVE  IsDialog([m EXCEPT !.ends = << >>, !.timeouts = timeouts],
                  m.isShown, m.display, m.in, << >>, timeouts, m.backdrop, m.body)
<1> DEFINE y == [m EXCEPT !.ends = << >>, !.timeouts = timeouts]
<1>1. y \in DialogType
  BY Listed DEF DialogType
<1>2. /\ y.isShown = m.isShown /\ y.display = m.display /\ y.in = m.in /\ y.focusin = m.focusin
      /\ y.ends = << >> /\ y.timeouts = timeouts /\ y.backdrop = m.backdrop /\ y.body = m.body
  BY DEF DialogType
<1> HIDE DEF y
<1>3. IsDialog(y, m.isShown, m.display, m.in, << >>, timeouts, m.backdrop, m.body)
  BY <1>1, <1>2 DEF IsDialog
<1> QED BY <1>3 DEF y

(* The end of the dialog's transition brings it to the next phase,         *)
(* whichever handlers wait.                                                *)
LEMMA ElementEndKeeps ==
  ASSUME options \in ModalOptions, InPhase(modal), ElementEnd
  PROVE  InPhase(modal')
<1>1. options.animate \in BOOLEAN
  BY DEF ModalOptions
<1>2. DialogShown(modal) \/ DialogHiding(modal)
  BY DEF ElementEnd, InPhase, DialogHidden, DialogShowing, DialogRemoving, IsDialog
<1>3. modal \in DialogType
  BY <1>2 DEF DialogShown, DialogHiding, IsDialog
<1> DEFINE m == [modal EXCEPT !.ends = << >>]
<1>4. m = [modal EXCEPT !.ends = << >>, !.timeouts = modal.timeouts]
  BY <1>3 DEF DialogType
<1>5. modal.timeouts \in {{}, {1}}
  BY <1>3 DEF DialogType
<1>6. modal' = FoldLeft(ElementEnded, m, modal.ends)
  BY DEF ElementEnd
<1> HIDE DEF m
<1>7. ElementEnded(m, ShownEnd) = m
  BY DEF ElementEnded, ShownEnd
<1>8. CASE DialogShown(modal)
  <2>1. modal.ends = <<ShownEnd>>
    BY <1>8 DEF DialogShown, IsDialog, ElementEnd
  <2>2. modal' = m
    BY <1>6, <1>7, <2>1, EndedOnce
  <2>3. IsDialog(m, TRUE, TRUE, TRUE, << >>, {}, BackdropAsked, BodyAsked)
    BY <1>3, <1>4, <1>5, <1>8, EndsCleared DEF DialogShown, IsDialog
  <2> QED BY <2>2, <2>3 DEF InPhase, DialogShown
<1>9. CASE DialogHiding(modal)
  <2>1. modal' = ElementEnded(m, HideEnd)
    <3>1. AllEnded(m, <<ShownEnd, HideEnd>>) = ElementEnded(ElementEnded(m, ShownEnd), HideEnd)
      BY EndedTwice
    <3>2. modal.ends = <<HideEnd>> \/ modal.ends = <<ShownEnd, HideEnd>>
      BY <1>9 DEF DialogHiding, IsDialog
    <3>3. CASE modal.ends = <<HideEnd>>
      BY <1>6, <3>3, EndedOnce
    <3>4. CASE modal.ends = <<ShownEnd, HideEnd>>
      BY <1>6, <1>7, <3>1, <3>4 DEF AllEnded
    <3> QED BY <3>2, <3>3, <3>4
  <2> DEFINE y == [modal EXCEPT !.ends = << >>, !.timeouts = {}]
  <2>2. modal' = HideModal(y)
    <3>1. ElementEnded(m, HideEnd) = HideModal([m EXCEPT !.timeouts = @ \ {1}])
      BY DEF ElementEnded, HideEnd
    <3>2. [m EXCEPT !.timeouts = @ \ {1}] = y
      <4>1. modal.timeouts = {1} /\ {1} \ {1} = {}
        BY <1>9 DEF DialogHiding, IsDialog
      <4> QED BY <1>3, <4>1 DEF m, DialogType
    <3> QED BY <2>1, <3>1, <3>2
  <2>3. IsDialog(y, FALSE, TRUE, FALSE, << >>, {}, BackdropAsked, BodyAsked)
    BY <1>3, <1>9, EndsCleared DEF DialogHiding, IsDialog
  <2> HIDE DEF y
  <2> QED BY <1>1, <2>2, <2>3, HideModalDoes DEF InPhase
<1> QED BY <1>2, <1>8, <1>9

(* And so does the timeout that hides a dialog whose transition did not    *)
(* end.                                                                    *)
LEMMA HideTimeoutKeeps ==
  ASSUME options \in ModalOptions, InPhase(modal), HideTimeout
  PROVE  InPhase(modal')
<1>1. options.animate \in BOOLEAN
  BY DEF ModalOptions
<1>2. PICK t \in modal.timeouts :
        modal' = HideModal(EndsOff([modal EXCEPT !.timeouts = @ \ {t}]))
  BY DEF HideTimeout
<1>3. DialogHiding(modal)
  BY <1>2 DEF InPhase, DialogHidden, DialogShowing, DialogShown, DialogRemoving, IsDialog
<1>4. modal \in DialogType /\ modal.timeouts = {1} /\ {1} \ {1} = {} /\ t = 1
  BY <1>2, <1>3 DEF DialogHiding, IsDialog
<1> DEFINE y == [modal EXCEPT !.ends = << >>, !.timeouts = {}]
<1>5. EndsOff([modal EXCEPT !.timeouts = @ \ {t}]) = y
  BY <1>4 DEF EndsOff, DialogType
<1>6. IsDialog(y, FALSE, TRUE, FALSE, << >>, {}, BackdropAsked, BodyAsked)
  BY <1>3, <1>4, EndsCleared DEF DialogHiding, IsDialog
<1> HIDE DEF y
<1> QED BY <1>1, <1>2, <1>5, <1>6, HideModalDoes DEF InPhase

(* And the end of the backdrop's transition.                               *)
LEMMA BackdropEndKeeps ==
  ASSUME options \in ModalOptions, InPhase(modal), BackdropEnd
  PROVE  InPhase(modal')
<1>1. options.animate \in BOOLEAN
  BY DEF ModalOptions
<1>2. PICK b \in DOMAIN modal.body :
        /\ modal.body[b] # << >>
        /\ modal' = FoldLeft(Callback, [modal EXCEPT !.body[b] = << >>], modal.body[b])
  BY DEF BackdropEnd
<1>3. DialogShowing(modal) \/ DialogRemoving(modal)
  <2>1. modal.body # Gone /\ modal.body # Standing(<< >>)
    BY <1>2, Bodied
  <2> QED BY <2>1 DEF InPhase, DialogHidden, DialogShown, DialogHiding, IsDialog, BodyAsked
<1> DEFINE name == IF DialogShowing(modal) THEN "display" ELSE "remove"
           bare == Standing(<< >>)
           m == [modal EXCEPT !.body = bare]
<1>4. modal.body = Standing(<<name>>) /\ modal \in DialogType
  BY <1>3 DEF DialogShowing, DialogRemoving, IsDialog
<1>5. b = 1 /\ modal.body[b] = <<name>>
  BY <1>2, <1>4, Bodied
<1>6. [modal EXCEPT !.body[b] = << >>] = m
  <2>1. [modal.body EXCEPT ![1] = << >>] = bare
    BY <1>4 DEF Standing
  <2>2. [modal EXCEPT !.body[b] = << >>] = [modal EXCEPT !.body = [modal.body EXCEPT ![1] = << >>]]
    BY <1>4, <1>5 DEF DialogType
  <2> QED BY <2>1, <2>2
<1>7. bare \in Bodies
  BY Bodied
<1> HIDE DEF bare, name
<1>8. m \in DialogType
  BY <1>4, <1>7 DEF DialogType
<1>9. /\ m.isShown = modal.isShown /\ m.display = modal.display /\ m.in = modal.in
      /\ m.focusin = modal.focusin /\ m.ends = modal.ends /\ m.timeouts = modal.timeouts
      /\ m.backdrop = modal.backdrop /\ m.body = bare
  BY <1>4 DEF DialogType
<1>10. modal' = Callback(m, name)
  BY <1>2, <1>5, <1>6, CallbackOnce
<1> HIDE DEF m
<1>11. CASE DialogShowing(modal)
  <2>1. modal' = Displayed(m)
    BY <1>10, <1>11 DEF Callback, name
  <2>2. IsDialog(m, TRUE, FALSE, FALSE, << >>, {}, BackdropAsked, BodyAsked)
    BY <1>8, <1>9, <1>11 DEF DialogShowing, IsDialog, BackdropAsked, BodyAsked, bare
  <2> QED BY <1>1, <2>1, <2>2, DisplayedDoes DEF InPhase
<1>12. CASE ~DialogShowing(modal)
  <2>1. modal' = RemoveBackdrop(m) /\ DialogRemoving(modal)
    BY <1>3, <1>10, <1>12 DEF Callback, name
  <2>2. IsDialog(m, FALSE, FALSE, FALSE, << >>, {}, 1, bare)
    BY <1>8, <1>9, <2>1 DEF DialogRemoving, IsDialog
  <2>3. DOMAIN bare \ {1} = {}
    BY Bodied DEF bare
  <2> QED BY <2>1, <2>2, <2>3, RemoveBackdropDoes DEF InPhase
<1> QED BY <1>11, <1>12

(* Until it is shown and hidden in haste, every step leaves a dialog in a  *)
(* phase.                                                                  *)
LEMMA ModalKeeps ==
  ASSUME ModalInv, ModalNext \/ UNCHANGED modalVars
  PROVE  ModalInv'
<1>1. options' = options /\ options \in ModalOptions
  BY DEF ModalNext, modalVars, ModalInv
<1>2. crossed' \in BOOLEAN /\ (~crossed' => ~crossed)
  BY DEF ModalInv, ModalNext, modalVars, ModalCall, ModalShow, ModalHide, ClickBackdrop, Escape,
         ElementEnd, BackdropEnd, HideTimeout
<1>3. ASSUME ~crossed'
      PROVE  InPhase(modal')
  <2>1. InPhase(modal)
    BY <1>2, <1>3 DEF ModalInv
  <2>2. CASE ModalShow
    BY <1>1, <1>3, <2>1, <2>2, ShowDialogKeeps
  <2>3. CASE ModalHide
    BY <1>1, <1>3, <2>1, <2>3, HideDialogKeeps
  <2>4. CASE ElementEnd
    BY <1>1, <2>1, <2>4, ElementEndKeeps
  <2>5. CASE BackdropEnd
    BY <1>1, <2>1, <2>5, BackdropEndKeeps
  <2>6. CASE HideTimeout
    BY <1>1, <2>1, <2>6, HideTimeoutKeeps
  <2>7. CASE UNCHANGED modalVars
    BY <2>1, <2>7 DEF modalVars
  <2> QED BY <2>2, <2>3, <2>4, <2>5, <2>6, <2>7 DEF ModalNext, ModalCall, ClickBackdrop, Escape
<1>4. InPhase(modal') => InPhase(modal)'
  BY <1>1 DEF InPhase, DialogHidden, DialogShowing, DialogShown, DialogHiding, DialogRemoving,
              IsDialog, BackdropAsked, BodyAsked
<1> QED BY <1>1, <1>2, <1>3, <1>4 DEF ModalInv

(* So a dialog at rest is shown with its one backdrop, or hidden without   *)
(* one.                                                                    *)
LEMMA ModalHolds ==
  ASSUME ModalInv
  PROVE  DialogWithBackdrop
<1> SUFFICES ASSUME InPhase(modal)
             PROVE  /\ Cardinality(DOMAIN modal.body) <= 1
                    /\ ModalAtRest =>
                         /\ modal.display = modal.isShown /\ modal.in = modal.isShown
                         /\ modal.focusin = modal.isShown
                         /\ DOMAIN modal.body =
                              IF modal.isShown /\ options.backdrop # "no" THEN {modal.backdrop} ELSE {}
  BY DEF DialogWithBackdrop, ModalInv
<1>1. Cardinality(DOMAIN modal.body) <= 1
  <2>1. Cardinality({}) = 0 /\ Cardinality({1}) = 1
    BY FS_EmptySet, FS_Singleton
  <2>2. DOMAIN modal.body = {} \/ DOMAIN modal.body = {1}
    BY Bodied DEF InPhase, DialogHidden, DialogShowing, DialogShown, DialogHiding, DialogRemoving,
                  IsDialog, BodyAsked
  <2> QED BY <2>1, <2>2
<1>2. ModalAtRest => DialogHidden(modal) \/ DialogShown(modal)
  <2>1. DialogHiding(modal) => modal.timeouts # {}
    BY DEF DialogHiding, IsDialog
  <2>2. DialogShowing(modal) => "display" \in Callbacks(modal)
    BY CallbackWaits DEF DialogShowing, IsDialog
  <2>3. DialogRemoving(modal) => "remove" \in Callbacks(modal)
    BY CallbackWaits DEF DialogRemoving, IsDialog
  <2> QED BY <2>1, <2>2, <2>3 DEF InPhase, ModalAtRest
<1>3. DialogHidden(modal) =>
        /\ ~modal.display /\ ~modal.in /\ ~modal.focusin /\ ~modal.isShown
        /\ DOMAIN modal.body = {}
  BY Bodied DEF DialogHidden, IsDialog
<1>4. DialogShown(modal) =>
        /\ modal.display /\ modal.in /\ modal.focusin /\ modal.isShown
        /\ DOMAIN modal.body = IF options.backdrop # "no" THEN {modal.backdrop} ELSE {}
  BY Bodied DEF DialogShown, IsDialog, BackdropAsked, BodyAsked
<1>5. DialogHidden(modal) \/ DialogShown(modal) =>
        /\ modal.display = modal.isShown /\ modal.in = modal.isShown
        /\ modal.focusin = modal.isShown
  BY DEF DialogHidden, DialogShown, IsDialog
<1> QED BY <1>1, <1>2, <1>3, <1>4, <1>5

-----------------------------------------------------------------------------
(* Tooltip: what the delays and the transitions of a tip come to is what   *)
(* was asked for last.                                                     *)

HoverStates == {"none", "in", "out"}

TipType ==
  [attached : BOOLEAN, in : BOOLEAN, fade : BOOLEAN, hoverState : HoverStates,
   ends : Seq(Nat), detaches : SUBSET Nat, destroyed : BOOLEAN, asked : BOOLEAN,
   overtaken : BOOLEAN, orphaned : BOOLEAN]

Wanted(tip) == tip.asked \/ tip.orphaned

Delays == [element : Elements \cup {Nowhere}, hoverState : HoverStates]

(* A tip that nothing has overtaken: in only if attached, detached if      *)
(* nothing will detach it, and without a delay as wanted, with one as the  *)
(* delay will leave it.  Only a destroyed tip is an orphan.                *)
TipOK(tip, delay) ==
  /\ tip \in TipType /\ IsFiniteSet(tip.detaches)
  /\ tip.destroyed = FALSE => tip.orphaned = FALSE
  /\ tip.overtaken = FALSE =>
       /\ tip.in = TRUE => tip.attached = TRUE /\ tip.ends = << >> /\ tip.detaches = {}
       /\ tip.in = FALSE /\ tip.ends = << >> /\ tip.detaches = {} => tip.attached = FALSE
       /\ delay = NoDelay => tip.in = Wanted(tip)
       /\ delay # NoDelay =>
            /\ tip.hoverState = delay.hoverState
            /\ delay.hoverState = IF Wanted(tip) THEN "in" ELSE "out"

(* A delay that runs for an element is its own.                            *)
DelayOK(e, delay) ==
  /\ delay \in Delays
  /\ delay # NoDelay =>
       delay.element = e /\ delay.hoverState \in {"in", "out"} /\ setting.delayShow = TRUE

TipsOK ==
  /\ tips \in [Elements -> TipType]
  /\ delayed \in [Elements \cup {Selector} -> Delays] /\ delayed[Selector] = NoDelay
  /\ \A e \in Elements : TipOK(tips[e], delayed[e]) /\ DelayOK(e, delayed[e])

TooltipInv ==
  /\ setting \in Settings
  /\ pointer \in Elements \cup {Nowhere} /\ focus \in Elements \cup {Nowhere}
  /\ DelaysKept => TipsOK

(* A selector that waits for nothing is as it should be.                   *)
LEMMA NoDelayOK == NoDelay \in Delays /\ NoDelay.element = Nowhere /\ NoDelay.hoverState = "none"
BY DEF NoDelay, Delays, HoverStates

(* An element starts without its tip.                                      *)
LEMMA TooltipStarts ==
  ASSUME TooltipInit
  PROVE  TooltipInv
<1>1. Tip \in TipType
  <2>1. << >> \in Seq(Nat)
    OBVIOUS
  <2> QED BY <2>1 DEF Tip, TipType, HoverStates
<1>2. TipOK(Tip, NoDelay)
  <2>1. IsFiniteSet({})
    BY FS_EmptySet
  <2> QED BY <1>1, <2>1 DEF TipOK, Tip, Wanted
<1>3. TipsOK
  BY <1>1, <1>2, NoDelayOK DEF TooltipInit, TipsOK, DelayOK
<1> QED BY <1>3 DEF TooltipInit, TooltipInv

(* A step that changes one tip and one delay keeps the others as they are. *)
LEMMA OneTipChanges ==
  ASSUME TipsOK, NEW e \in Elements, NEW tip, NEW delay, TipOK(tip, delay), DelayOK(e, delay),
         tips' = [tips EXCEPT ![e] = tip], delayed' = [delayed EXCEPT ![e] = delay],
         setting' = setting
  PROVE  TipsOK'
<1>1. tip \in TipType /\ delay \in Delays
  BY DEF TipOK, DelayOK
<1>2. e # Selector
  BY ElementsAssumption
<1>3. tips' \in [Elements -> TipType] /\ delayed' \in [Elements \cup {Selector} -> Delays]
  BY <1>1 DEF TipsOK
<1>4. delayed'[Selector] = NoDelay
  BY <1>2 DEF TipsOK
<1>5. \A x \in Elements : TipOK(tips'[x], delayed'[x]) /\ DelayOK(x, delayed'[x])
  <2> SUFFICES ASSUME NEW x \in Elements
               PROVE  TipOK(tips'[x], delayed'[x]) /\ DelayOK(x, delayed'[x])
    OBVIOUS
  <2>1. CASE x = e
    <3>1. tips'[x] = tip /\ delayed'[x] = delay
      BY <2>1 DEF TipsOK
    <3> QED BY <2>1, <3>1
  <2>2. CASE x # e
    <3>1. tips'[x] = tips[x] /\ delayed'[x] = delayed[x]
      BY <2>2 DEF TipsOK
    <3> QED BY <3>1 DEF TipsOK
  <2> QED BY <2>1, <2>2
<1> QED BY <1>3, <1>4, <1>5 DEF TipsOK, DelayOK

\* Destroyed and orphaned alike.
Alike(tip, old) == tip.destroyed = old.destroyed /\ tip.orphaned = old.orphaned

(* show() attaches a tip and fades it in, and what still waits to detach   *)
(* it is overtaken.                                                        *)
LEMMA ShowTipDoes ==
  ASSUME setting \in Settings, NEW tip \in TipType, IsFiniteSet(tip.detaches)
  PROVE  LET y == ShowTip(tip)
         IN /\ y \in TipType /\ IsFiniteSet(y.detaches)
            /\ y.attached = TRUE /\ y.in = TRUE /\ y.asked = tip.asked
            /\ y.hoverState = tip.hoverState /\ Alike(y, tip)
            /\ y.overtaken = FALSE => tip.overtaken = FALSE /\ y.ends = << >> /\ y.detaches = {}
<1> DEFINE overtaken == tip.overtaken \/ tip.ends # << >> \/ tip.detaches # {}
           fade == setting.animate
           y == [tip EXCEPT !.attached = TRUE, !.in = TRUE, !.fade = fade, !.overtaken = overtaken]
<1>1. ShowTip(tip) = y
  BY DEF ShowTip, TipType
<1>2. overtaken \in BOOLEAN /\ fade \in BOOLEAN
  BY DEF Settings, TipType
<1>3. overtaken = FALSE => tip.overtaken = FALSE /\ tip.ends = << >> /\ tip.detaches = {}
  BY DEF TipType
<1> HIDE DEF overtaken, fade
<1>4. y \in TipType
  BY <1>2 DEF TipType
<1>5. /\ y.attached = TRUE /\ y.in = TRUE /\ y.hoverState = tip.hoverState /\ y.ends = tip.ends
      /\ y.detaches = tip.detaches /\ y.asked = tip.asked /\ y.overtaken = overtaken
      /\ y.destroyed = tip.destroyed /\ y.orphaned = tip.orphaned
  BY DEF TipType
<1> HIDE DEF y
<1> QED BY <1>1, <1>3, <1>4, <1>5 DEF Alike

\* Of as many numbers as there are timeouts and one more, one is not taken.
LEMMA OneIsFree ==
  ASSUME NEW used, IsFiniteSet(used)
  PROVE  \E i \in 1 .. Cardinality(used) + 1 : i \notin used
<1> DEFINE k == Cardinality(used) + 1
<1>1. k \in Nat /\ Cardinality(used) \in Nat /\ k > Cardinality(used)
  BY FS_CardinalityType
<1> SUFFICES ASSUME 1 .. k \subseteq used
             PROVE  FALSE
  OBVIOUS
<1> HIDE DEF k
<1>2. Cardinality(1 .. k) <= Cardinality(used)
  BY FS_Subset
<1>3. Cardinality(1 .. k) = k
  BY <1>1, FS_Interval
<1> QED BY <1>1, <1>2, <1>3

(* hide() fades a tip out and has something detach it, or detaches it.     *)
LEMMA HideTipDoes ==
  ASSUME NEW tip \in TipType, IsFiniteSet(tip.detaches)
  PROVE  LET y == HideTip(tip)
         IN /\ y \in TipType /\ IsFiniteSet(y.detaches)
            /\ y.in = FALSE /\ y.asked = tip.asked /\ y.hoverState = tip.hoverState
            /\ y.overtaken = tip.overtaken /\ Alike(y, tip)
            /\ y.detaches = {} => y.attached = FALSE
<1> DEFINE x == [tip EXCEPT !.in = FALSE]
<1>1. HideTip(tip) = IF tip.fade THEN RemoveWithAnimation(x) ELSE Detached(x)
  BY DEF HideTip
<1>2. x \in TipType
  BY DEF TipType
<1>3. /\ x.in = FALSE /\ x.asked = tip.asked /\ x.hoverState = tip.hoverState
      /\ x.overtaken = tip.overtaken /\ x.detaches = tip.detaches /\ Alike(x, tip)
  BY DEF TipType, Alike
<1> HIDE DEF x
<1>4. CASE tip.fade
  <2> DEFINE t == CHOOSE i \in 1 .. Cardinality(x.detaches) + 1 : i \notin x.detaches
             ends == Append(x.ends, t)
             detaches == x.detaches \cup {t}
             y == [x EXCEPT !.ends = ends, !.detaches = detaches]
  <2>1. RemoveWithAnimation(x) = y
    BY <1>2 DEF RemoveWithAnimation, TipType
  <2>2. t \in 1 .. Cardinality(x.detaches) + 1
    BY <1>3, OneIsFree
  <2>3. t \in Nat
    BY <2>2, <1>3, FS_CardinalityType
  <2> HIDE DEF t
  <2>4. ends \in Seq(Nat)
    <3>1. x.ends \in Seq(Nat)
      BY <1>2 DEF TipType
    <3> QED BY <2>3, <3>1, AppendProperties
  <2>5. detaches \in SUBSET Nat /\ detaches # {}
    BY <1>2, <2>3 DEF TipType
  <2>6. IsFiniteSet(detaches)
    BY <1>3, FS_AddElement
  <2> HIDE DEF ends, detaches
  <2>7. y \in TipType
    BY <1>2, <2>4, <2>5 DEF TipType
  <2>8. /\ y.in = x.in /\ y.asked = x.asked /\ y.hoverState = x.hoverState
        /\ y.overtaken = x.overtaken /\ y.detaches = detaches /\ Alike(y, x)
    BY <1>2 DEF TipType, Alike
  <2> HIDE DEF y
  <2> QED BY <1>1, <1>3, <1>4, <2>1, <2>5, <2>6, <2>7, <2>8 DEF Alike
<1>5. CASE ~tip.fade
  <2> DEFINE y == [x EXCEPT !.attached = FALSE]
  <2>1. Detached(x) = y
    BY DEF Detached
  <2>2. y \in TipType
    BY <1>2 DEF TipType
  <2>3. /\ y.in = x.in /\ y.asked = x.asked /\ y.hoverState = x.hoverState
        /\ y.overtaken = x.overtaken /\ y.detaches = x.detaches /\ y.attached = FALSE
        /\ Alike(y, x)
    BY <1>2 DEF TipType, Alike
  <2> HIDE DEF y
  <2> QED BY <1>1, <1>3, <1>5, <2>1, <2>2, <2>3 DEF Alike
<1> QED BY <1>4, <1>5

\* An event that shows or hides the tip at once: no delay is left.
LEMMA AtOnce ==
  ASSUME setting \in Settings, NEW tip \in TipType, IsFiniteSet(tip.detaches), NEW show \in BOOLEAN,
         tip.orphaned = FALSE
  PROVE  TipOK([IF show THEN ShowTip(tip) ELSE HideTip(tip) EXCEPT !.asked = show], NoDelay)
<1> DEFINE x == IF show THEN ShowTip(tip) ELSE HideTip(tip)
           y == [x EXCEPT !.asked = show]
<1>1. /\ x \in TipType /\ IsFiniteSet(x.detaches) /\ x.in = show /\ x.orphaned = FALSE
      /\ show = TRUE /\ x.overtaken = FALSE => x.attached = TRUE /\ x.ends = << >> /\ x.detaches = {}
      /\ show = FALSE /\ x.detaches = {} => x.attached = FALSE
  <2>1. CASE show = TRUE
    <3>1. x = ShowTip(tip)
      BY <2>1
    <3> HIDE DEF x
    <3> QED BY <2>1, <3>1, ShowTipDoes DEF Alike
  <2>2. CASE show = FALSE
    <3>1. x = HideTip(tip)
      BY <2>2
    <3> HIDE DEF x
    <3> QED BY <2>2, <3>1, HideTipDoes DEF Alike
  <2> QED BY <2>1, <2>2
<1> HIDE DEF x
<1>2. y \in TipType
  BY <1>1 DEF TipType
<1>3. /\ y.attached = x.attached /\ y.in = x.in /\ y.ends = x.ends /\ y.detaches = x.detaches
      /\ y.overtaken = x.overtaken /\ y.asked = show /\ y.orphaned = FALSE
  BY <1>1 DEF TipType
<1> HIDE DEF y
<1>4. TipOK(y, NoDelay)
  BY <1>1, <1>2, <1>3 DEF TipOK, Wanted
<1> QED BY <1>4 DEF x, y

\* An event whose delay begins: nothing moves yet.
LEMMA AfterDelay ==
  ASSUME NEW e \in Elements, NEW tip, NEW delay, TipOK(tip, delay), NEW show \in BOOLEAN,
         tip.orphaned = FALSE
  PROVE  LET over == IF show THEN "in" ELSE "out"
         IN TipOK([tip EXCEPT !.hoverState = over, !.asked = show], [element |-> e, hoverState |-> over])
<1> DEFINE over == IF show THEN "in" ELSE "out"
           y == [tip EXCEPT !.hoverState = over, !.asked = show]
           new == [element |-> e, hoverState |-> over]
<1>1. over \in HoverStates /\ over = IF show THEN "in" ELSE "out"
  BY DEF HoverStates
<1>2. tip \in TipType
  BY DEF TipOK
<1>3. new # NoDelay
  BY ElementsAssumption DEF NoDelay
<1>4. new.hoverState = over
  OBVIOUS
<1> HIDE DEF over, new
<1>5. y \in TipType
  BY <1>1, <1>2 DEF TipType
<1>6. /\ y.attached = tip.attached /\ y.in = tip.in /\ y.ends = tip.ends
      /\ y.detaches = tip.detaches /\ y.overtaken = tip.overtaken
      /\ y.asked = show /\ y.hoverState = over /\ y.orphaned = FALSE
  BY <1>2 DEF TipType
<1> HIDE DEF y
<1>7. TipOK(y, new)
  BY <1>1, <1>3, <1>4, <1>5, <1>6 DEF TipOK, Wanted
<1> QED BY <1>7 DEF over, y, new

(* enter() keeps the tips.                                                 *)
LEMMA EnterKeeps ==
  ASSUME TipsOK, setting \in Settings, DelaysKept, NEW e \in Elements, Enter(e), setting' = setting,
         ~tips[e].destroyed
  PROVE  TipsOK'
<1>1. /\ tips \in [Elements -> TipType] /\ delayed \in [Elements \cup {Selector} -> Delays]
      /\ TipOK(tips[e], delayed[e]) /\ DelayOK(e, delayed[e])
      /\ tips[e] \in TipType /\ IsFiniteSet(tips[e].detaches) /\ tips[e].orphaned = FALSE
  BY DEF TipsOK, TipOK, TipType
<1>2. setting.delayShow \in BOOLEAN /\ (setting.delayShow => setting.selector = FALSE)
  BY DEF Settings, DelaysKept
<1>3. CASE setting.delayShow = FALSE
  <2> DEFINE tip == [ShowTip(tips[e]) EXCEPT !.asked = TRUE]
  <2>1. TipOK(tip, NoDelay)
    BY <1>1, AtOnce
  <2>2. delayed[e] = NoDelay
    BY <1>1, <1>3 DEF DelayOK
  <2>3. tips' = [tips EXCEPT ![e] = tip] /\ delayed' = delayed
    BY <1>1, <1>3 DEF Enter
  <2> HIDE DEF tip
  <2>4. delayed' = [delayed EXCEPT ![e] = NoDelay] /\ DelayOK(e, NoDelay)
    BY <1>1, <2>2, <2>3 DEF DelayOK
  <2> QED BY <2>1, <2>3, <2>4, OneTipChanges
<1>4. CASE setting.delayShow = TRUE
  <2> DEFINE tip == [tips[e] EXCEPT !.hoverState = "in", !.asked = TRUE]
             delay == [element |-> e, hoverState |-> "in"]
  <2>1. TipOK(tip, delay)
    BY <1>1, AfterDelay
  <2>2. DelayOK(e, delay)
    BY <1>4 DEF DelayOK, Delays, HoverStates
  <2>3. tips' = [tips EXCEPT ![e] = tip]
    BY <1>1, <1>4 DEF Enter
  <2>4. delayed' = [delayed EXCEPT ![e] = delay]
    BY <1>2, <1>4 DEF Enter, Listener
  <2> HIDE DEF tip, delay
  <2> QED BY <2>1, <2>2, <2>3, <2>4, OneTipChanges
<1> QED BY <1>2, <1>3, <1>4

(* leave() keeps the tips.                                                 *)
LEMMA LeaveKeeps ==
  ASSUME TipsOK, setting \in Settings, DelaysKept, NEW e \in Elements, Leave(e), setting' = setting,
         ~tips[e].destroyed
  PROVE  TipsOK'
<1>1. /\ tips \in [Elements -> TipType] /\ delayed \in [Elements \cup {Selector} -> Delays]
      /\ TipOK(tips[e], delayed[e]) /\ DelayOK(e, delayed[e]) /\ delayed[Selector] = NoDelay
      /\ tips[e] \in TipType /\ IsFiniteSet(tips[e].detaches) /\ tips[e].orphaned = FALSE
  BY DEF TipsOK, TipOK, TipType
<1>2. /\ setting.delayShow \in BOOLEAN /\ setting.delayHide \in BOOLEAN /\ setting.selector \in BOOLEAN
      /\ (setting.delayHide => setting.delayShow = TRUE /\ setting.selector = FALSE)
      /\ (setting.selector => setting.delayShow = FALSE)
  BY DEF Settings, DelaysKept
<1>3. CASE setting.delayHide = FALSE
  <2> DEFINE tip == [HideTip(tips[e]) EXCEPT !.asked = FALSE]
  <2>1. TipOK(tip, NoDelay)
    BY <1>1, AtOnce
  <2>2. tips' = [tips EXCEPT ![e] = tip] /\ delayed' = [delayed EXCEPT ![Listener(e)] = NoDelay]
    BY <1>1, <1>3 DEF Leave
  <2> HIDE DEF tip
  <2>3. delayed' = [delayed EXCEPT ![e] = NoDelay]
    <3>1. CASE setting.selector = TRUE
      <4>1. delayed[e] = NoDelay
        BY <1>1, <1>2, <3>1 DEF DelayOK
      <4>2. delayed' = [delayed EXCEPT ![Selector] = NoDelay]
        BY <2>2, <3>1 DEF Listener
      <4> QED BY <1>1, <4>1, <4>2
    <3>2. CASE setting.selector = FALSE
      BY <2>2, <3>2 DEF Listener
    <3> QED BY <1>2, <3>1, <3>2
  <2>4. DelayOK(e, NoDelay)
    BY NoDelayOK DEF DelayOK
  <2> QED BY <2>1, <2>2, <2>3, <2>4, OneTipChanges
<1>4. CASE setting.delayHide = TRUE
  <2> DEFINE tip == [tips[e] EXCEPT !.hoverState = "out", !.asked = FALSE]
             delay == [element |-> e, hoverState |-> "out"]
  <2>1. TipOK(tip, delay)
    BY <1>1, AfterDelay
  <2>2. DelayOK(e, delay)
    BY <1>2, <1>4 DEF DelayOK, Delays, HoverStates
  <2>3. tips' = [tips EXCEPT ![e] = tip]
    BY <1>1, <1>4 DEF Leave
  <2>4. delayed' = [delayed EXCEPT ![e] = delay]
    BY <1>2, <1>4 DEF Leave, Listener
  <2> HIDE DEF tip, delay
  <2> QED BY <2>1, <2>2, <2>3, <2>4, OneTipChanges
<1> QED BY <1>2, <1>3, <1>4

(* And so does a click that toggles one.                                   *)
LEMMA ClickKeeps ==
  ASSUME TipsOK, setting \in Settings, ClickElement
  PROVE  TipsOK'
<1>1. PICK e \in Elements : ~tips[e].destroyed /\ tips' = [tips EXCEPT ![e] = ToggleTip(@)]
  BY DEF ClickElement
<1>2. /\ tips \in [Elements -> TipType] /\ delayed \in [Elements \cup {Selector} -> Delays]
      /\ DelayOK(e, delayed[e]) /\ tips[e] \in TipType /\ IsFiniteSet(tips[e].detaches)
      /\ tips[e].orphaned = FALSE
  BY <1>1 DEF TipsOK, TipOK, TipType
<1>3. setting.delayShow = FALSE /\ delayed' = delayed /\ setting' = setting
  BY DEF ClickElement, Settings
<1> DEFINE show == ~tips[e].in
           tip == [IF show THEN ShowTip(tips[e]) ELSE HideTip(tips[e]) EXCEPT !.asked = show]
<1>4. ToggleTip(tips[e]) = tip
  BY <1>2 DEF ToggleTip, TipType
<1>5. show \in BOOLEAN
  OBVIOUS
<1> HIDE DEF show
<1>6. TipOK(tip, NoDelay)
  BY <1>2, <1>5, AtOnce
<1> HIDE DEF tip
<1>7. delayed[e] = NoDelay
  BY <1>2, <1>3 DEF DelayOK
<1>8. delayed' = [delayed EXCEPT ![e] = NoDelay] /\ DelayOK(e, NoDelay)
  BY <1>2, <1>3, <1>7, NoDelayOK DEF DelayOK
<1>9. tips' = [tips EXCEPT ![e] = tip]
  BY <1>1, <1>2, <1>4
<1> QED BY <1>3, <1>6, <1>8, <1>9, OneTipChanges

(* A delay that ends shows or hides what the state says since.             *)
LEMMA DelayOverKeeps ==
  ASSUME TipsOK, setting \in Settings, DelayOver
  PROVE  TipsOK'
<1>1. PICK l \in DOMAIN delayed :
        /\ delayed[l] # NoDelay
        /\ tips' = [tips EXCEPT ![delayed[l].element] =
             CASE delayed[l].hoverState # @.hoverState -> @
               [] delayed[l].hoverState = @.hoverState /\ delayed[l].hoverState = "in" -> ShowTip(@)
               [] delayed[l].hoverState = @.hoverState /\ delayed[l].hoverState = "out" -> HideTip(@)]
        /\ delayed' = [delayed EXCEPT ![l] = NoDelay]
  BY DEF DelayOver
<1>2. /\ l \in Elements /\ TipOK(tips[l], delayed[l]) /\ DelayOK(l, delayed[l])
      /\ delayed[l].element = l /\ tips \in [Elements -> TipType] /\ tips[l] \in TipType
      /\ IsFiniteSet(tips[l].detaches)
  <2>1. DOMAIN delayed = Elements \cup {Selector} /\ delayed[Selector] = NoDelay
    BY DEF TipsOK
  <2> QED BY <1>1, <2>1 DEF TipsOK, TipOK, DelayOK
<1> DEFINE over == delayed[l].hoverState
           old == tips[l]
           tip == CASE over # old.hoverState -> old
                    [] over = old.hoverState /\ over = "in" -> ShowTip(old)
                    [] over = old.hoverState /\ over = "out" -> HideTip(old)
<1>3. tips' = [tips EXCEPT ![l] = tip] /\ setting' = setting
  BY <1>1, <1>2 DEF DelayOver
<1>4. TipOK(tip, NoDelay)
  <2>1. /\ old \in TipType /\ IsFiniteSet(old.detaches)
        /\ old.destroyed = FALSE => old.orphaned = FALSE
        /\ old.overtaken = FALSE =>
             over = old.hoverState /\ over = IF Wanted(old) THEN "in" ELSE "out"
    BY <1>1, <1>2 DEF TipOK
  <2> HIDE DEF old
  <2>2. CASE over # old.hoverState
    <3>1. tip = old /\ old.overtaken = TRUE
      BY <2>1, <2>2 DEF TipType
    <3> QED BY <2>1, <3>1 DEF TipOK
  <2>3. CASE over = old.hoverState /\ over = "in"
    <3>1. tip = ShowTip(old)
      BY <2>3
    <3> HIDE DEF tip
    <3>2. /\ tip \in TipType /\ IsFiniteSet(tip.detaches)
          /\ tip.attached = TRUE /\ tip.in = TRUE /\ tip.asked = old.asked /\ Alike(tip, old)
          /\ tip.overtaken = FALSE => old.overtaken = FALSE /\ tip.ends = << >> /\ tip.detaches = {}
      BY <2>1, <3>1, ShowTipDoes
    <3>3. old.overtaken = FALSE => Wanted(old) = TRUE
      BY <2>1, <2>3 DEF TipType, Wanted
    <3> QED BY <2>1, <3>2, <3>3 DEF TipOK, Wanted, Alike
  <2>4. CASE over = old.hoverState /\ over = "out"
    <3>1. tip = HideTip(old)
      BY <2>4
    <3> HIDE DEF tip
    <3>2. /\ tip \in TipType /\ IsFiniteSet(tip.detaches)
          /\ tip.in = FALSE /\ tip.asked = old.asked /\ tip.overtaken = old.overtaken
          /\ Alike(tip, old)
          /\ tip.detaches = {} => tip.attached = FALSE
      BY <2>1, <3>1, HideTipDoes
    <3>3. old.overtaken = FALSE => Wanted(old) = FALSE
      BY <2>1, <2>4 DEF TipType, Wanted
    <3> QED BY <2>1, <3>2, <3>3 DEF TipOK, Wanted, Alike
  <2> QED BY <1>1, <1>2, <2>2, <2>3, <2>4 DEF DelayOK
<1> HIDE DEF tip
<1>5. DelayOK(l, NoDelay)
  BY NoDelayOK DEF DelayOK
<1> QED BY <1>1, <1>2, <1>3, <1>4, <1>5, OneTipChanges

\* What waits to detach the tip comes to an end: the tip has gone.
LEMMA EndedOK ==
  ASSUME NEW old, NEW delay, NEW timeouts, TipOK(old, delay), old.ends # << >> \/ old.detaches # {}
  PROVE  TipOK(TipEnded(old, timeouts), delay)
<1> DEFINE detaches == old.detaches \ timeouts
           tip == [old EXCEPT !.ends = << >>, !.detaches = detaches, !.attached = FALSE]
<1>1. old \in TipType /\ IsFiniteSet(old.detaches)
  BY DEF TipOK
<1>2. TipEnded(old, timeouts) = tip
  BY <1>1 DEF TipEnded, Detached, TipType
<1>3. detaches \in SUBSET Nat /\ IsFiniteSet(detaches) /\ << >> \in Seq(Nat)
  <2>1. << >> \in Seq(Nat)
    OBVIOUS
  <2>2. detaches \subseteq old.detaches /\ old.detaches \subseteq Nat
    BY <1>1 DEF TipType
  <2> QED BY <1>1, <2>1, <2>2, FS_Subset
<1> HIDE DEF detaches
<1>4. tip \in TipType
  BY <1>1, <1>3 DEF TipType
<1>5. /\ tip.attached = FALSE /\ tip.in = old.in /\ tip.detaches = detaches
      /\ tip.asked = old.asked /\ tip.overtaken = old.overtaken /\ tip.hoverState = old.hoverState
      /\ Alike(tip, old)
  BY <1>1 DEF TipType, Alike
<1> HIDE DEF tip
<1>6. old.overtaken = FALSE => old.in = FALSE
  BY <1>1 DEF TipOK, TipType
<1>7. TipOK(tip, delay)
  BY <1>3, <1>4, <1>5, <1>6 DEF TipOK, Wanted, Alike
<1> QED BY <1>2, <1>7

(* A transition that ends, or the timeout that stands for it, detaches the *)
(* tip.                                                                    *)
LEMMA TransitionEnds ==
  ASSUME TipsOK, TipTransitionEnd \/ DetachTimeout
  PROVE  TipsOK'
<1>1. setting' = setting /\ delayed' = delayed
  BY DEF TipTransitionEnd, DetachTimeout
<1>3. PICK e \in Elements : \E timeouts :
        /\ tips[e].ends # << >> \/ tips[e].detaches # {}
        /\ tips' = [tips EXCEPT ![e] = TipEnded(tips[e], timeouts)]
  <2>1. CASE TipTransitionEnd
    <3>1. PICK e \in Elements :
            tips[e].ends # << >> /\ tips' = [tips EXCEPT ![e] = TipEnded(tips[e], ToSet(tips[e].ends))]
      BY <2>1 DEF TipTransitionEnd
    <3> QED BY <3>1
  <2>2. CASE DetachTimeout
    <3>1. PICK e \in Elements : \E t \in tips[e].detaches :
            tips' = [tips EXCEPT ![e] = TipEnded(tips[e], {t})]
      BY <2>2 DEF DetachTimeout
    <3> QED BY <3>1
  <2> QED BY <2>1, <2>2
<1>4. PICK timeouts :
        /\ tips[e].ends # << >> \/ tips[e].detaches # {}
        /\ tips' = [tips EXCEPT ![e] = TipEnded(tips[e], timeouts)]
  BY <1>3
<1> DEFINE tip == TipEnded(tips[e], timeouts)
<1>5. /\ TipOK(tip, delayed[e]) /\ DelayOK(e, delayed[e])
      /\ delayed' = [delayed EXCEPT ![e] = delayed[e]]
  BY <1>1, <1>4, EndedOK DEF TipsOK
<1> HIDE DEF tip
<1>6. tips' = [tips EXCEPT ![e] = tip]
  BY <1>4 DEF tip
<1> QED BY <1>1, <1>5, <1>6, OneTipChanges

(* destroy() hides a tip and leaves it to a delay that runs to show it.    *)
LEMMA DestroyedOK ==
  ASSUME NEW e \in Elements, NEW old, NEW delay, TipOK(old, delay), DelayOK(e, delay)
  PROVE  TipOK(TipDestroyed(old, delay), delay)
<1> DEFINE x == HideTip(old)
           orphaned == delay.hoverState = "in"
           tip == [x EXCEPT !.destroyed = TRUE, !.asked = FALSE, !.orphaned = orphaned]
<1>1. /\ x \in TipType /\ IsFiniteSet(x.detaches) /\ x.in = FALSE
      /\ x.detaches = {} => x.attached = FALSE
      /\ x.hoverState = old.hoverState /\ x.overtaken = old.overtaken
  BY HideTipDoes DEF TipOK
<1>2. TipDestroyed(old, delay) = tip
  BY DEF TipDestroyed
<1> HIDE DEF x
<1>3. /\ orphaned \in BOOLEAN
      /\ delay = NoDelay => orphaned = FALSE
      /\ delay # NoDelay => delay.hoverState = IF orphaned THEN "in" ELSE "out"
  BY NoDelayOK DEF DelayOK
<1>4. old.overtaken = FALSE /\ delay # NoDelay => old.hoverState = delay.hoverState
  BY DEF TipOK
<1> HIDE DEF orphaned
<1>5. tip \in TipType
  BY <1>1, <1>3 DEF TipType
<1>6. /\ tip.attached = x.attached /\ tip.in = FALSE /\ tip.detaches = x.detaches
      /\ tip.asked = FALSE /\ tip.overtaken = old.overtaken /\ tip.orphaned = orphaned
      /\ tip.destroyed = TRUE /\ tip.hoverState = old.hoverState
  BY <1>1, <1>5 DEF TipType
<1> HIDE DEF tip
<1>7. Wanted(tip) = orphaned
  BY <1>3, <1>6 DEF Wanted
<1>8. TipOK(tip, delay)
  BY <1>1, <1>3, <1>4, <1>5, <1>6, <1>7 DEF TipOK
<1> QED BY <1>2, <1>8

(* And keeps the others.                                                   *)
LEMMA DestroyKeeps ==
  ASSUME TipsOK, Destroy
  PROVE  TipsOK'
<1>1. PICK e \in Elements : tips' = [tips EXCEPT ![e] = TipDestroyed(@, delayed[e])]
  BY DEF Destroy
<1>2. setting' = setting /\ delayed' = delayed
  BY DEF Destroy
<1> DEFINE tip == TipDestroyed(tips[e], delayed[e])
<1>3. TipOK(tips[e], delayed[e]) /\ DelayOK(e, delayed[e])
  BY DEF TipsOK
<1>4. /\ TipOK(tip, delayed[e]) /\ DelayOK(e, delayed[e])
      /\ delayed' = [delayed EXCEPT ![e] = delayed[e]]
  BY <1>2, <1>3, DestroyedOK DEF TipsOK
<1>5. tips' = [tips EXCEPT ![e] = tip]
  BY <1>1
<1> HIDE DEF tip
<1> QED BY <1>2, <1>4, <1>5, OneTipChanges

(* As long as a delay is for its own element, every step keeps the tips.   *)
LEMMA TooltipKeeps ==
  ASSUME TooltipInv, TooltipNext \/ UNCHANGED tooltipVars
  PROVE  TooltipInv'
<1>1. setting' = setting /\ setting \in Settings
  BY DEF TooltipNext, tooltipVars, TooltipInv, PointerEnters, PointerLeaves, FocusEnters,
         FocusLeaves, ClickElement, DelayOver, TipTransitionEnd, DetachTimeout, Destroy
<1>2. pointer' \in Elements \cup {Nowhere} /\ focus' \in Elements \cup {Nowhere}
  BY DEF TooltipNext, tooltipVars, TooltipInv, PointerEnters, PointerLeaves, FocusEnters,
         FocusLeaves, ClickElement, DelayOver, TipTransitionEnd, DetachTimeout, Destroy
<1>3. ASSUME DelaysKept
      PROVE  TipsOK'
  <2>1. TipsOK
    BY <1>3 DEF TooltipInv
  <2>2. UNCHANGED <<tips, delayed>> => TipsOK'
    BY <1>1, <2>1 DEF TipsOK, DelayOK
  <2>3. CASE PointerEnters \/ FocusEnters
    <3>1. \/ UNCHANGED <<tips, delayed>>
          \/ \E e \in Elements : Enter(e) /\ ~tips[e].destroyed
      BY <2>3 DEF PointerEnters, FocusEnters, Listens
    <3> QED BY <1>1, <1>3, <2>1, <2>2, <3>1, EnterKeeps
  <2>4. CASE PointerLeaves \/ FocusLeaves
    <3>1. \/ UNCHANGED <<tips, delayed>>
          \/ \E e \in Elements : Leave(e) /\ ~tips[e].destroyed
      BY <2>4 DEF PointerLeaves, FocusLeaves, TooltipInv, Listens
    <3> QED BY <1>1, <1>3, <2>1, <2>2, <3>1, LeaveKeeps
  <2>5. CASE ClickElement
    BY <1>1, <2>1, <2>5, ClickKeeps
  <2>6. CASE DelayOver
    BY <1>1, <2>1, <2>6, DelayOverKeeps
  <2>7. CASE TipTransitionEnd \/ DetachTimeout
    BY <2>1, <2>7, TransitionEnds
  <2>8. CASE Destroy
    BY <2>1, <2>8, DestroyKeeps
  <2>9. CASE UNCHANGED tooltipVars
    BY <2>2, <2>9 DEF tooltipVars
  <2> QED BY <2>3, <2>4, <2>5, <2>6, <2>7, <2>8, <2>9 DEF TooltipNext
<1>4. DelaysKept' => DelaysKept
  BY <1>1 DEF DelaysKept
<1> QED BY <1>1, <1>2, <1>3, <1>4 DEF TooltipInv

(* So a tip with no delay and no transition is there if that was asked for *)
(* last.                                                                   *)
LEMMA TooltipHolds ==
  ASSUME TooltipInv
  PROVE  TipAsAsked
<1> SUFFICES ASSUME DelaysKept, NEW e \in Elements, Resting(e), ~tips[e].overtaken
             PROVE  tips[e].attached = Wanted(tips[e]) /\ tips[e].in = Wanted(tips[e])
  BY DEF TipAsAsked, Wanted
<1>1. /\ TipOK(tips[e], delayed[e]) /\ DelayOK(e, delayed[e])
      /\ DOMAIN delayed = Elements \cup {Selector}
  BY DEF TooltipInv, TipsOK
<1>2. delayed[e] = NoDelay
  BY <1>1 DEF Resting, DelayOK
<1> DEFINE tip == tips[e]
<1>3. tip \in TipType /\ tip.overtaken = FALSE /\ tip.ends = << >> /\ tip.detaches = {}
  BY <1>1 DEF TipOK, TipType, Resting
<1> QED BY <1>1, <1>2, <1>3 DEF TipOK, TipType

-----------------------------------------------------------------------------
(* Tab: the pane of the marked tab is shown, or will be once the one       *)
(* before has faded out.                                                   *)

Nexts == [pane : Tabs, from : SUBSET Tabs, transition : BOOLEAN]

Panes == [active : BOOLEAN, in : BOOLEAN, fade : BOOLEAN, ends : Seq(Nexts)]

(* At rest the pane of the marked tab is the active one.                   *)
PaneRests(tab) ==
  /\ \A p \in Tabs : panes[p].ends = << >> /\ (panes[p].active <=> p = tab)
  /\ panes[tab].fade => panes[tab].in

(* Or the pane before fades out, and will give way to that of the tab.     *)
PaneWaits(tab, old) ==
  /\ old # tab
  /\ \A p \in Tabs : (panes[p].active <=> p = old) /\ (p # old => panes[p].ends = << >>)
  /\ panes[old].ends = << [pane |-> tab, from |-> {old}, transition |-> TRUE] >>

PaneOf(tab) == PaneRests(tab) \/ \E old \in Tabs : PaneWaits(tab, old)

TabInv ==
  /\ \E tab \in Tabs : marked = PathOf(tab) /\ (~hurried => PaneOf(tab))
  /\ ~hurried => panes \in [Tabs -> Panes]

(* Tabs with the same items marked are the same.                           *)
LEMMA PathsApart ==
  ASSUME NEW a \in Tabs, NEW b \in Tabs, PathOf(a) = PathOf(b)
  PROVE  a = b
BY MenuAssumption DEF PathOf

(* activate() moves the mark of one tab to another, with that of the menu. *)
LEMMA ItemActivated ==
  ASSUME NEW old \in Tabs, NEW tab \in Tabs
  PROVE  ActivateItem(PathOf(old), tab) = PathOf(tab)
<1>1. Menu \notin InMenu
  BY MenuAssumption, InMenuAssumption
<1>2. CASE old \in InMenu
  BY <1>1, <1>2 DEF ActivateItem, PathOf
<1>3. CASE old \notin InMenu
  BY <1>1, <1>3, MenuAssumption DEF ActivateItem, PathOf
<1> QED BY <1>2, <1>3

(* The one element that is folded over.                                    *)
LEMMA NextPaneOnce ==
  ASSUME NEW all, NEW next
  PROVE  FoldLeft(NextPane, all, <<next>>) = NextPane(all, next)
<1> DEFINE ends == <<next>>
           once == NextPane(all, next)
           h == [T \in SUBSET {1} |-> IF T = {} THEN all ELSE once]
           Step(it) == [T \in SUBSET {1} |->
                          IF T = {} THEN all ELSE NextPane(it[T \ {Max(T)}], ends[Max(T)])]
<1>1. DOMAIN ends = {1} /\ ends[1] = next
  OBVIOUS
<1>2. Max({1}) = 1
  BY DEF Max
<1>3. \A T \in SUBSET {1} : T = {} \/ T = {1}
  OBVIOUS
<1> HIDE DEF once, ends
<1>4. h = Step(h)
  <2>1. {1} \ {1} = {} /\ {} \in SUBSET {1}
    OBVIOUS
  <2>2. h[{1} \ {Max({1})}] = all
    BY <1>2, <2>1
  <2>3. \A T \in SUBSET {1} : h[T] = Step(h)[T]
    BY <1>1, <1>2, <1>3, <2>2 DEF once
  <2> QED BY <2>3
<1> DEFINE it == CHOOSE g : g = Step(g)
<1>5. it = Step(it)
  <2> HIDE DEF Step
  <2> QED BY <1>4
<1>6. FoldLeft(NextPane, all, ends) = it[{1}]
  BY <1>1 DEF FoldLeft, MapThenFoldSet
<1> HIDE DEF it
<1>7. it[{}] = all
  BY <1>5
<1>8. it[{1}] = NextPane(it[{1} \ {Max({1})}], ends[Max({1})])
  BY <1>5
<1>9. it[{1}] = NextPane(it[{}], next)
  BY <1>1, <1>2, <1>8
<1> QED BY <1>6, <1>7, <1>9 DEF once, ends

(* A tab starts marked with its pane active.                               *)
LEMMA TabStarts == TabInit => TabInv
<1> SUFFICES ASSUME TabInit
             PROVE  TabInv
  OBVIOUS
<1>1. PICK first \in Tabs :
        /\ marked = PathOf(first)
        /\ panes = [p \in Tabs |-> [active |-> p = first, in |-> p = first,
                                    fade |-> p \in fades, ends |-> << >>]]
  BY DEF TabInit
<1>2. PaneRests(first)
  BY <1>1 DEF PaneRests
<1>3. panes \in [Tabs -> Panes]
  <2>1. << >> \in Seq(Nexts)
    OBVIOUS
  <2> QED BY <1>1, <2>1 DEF Panes
<1> QED BY <1>1, <1>2, <1>3 DEF TabInv, PaneOf

(* A pane of its own gives way at once, or waits for the end of its        *)
(* transition.                                                             *)
LEMMA PaneActivated ==
  ASSUME NEW old \in Tabs, NEW tab \in Tabs, tab # old,
         panes \in [Tabs -> Panes], PaneRests(old), panes' = ActivatePane(panes, tab)
  PROVE  PaneOf(tab)' /\ panes' \in [Tabs -> Panes]
<1> DEFINE next == [pane |-> tab, from |-> {old}, transition |-> TRUE]
<1>1. Active(panes) = {old}
  BY DEF PaneRests, Active
<1>2. (\E p \in {old} : panes[p].fade) = panes[old].fade /\ panes[old].fade \in BOOLEAN
  BY DEF Panes
<1>3. /\ << >> \in Seq(Nexts) /\ <<next>> \in Seq(Nexts)
      /\ Append(<< >>, next) = <<next>>
  <2>1. next \in Nexts
    BY DEF Nexts
  <2> HIDE DEF next
  <2> QED BY <2>1
<1>4. CASE panes[old].fade
  <2>1. panes' = [p \in Tabs |->
                    IF p = old THEN [[panes[p] EXCEPT !.ends = Append(@, next)] EXCEPT !.in = FALSE]
                    ELSE panes[p]]
    BY <1>1, <1>2, <1>4 DEF ActivatePane
  <2> HIDE DEF next
  <2>2. panes[old].ends = << >> /\ panes[old].active
    BY DEF PaneRests
  <2>3. /\ panes'[old].active /\ panes'[old].ends = <<next>>
        /\ panes'[old] \in Panes
        /\ \A p \in Tabs \ {old} : panes'[p] = panes[p]
    <3> DEFINE was == panes[old]
               ends == <<next>>
               waits == [[was EXCEPT !.ends = ends] EXCEPT !.in = FALSE]
    <3>1. was \in Panes /\ was.active /\ ends \in Seq(Nexts)
      BY <1>3, <2>2
    <3>2. panes'[old] = waits
      BY <1>3, <2>1, <2>2
    <3>3. \A p \in Tabs \ {old} : panes'[p] = panes[p]
      BY <2>1
    <3> HIDE DEF was, ends
    <3>4. waits \in Panes /\ waits.active /\ waits.ends = ends
      BY <3>1 DEF Panes
    <3> HIDE DEF waits
    <3> QED BY <3>2, <3>3, <3>4 DEF ends
  <2>4. PaneWaits(tab, old)'
    <3>1. next = [pane |-> tab, from |-> {old}, transition |-> TRUE]
      BY DEF next
    <3> QED BY <2>3, <3>1 DEF PaneWaits, PaneRests
  <2>5. panes' \in [Tabs -> Panes]
    BY <2>1, <2>3
  <2> QED BY <2>4, <2>5 DEF PaneOf
<1>5. CASE ~panes[old].fade
  <2> DEFINE over == NextPane(panes, [pane |-> tab, from |-> {old}, transition |-> FALSE])
  <2>1. panes' = [p \in Tabs |-> IF p = old THEN [over[p] EXCEPT !.in = FALSE] ELSE over[p]]
    BY <1>1, <1>2, <1>5 DEF ActivatePane
  <2>2. /\ over[old] = [panes[old] EXCEPT !.active = FALSE]
        /\ over[tab] = [panes[tab] EXCEPT !.active = TRUE, !.fade = FALSE]
        /\ \A p \in Tabs \ {old, tab} : over[p] = panes[p]
    BY DEF NextPane
  <2> HIDE DEF over
  <2>3. /\ DOMAIN panes' = Tabs /\ panes' = [p \in Tabs |-> panes'[p]]
        /\ panes'[old] = [panes[old] EXCEPT !.active = FALSE, !.in = FALSE]
        /\ panes'[tab] = [panes[tab] EXCEPT !.active = TRUE, !.fade = FALSE]
        /\ \A p \in Tabs \ {old, tab} : panes'[p] = panes[p]
    BY <2>1, <2>2
  <2>4. panes[old] \in Panes /\ panes[tab] \in Panes
    OBVIOUS
  <2>6. /\ panes'[old] \in Panes /\ ~panes'[old].active
        /\ panes'[old].ends = panes[old].ends
    BY <2>3, <2>4 DEF Panes
  <2>7. /\ panes'[tab] \in Panes /\ panes'[tab].active /\ ~panes'[tab].fade
        /\ panes'[tab].ends = panes[tab].ends
    BY <2>3, <2>4 DEF Panes
  <2>8. panes' \in [Tabs -> Panes]
    <3>1. \A p \in Tabs : panes'[p] \in Panes
      BY <2>3, <2>6, <2>7
    <3> QED BY <2>3, <3>1
  <2>5. PaneRests(tab)'
    <3>1. panes'[old].ends = << >> /\ panes'[tab].ends = << >>
      BY <2>6, <2>7 DEF PaneRests
    <3>2. \A p \in Tabs \ {old, tab} : panes'[p].ends = << >> /\ ~panes'[p].active
      BY <2>3 DEF PaneRests
    <3>3. \A p \in Tabs : panes'[p].ends = << >> /\ (panes'[p].active <=> p = tab)
      BY <2>6, <2>7, <3>1, <3>2
    <3> QED BY <2>7, <3>3 DEF PaneRests
  <2> QED BY <2>5, <2>8 DEF PaneOf
<1> QED BY <1>2, <1>4, <1>5

(* Every step keeps the pane that of the marked tab, or to be it.          *)
LEMMA TabKeeps ==
  ASSUME TabInv, TabNext \/ UNCHANGED tabVars
  PROVE  TabInv'
<1>1. PICK old \in Tabs : marked = PathOf(old) /\ (~hurried => PaneOf(old))
  BY DEF TabInv
<1>2. CASE ShowTab
  <2>1. PICK tab \in Tabs \ marked :
          /\ marked' = ActivateItem(marked, tab)
          /\ panes' = ActivatePane(panes, tab)
          /\ hurried' = (hurried \/ \E p \in Tabs : panes[p].ends # << >>)
    BY <1>2 DEF ShowTab
  <2>2. marked' = PathOf(tab) /\ tab # old
    BY <1>1, <2>1, ItemActivated DEF PathOf
  <2>3. ASSUME ~hurried'
        PROVE  PaneOf(tab)' /\ panes' \in [Tabs -> Panes]
    <3>1. ~hurried /\ \A p \in Tabs : panes[p].ends = << >>
      BY <2>1, <2>3
    <3>2. PaneRests(old)
      <4>1. ASSUME NEW was \in Tabs, PaneWaits(old, was)
            PROVE  FALSE
        <5>1. panes[was].ends = << >> /\ panes[was].ends = << [pane |-> old, from |-> {was}, transition |-> TRUE] >>
          BY <3>1, <4>1 DEF PaneWaits
        <5> QED BY <5>1
      <4> QED BY <1>1, <3>1, <4>1 DEF PaneOf
    <3>3. panes \in [Tabs -> Panes] /\ tab \in Tabs
      BY <2>1, <3>1 DEF TabInv
    <3> QED BY <2>1, <2>2, <3>2, <3>3, PaneActivated
  <2> QED BY <2>2, <2>3 DEF TabInv
<1>3. CASE PaneEnd
  <2>1. PICK p \in Tabs :
          /\ panes[p].ends # << >>
          /\ panes' = FoldLeft(NextPane, [panes EXCEPT ![p].ends = << >>], panes[p].ends)
    BY <1>3 DEF PaneEnd
  <2>2. marked' = marked /\ hurried' = hurried
    BY <1>3 DEF PaneEnd
  <2>3. ASSUME ~hurried
        PROVE  PaneRests(old)' /\ panes' \in [Tabs -> Panes]
    <3> DEFINE next == [pane |-> old, from |-> {p}, transition |-> TRUE]
               left == [panes EXCEPT ![p].ends = << >>]
    <3>1. panes \in [Tabs -> Panes]
      BY <2>3 DEF TabInv
    <3>2. PaneWaits(old, p)
      BY <1>1, <2>1, <2>3 DEF PaneOf, PaneRests, PaneWaits
    <3>3. panes' = NextPane(left, next)
      BY <2>1, <3>2, NextPaneOnce DEF PaneWaits
    <3>4. left = [panes EXCEPT ![p] = [panes[p] EXCEPT !.ends = << >>]]
      OBVIOUS
    <3>5. /\ left[p] = [panes[p] EXCEPT !.ends = << >>]
          /\ \A q \in Tabs \ {p} : left[q] = panes[q]
      BY <3>1, <3>4
    <3>6. old # p
      BY <3>2 DEF PaneWaits
    <3> HIDE DEF left
    <3>7. /\ DOMAIN panes' = Tabs
          /\ panes'[p] = [left[p] EXCEPT !.active = FALSE]
          /\ panes'[old] = [left[old] EXCEPT !.active = TRUE, !.in = TRUE]
          /\ \A q \in Tabs \ {p, old} : panes'[q] = left[q]
          /\ panes' = [q \in Tabs |-> panes'[q]]
      BY <3>3, <3>6 DEF NextPane
    <3>8. /\ panes'[p] \in Panes /\ ~panes'[p].active /\ panes'[p].ends = << >>
      <4>1. << >> \in Seq(Nexts)
        OBVIOUS
      <4>2. panes[p] \in Panes
        BY <3>1
      <4>3. left[p] \in Panes /\ left[p].ends = << >>
        BY <3>5, <4>1, <4>2 DEF Panes
      <4> HIDE DEF next
      <4> QED BY <3>7, <4>3 DEF Panes
    <3>9. /\ panes'[old] \in Panes /\ panes'[old].active /\ panes'[old].in
          /\ panes'[old].ends = panes[old].ends
      <4>1. left[old] = panes[old] /\ panes[old] \in Panes
        BY <3>1, <3>5, <3>6
      <4> DEFINE stays == panes[old]
                 shown == [stays EXCEPT !.active = TRUE, !.in = TRUE]
      <4>2. panes'[old] = shown
        BY <3>7, <4>1
      <4>3. stays \in Panes
        BY <4>1
      <4> HIDE DEF stays
      <4>4. shown \in Panes /\ shown.active /\ shown.in /\ shown.ends = stays.ends
        BY <4>3 DEF Panes
      <4> HIDE DEF shown
      <4> QED BY <4>2, <4>4 DEF stays
    <3>10. \A q \in Tabs \ {p, old} : panes'[q] = panes[q]
      BY <3>5, <3>7
    <3>11. panes' \in [Tabs -> Panes]
      <4>1. \A q \in Tabs : panes'[q] \in Panes
        BY <3>1, <3>8, <3>9, <3>10
      <4> QED BY <3>7, <4>1
    <3>12. PaneRests(old)'
      BY <3>2, <3>6, <3>8, <3>9, <3>10 DEF PaneRests, PaneWaits
    <3> QED BY <3>11, <3>12
  <2> QED BY <1>1, <2>2, <2>3 DEF TabInv, PaneOf
<1>4. CASE UNCHANGED tabVars
  BY <1>4 DEF tabVars, TabInv, PaneOf, PaneRests, PaneWaits
<1> QED BY <1>2, <1>3, <1>4 DEF TabNext

(* So at rest the pane of the marked tab is shown.                         *)
LEMMA TabHolds == TabInv => TabShowsPane
<1> SUFFICES ASSUME TabInv
             PROVE  TabShowsPane
  OBVIOUS
<1>1. PICK tab \in Tabs : marked = PathOf(tab) /\ (~hurried => PaneOf(tab))
  BY DEF TabInv
<1>2. ASSUME ~hurried, \A p \in Tabs : panes[p].ends = << >>
      PROVE  Active(panes) = {tab} /\ (panes[tab].fade => panes[tab].in)
  <2>1. PaneRests(tab)
    <3>1. ASSUME NEW old \in Tabs, PaneWaits(tab, old)
          PROVE  FALSE
      <4>1. panes[old].ends = << >> /\ panes[old].ends = << [pane |-> tab, from |-> {old}, transition |-> TRUE] >>
        BY <1>2, <3>1 DEF PaneWaits
      <4> QED BY <4>1
    <3> QED BY <1>1, <1>2, <3>1 DEF PaneOf
  <2> QED BY <2>1 DEF PaneRests, Active
<1> QED BY <1>1, <1>2 DEF TabShowsPane

-----------------------------------------------------------------------------
(* Typeahead: a menu lists what matches the query it was filled for.       *)

(* Places in the order of numbers.                                         *)
Smaller == {p \in Nat \X Nat : p[1] < p[2]}

(* Places are ordered as numbers.                                          *)
LEMMA PlacesOrdered ==
  ASSUME NEW n \in Nat, NEW places \in SUBSET (1 .. n)
  PROVE  /\ Ordered(places, Smaller) /\ IsFiniteSet(places) /\ Cardinality(places) \in Nat
         /\ \A i \in places : Earlier(places, Smaller, i) = {j \in places : j < i}
<1>1. IsFiniteSet(places) /\ Cardinality(places) \in Nat
  <2>1. IsFiniteSet(1 .. n)
    BY FS_Interval
  <2> DEFINE U == 1 .. n
  <2>2. IsFiniteSet(U) /\ places \in SUBSET U
    BY <2>1
  <2> HIDE DEF U
  <2> QED BY <2>2, FS_Subset, FS_CardinalityType
<1>2. \A i, j \in places : <<i, j>> \in Smaller <=> i < j
  BY DEF Smaller
<1>3. \A i \in places : i \in Nat
  OBVIOUS
<1>4. Ordered(places, Smaller)
  BY <1>1, <1>2, <1>3 DEF Ordered
<1> QED BY <1>1, <1>2, <1>4 DEF Earlier

(* The k-th of the places is one of them, after k - 1 of them.             *)
LEMMA PlaceIs ==
  ASSUME NEW n \in Nat, NEW places \in SUBSET (1 .. n), NEW k \in 1 .. Cardinality(places)
  PROVE  /\ Place(places, k) \in places
         /\ Cardinality(Earlier(places, Smaller, Place(places, k))) = k - 1
<1>1. PICK place \in places : Cardinality(Earlier(places, Smaller, place)) = k - 1
  <2>1. Ordered(places, Smaller)
    BY PlacesOrdered
  <2> QED BY <2>1, EachPlace, Zenon
<1>2. \A i \in places : Earlier(places, Smaller, i) = {j \in places : j < i}
  BY PlacesOrdered
<1>3. \E i \in places : Cardinality({j \in places : j < i}) = k - 1
  BY <1>1, <1>2
<1>4. /\ Place(places, k) \in places
      /\ Cardinality({j \in places : j < Place(places, k)}) = k - 1
  BY <1>3, Zenon DEF Place
<1> QED BY <1>2, <1>4

(* Each of the places comes in its turn.                                   *)
LEMMA PlaceOf ==
  ASSUME NEW n \in Nat, NEW places \in SUBSET (1 .. n), NEW i \in places
  PROVE  \E k \in 1 .. Cardinality(places) : Place(places, k) = i
<1> DEFINE c == Cardinality(Earlier(places, Smaller, i))
           N == Cardinality(places)
<1>1. Ordered(places, Smaller) /\ N \in Nat
  BY PlacesOrdered
<1>2. c \in 0 .. N - 1
  BY <1>1, EarlierCounts
<1> HIDE DEF c
<1>3. c + 1 \in 1 .. N /\ (c + 1) - 1 = c /\ c <= c
  BY <1>1, <1>2
<1> DEFINE p == Place(places, c + 1)
<1>4. p \in places /\ Cardinality(Earlier(places, Smaller, p)) = c
  BY <1>3, PlaceIs
<1> HIDE DEF p
<1>5. p = i
  <2>1. (p = i \/ <<p, i>> \in Smaller) /\ (i = p \/ <<i, p>> \in Smaller)
    BY <1>1, <1>3, <1>4, OnePlace DEF c
  <2>2. ~(<<p, i>> \in Smaller /\ <<i, p>> \in Smaller)
    BY DEF Smaller
  <2> QED BY <2>1, <2>2
<1> QED BY <1>3, <1>5 DEF p

(* Items chosen by their places: as many as there are places, each one of  *)
(* the items at one of them, and each of those among them.                 *)
Chooses(y, items, places) ==
  /\ y \in Seq(ToSet(Source)) /\ Len(y) = Cardinality(places) /\ DOMAIN y = 1 .. Cardinality(places)
  /\ \A k \in DOMAIN y : \E i \in places : y[k] = items[i] /\ i = Place(places, k)
  /\ \A i \in places : \E k \in DOMAIN y : y[k] = items[i] /\ i = Place(places, k)

(* ItemsAt chooses items by their places.                                  *)
LEMMA ItemsChosen ==
  ASSUME NEW items \in Seq(ToSet(Source)), NEW places \in SUBSET DOMAIN items
  PROVE  Chooses(ItemsAt(items, places), items, places)
<1> DEFINE n == Len(items)
           c == Cardinality(places)
           y == ItemsAt(items, places)
           S == ToSet(Source)
<1>1. n \in Nat /\ places \in SUBSET (1 .. n) /\ \A i \in 1 .. n : items[i] \in S
  BY DEF ToSet
<1>2. c \in Nat
  BY <1>1, PlacesOrdered
<1> HIDE DEF n, S
<1>3. \A k \in 1 .. c : Place(places, k) \in places
  BY <1>1, PlaceIs
<1>4. \A i \in places : \E k \in 1 .. c : Place(places, k) = i
  BY <1>1, PlaceOf
<1>5. y = [k \in 1 .. c |-> items[Place(places, k)]]
  BY DEF ItemsAt
<1> HIDE DEF c, y
<1>6. y \in [1 .. c -> S]
  BY <1>1, <1>3, <1>5
<1>7. y \in Seq(S) /\ Len(y) = c /\ DOMAIN y = 1 .. c
  BY <1>2, <1>6
<1>8. \A k \in 1 .. c : y[k] = items[Place(places, k)]
  BY <1>5
<1>9. \A k \in DOMAIN y : \E i \in places : y[k] = items[i] /\ i = Place(places, k)
  BY <1>3, <1>7, <1>8
<1>10. \A i \in places : \E k \in DOMAIN y : y[k] = items[i] /\ i = Place(places, k)
  BY <1>4, <1>7, <1>8
<1> QED BY <1>7, <1>9, <1>10 DEF Chooses, c, S, y

(* To choose all items is to leave them.                                   *)
LEMMA AllChosen ==
  ASSUME NEW items \in Seq(ToSet(Source)), NEW places, places = DOMAIN items
  PROVE  ItemsAt(items, places) = items
<1> DEFINE n == Len(items)
<1>1. n \in Nat /\ places = 1 .. n /\ items = [k \in 1 .. n |-> items[k]]
  OBVIOUS
<1> HIDE DEF n
<1>2. Cardinality(1 .. n) = n
  <2>1. n - 1 + 1 = n /\ (1 > n => n = 0) /\ n \in Int /\ 1 \in Int
    BY <1>1
  <2> QED BY <2>1, FS_Interval
<1>3. ASSUME NEW k \in 1 .. n
      PROVE  Place(places, k) = k
  <2> DEFINE p == Place(places, k)
  <2>0. k \in 1 .. Cardinality(places) /\ places \in SUBSET (1 .. n)
    BY <1>1, <1>2
  <2>1. p \in places /\ Cardinality(Earlier(places, Smaller, p)) = k - 1
    BY <1>1, <2>0, PlaceIs
  <2> HIDE DEF p
  <2>2. Earlier(places, Smaller, p) = {j \in places : j < p}
    BY <1>1, <2>0, <2>1, PlacesOrdered
  <2>3. {j \in places : j < p} = 1 .. p - 1
    BY <1>1, <2>1
  <2>4. p \in Int /\ p >= 1 /\ k \in Int
    BY <1>1, <2>1
  <2>5. Cardinality(1 .. p - 1) = p - 1
    <3>1. p - 1 \in Int /\ (1 > p - 1 => p - 1 = 0) /\ (p - 1) - 1 + 1 = p - 1 /\ 1 \in Int
      BY <2>4
    <3> QED BY <3>1, FS_Interval
  <2>6. p - 1 = k - 1
    BY <2>1, <2>2, <2>3, <2>5, Zenon
  <2>7. p = k
    BY <2>4, <2>6
  <2> QED BY <2>7 DEF p
<1>4. ItemsAt(items, places) = [k \in 1 .. n |-> items[Place(places, k)]]
  BY <1>1, <1>2 DEF ItemsAt
<1>5. [k \in 1 .. n |-> items[Place(places, k)]] = [k \in 1 .. n |-> items[k]]
  BY <1>3
<1> QED BY <1>1, <1>4, <1>5

(* The places of the items that match, and of those that begin with the    *)
(* query.                                                                  *)
Matching(query, items) == {i \in DOMAIN items : Matches(query, items[i])}

Beginning(query, items) == {i \in DOMAIN items : BeginsWith(query, items[i])}

(* The matcher chooses the items that match.                               *)
LEMMA MatcherChooses ==
  ASSUME NEW query, NEW items \in Seq(ToSet(Source))
  PROVE  Chooses(Matcher(query, items), items, Matching(query, items))
<1>1. Matching(query, items) \in SUBSET DOMAIN items
  BY DEF Matching
<1>2. Matcher(query, items) = ItemsAt(items, Matching(query, items))
  BY DEF Matcher, Matching
<1> QED BY <1>1, <1>2, ItemsChosen

(* What matches still matches.                                             *)
LEMMA MatcherTwice ==
  ASSUME NEW query
  PROVE  /\ Matcher(query, Source) \in Seq(ToSet(Source))
         /\ Matcher(query, Matcher(query, Source)) = Matcher(query, Source)
<1> DEFINE m == Matcher(query, Source)
<1>1. Chooses(m, Source, Matching(query, Source))
  BY MatcherChooses, ListAssumption
<1> HIDE DEF m
<1>2. m \in Seq(ToSet(Source)) /\ \A k \in DOMAIN m : \E i \in Matching(query, Source) : m[k] = Source[i]
  BY <1>1 DEF Chooses
<1>3. Matching(query, m) = DOMAIN m
  BY <1>2 DEF Matching
<1>4. Matcher(query, m) = m
  BY <1>2, <1>3, AllChosen DEF Matcher, Matching
<1> QED BY <1>2, <1>4 DEF m

(* An item of two sequences joined is one of the first, where it was, or   *)
(* one of the second.                                                      *)
Joins(y, a, b) ==
  /\ Len(y) = Len(a) + Len(b)
  /\ \A k \in DOMAIN a : k \in DOMAIN y /\ y[k] = a[k]
  /\ \A k \in DOMAIN y : (k \in DOMAIN a /\ y[k] = a[k]) \/ \E j \in DOMAIN b : y[k] = b[j]

(* Two sequences concatenated are joined.                                  *)
LEMMA ConcatJoins ==
  ASSUME NEW T, NEW a \in Seq(T), NEW b \in Seq(T), NEW y, y = a \o b
  PROVE  y \in Seq(T) /\ Joins(y, a, b)
<1>1. /\ Len(a) \in Nat /\ Len(b) \in Nat /\ DOMAIN a = 1 .. Len(a) /\ DOMAIN b = 1 .. Len(b)
  OBVIOUS
<1>2. y \in Seq(T) /\ Len(y) = Len(a) + Len(b)
  OBVIOUS
<1>3. DOMAIN y = 1 .. Len(a) + Len(b)
  BY <1>2
<1>4. \A k \in 1 .. Len(a) + Len(b) : y[k] = IF k <= Len(a) THEN a[k] ELSE b[k - Len(a)]
  OBVIOUS
<1>5. ASSUME NEW k \in DOMAIN a
      PROVE  k \in DOMAIN y /\ y[k] = a[k]
  BY <1>1, <1>3, <1>4
<1>6. ASSUME NEW k \in DOMAIN y
      PROVE  (k \in DOMAIN a /\ y[k] = a[k]) \/ \E j \in DOMAIN b : y[k] = b[j]
  <2>1. CASE k <= Len(a)
    BY <1>1, <1>3, <1>4, <2>1
  <2>2. CASE ~(k <= Len(a))
    <3>1. k - Len(a) \in DOMAIN b /\ y[k] = b[k - Len(a)]
      BY <1>1, <1>3, <1>4, <2>2
    <3> QED BY <3>1
  <2> QED BY <2>1, <2>2
<1> QED BY <1>2, <1>5, <1>6 DEF Joins

(* Sorted items are the items, those that begin with the query before all  *)
(* others.                                                                 *)
Sorts(y, query, items) ==
  /\ y \in Seq(ToSet(Source)) /\ Len(y) = Len(items)
  /\ \A k \in DOMAIN y : \E i \in DOMAIN items : y[k] = items[i]
  /\ \A k \in 1 .. Cardinality(Beginning(query, items)) : k \in DOMAIN y /\ BeginsWith(query, y[k])

(* The sorter sorts.                                                       *)
LEMMA SorterSorts ==
  ASSUME NEW query, NEW items \in Seq(ToSet(Source))
  PROVE  Sorts(Sorter(query, items), query, items)
<1> DEFINE S == ToSet(Source)
           D == DOMAIN items
           n == Len(items)
           B == Beginning(query, items)
           E == {i \in D \ B : HasText(query, items[i])}
           O == D \ (B \cup E)
           b == ItemsAt(items, B)
           e == ItemsAt(items, E)
           o == ItemsAt(items, O)
           y == Sorter(query, items)
<1>1. B \in SUBSET D /\ E \in SUBSET D /\ O \in SUBSET D
  BY DEF Beginning
<1>2. Chooses(b, items, B) /\ Chooses(e, items, E) /\ Chooses(o, items, O)
  BY <1>1, ItemsChosen
<1>3. y = b \o e \o o
  BY DEF Sorter, Beginning
<1>4. D = 1 .. n /\ n \in Nat /\ IsFiniteSet(D) /\ Cardinality(D) = n
  <2>1. D = 1 .. n /\ n \in Nat
    OBVIOUS
  <2> HIDE DEF n, D
  <2>2. n - 1 + 1 = n /\ (1 > n => n = 0) /\ n \in Int /\ 1 \in Int
    BY <2>1
  <2> QED BY <2>1, <2>2, FS_Interval
<1>5. B \cap E = {} /\ (B \cup E) \cap O = {} /\ (B \cup E) \cup O = D
  BY <1>1
<1>5a. \A i \in B : BeginsWith(query, items[i])
  BY DEF Beginning
<1> HIDE DEF D, B, E, O, b, e, o, y, n, S
<1>6. Cardinality(B) + Cardinality(E) + Cardinality(O) = n
  <2>1. IsFiniteSet(B) /\ IsFiniteSet(E) /\ IsFiniteSet(O) /\ IsFiniteSet(B \cup E)
    BY <1>1, <1>4, FS_Subset
  <2>2. Cardinality(B \cup E) = Cardinality(B) + Cardinality(E) - Cardinality(B \cap E)
    BY <2>1, FS_Union
  <2>3. Cardinality(D) = Cardinality(B \cup E) + Cardinality(O) - Cardinality((B \cup E) \cap O)
    BY <1>5, <2>1, FS_Union
  <2>4. Cardinality(B \cap E) = 0 /\ Cardinality((B \cup E) \cap O) = 0
    BY <1>5, FS_EmptySet
  <2>5. Cardinality(B) \in Nat /\ Cardinality(E) \in Nat /\ Cardinality(O) \in Nat
    BY <2>1, FS_CardinalityType
  <2> QED BY <1>4, <2>2, <2>3, <2>4, <2>5
<1>7. /\ b \in Seq(S) /\ e \in Seq(S) /\ o \in Seq(S)
      /\ Len(b) = Cardinality(B) /\ Len(e) = Cardinality(E) /\ Len(o) = Cardinality(O)
      /\ \A k \in DOMAIN b : \E i \in B : b[k] = items[i]
      /\ \A k \in DOMAIN e : \E i \in E : e[k] = items[i]
      /\ \A k \in DOMAIN o : \E i \in O : o[k] = items[i]
  BY <1>2 DEF Chooses, S
<1> DEFINE be == b \o e
<1>8. be \in Seq(S) /\ Joins(be, b, e)
  BY <1>7, ConcatJoins
<1>9. y = be \o o
  BY <1>3
<1> HIDE DEF be
<1>10. y \in Seq(S) /\ Joins(y, be, o)
  BY <1>7, <1>8, <1>9, ConcatJoins
<1>11. Len(y) = n
  <2>1. Len(be) = Len(b) + Len(e) /\ Len(y) = Len(be) + Len(o)
    BY <1>8, <1>10 DEF Joins
  <2>2. Len(b) \in Nat /\ Len(e) \in Nat /\ Len(o) \in Nat
    BY <1>7
  <2> QED BY <1>6, <1>7, <2>1, <2>2
<1>12. \A k \in DOMAIN y : \E i \in D : y[k] = items[i]
  <2>1. /\ \A k \in DOMAIN b : \E i \in D : b[k] = items[i]
        /\ \A k \in DOMAIN e : \E i \in D : e[k] = items[i]
        /\ \A k \in DOMAIN o : \E i \in D : o[k] = items[i]
    BY <1>1, <1>7
  <2>2. \A k \in DOMAIN be : (k \in DOMAIN b /\ be[k] = b[k]) \/ \E j \in DOMAIN e : be[k] = e[j]
    BY <1>8 DEF Joins
  <2>3. \A k \in DOMAIN y : (k \in DOMAIN be /\ y[k] = be[k]) \/ \E j \in DOMAIN o : y[k] = o[j]
    BY <1>10 DEF Joins
  <2>4. \A k \in DOMAIN be : \E i \in D : be[k] = items[i]
    BY <2>1, <2>2
  <2> QED BY <2>1, <2>3, <2>4
<1>13. ASSUME NEW k \in 1 .. Cardinality(B)
       PROVE  k \in DOMAIN y /\ BeginsWith(query, y[k])
  <2>1. k \in DOMAIN b
    BY <1>7
  <2>2. k \in DOMAIN y /\ y[k] = b[k]
    BY <1>8, <1>10, <2>1 DEF Joins
  <2>3. PICK i \in B : b[k] = items[i]
    BY <1>7, <2>1
  <2> QED BY <1>5a, <2>2, <2>3
<1> QED BY <1>10, <1>11, <1>12, <1>13 DEF Sorts, B, D, n, S, y

(* What a menu lists for a query: what matches it, up to the limit, what   *)
(* begins with it first.                                                   *)
Lists(query, items) ==
  LET matching == {i \in DOMAIN Source : Matches(query, Source[i])}
      first == {i \in matching : BeginsWith(query, Source[i])}
      listed == IF Cardinality(matching) < MaxListed THEN Cardinality(matching) ELSE MaxListed
  IN /\ Len(items) = listed
     /\ \A item \in ToSet(items) : \E i \in matching : Source[i] = item
     /\ \A k \in 1 .. listed : k <= Cardinality(first) => BeginsWith(query, items[k])

(* Of the items that match there are as many that begin with a query as    *)
(* among those the matcher leaves.                                         *)
LEMMA FirstAreMatched ==
  ASSUME NEW query, NEW m, m = Matcher(query, Source)
  PROVE  /\ IsFiniteSet({i \in Matching(query, Source) : BeginsWith(query, Source[i])})
         /\ Cardinality({i \in Matching(query, Source) : BeginsWith(query, Source[i])})
              <= Cardinality(Beginning(query, m))
         /\ Cardinality(Beginning(query, m)) \in Nat
<1> DEFINE A == Matching(query, Source)
           F == {i \in A : BeginsWith(query, Source[i])}
           B == Beginning(query, m)
           c == Cardinality(A)
           n == Len(Source)
           f == [i \in F |-> CHOOSE k \in B : Place(A, k) = i]
<1>1. /\ n \in Nat /\ A \in SUBSET (1 .. n)
  BY ListAssumption DEF Matching
<1>2. IsFiniteSet(A) /\ c \in Nat
  BY <1>1, PlacesOrdered
<1>3. Chooses(m, Source, A)
  BY MatcherChooses, ListAssumption
<1>4. DOMAIN m = 1 .. c /\ \A i \in A : \E k \in DOMAIN m : m[k] = Source[i] /\ i = Place(A, k)
  BY <1>3 DEF Chooses
<1>5. B \in SUBSET DOMAIN m /\ \A k \in DOMAIN m : BeginsWith(query, m[k]) => k \in B
  BY DEF Beginning
<1>6. F \in SUBSET A /\ \A i \in F : BeginsWith(query, Source[i])
  OBVIOUS
<1> HIDE DEF A, F, B, c, n
<1>7. IsFiniteSet(F) /\ IsFiniteSet(B) /\ Cardinality(B) \in Nat
  <2>1. IsFiniteSet(1 .. c)
    BY <1>2, FS_Interval
  <2> QED BY <1>2, <1>4, <1>5, <1>6, <2>1, FS_Subset, FS_CardinalityType
<1>8. \A i \in F : \E k \in B : Place(A, k) = i
  BY <1>4, <1>5, <1>6
<1>9. \A i \in F : f[i] \in B /\ Place(A, f[i]) = i
  <2>1. ASSUME NEW i \in F
        PROVE  f[i] \in B /\ Place(A, f[i]) = i
    <3>1. f[i] = CHOOSE k \in B : Place(A, k) = i
      OBVIOUS
    <3> HIDE DEF f
    <3> QED BY <1>8, <3>1, Zenon
  <2> QED BY <2>1
<1>10. f \in [F -> B]
  BY <1>9
<1> HIDE DEF f
<1>11. \A i, j \in F : f[i] = f[j] => i = j
  BY <1>9
<1>12. f \in Injection(F, B)
  BY <1>10, <1>11, Fun_IsInj
<1>13. Cardinality(F) <= Cardinality(B)
  BY <1>7, <1>12, FS_Injection
<1> QED BY <1>7, <1>13 DEF F, A, B

(* The first of the sorted matches are what the menu is to list.           *)
LEMMA FirstOfLists ==
  ASSUME NEW query, NEW m, m = Matcher(query, Source), NEW y, y = Sorter(query, m), y # << >>
  PROVE  Lists(query, FirstOf(y)) /\ FirstOf(y) \in Seq(ToSet(Source)) /\ 1 \in DOMAIN FirstOf(y)
<1> DEFINE S == ToSet(Source)
           A == Matching(query, Source)
           F == {i \in A : BeginsWith(query, Source[i])}
           c == Cardinality(A)
           listed == IF c < MaxListed THEN c ELSE MaxListed
           x == FirstOf(y)
<1>1. Chooses(m, Source, A)
  BY MatcherChooses, ListAssumption
<1>2. m \in Seq(S) /\ Len(m) = c /\ DOMAIN m = 1 .. c /\ \A k \in DOMAIN m : \E i \in A : m[k] = Source[i]
  BY <1>1 DEF Chooses
<1>3. Sorts(y, query, m)
  BY <1>2, SorterSorts
<1>4. /\ y \in Seq(S) /\ Len(y) = c
      /\ \A k \in DOMAIN y : \E i \in DOMAIN m : y[k] = m[i]
      /\ \A k \in 1 .. Cardinality(Beginning(query, m)) : k \in DOMAIN y /\ BeginsWith(query, y[k])
  BY <1>2, <1>3 DEF Sorts
<1>5. /\ Cardinality(F) <= Cardinality(Beginning(query, m)) /\ Cardinality(Beginning(query, m)) \in Nat
      /\ Cardinality(F) \in Nat
  <2>1. IsFiniteSet(F) => Cardinality(F) \in Nat
    BY FS_CardinalityType
  <2> QED BY <2>1, FirstAreMatched
<1>6. c \in Nat \ {0} /\ MaxListed \in Nat \ {0}
  <2>1. Len(y) \in Nat /\ Len(y) # 0
    BY <1>4
  <2> QED BY <1>4, <2>1, ListAssumption
<1>7. x = SubSeq(y, 1, listed)
  BY <1>4 DEF FirstOf
<1> HIDE DEF S, A, F, c, x
<1>8. listed \in Nat \ {0} /\ listed <= c
  BY <1>6
<1> HIDE DEF listed
<1>9. x \in Seq(S) /\ Len(x) = listed /\ DOMAIN x = 1 .. listed /\ \A k \in 1 .. listed : x[k] = y[k] /\ k \in DOMAIN y
  BY <1>4, <1>6, <1>7, <1>8
<1>10. ASSUME NEW k \in DOMAIN x
       PROVE  \E i \in A : Source[i] = x[k]
  BY <1>2, <1>4, <1>9
<1>11. \A item \in ToSet(x) : \E i \in A : Source[i] = item
  BY <1>10 DEF ToSet
<1>12. \A k \in 1 .. listed : k <= Cardinality(F) => BeginsWith(query, x[k])
  <2>1. ASSUME NEW k \in 1 .. listed, k <= Cardinality(F)
        PROVE  BeginsWith(query, x[k])
    <3>1. k \in 1 .. Cardinality(Beginning(query, m))
      BY <1>5, <1>8, <2>1
    <3> QED BY <1>4, <1>9, <3>1
  <2> QED BY <2>1
<1>13. Lists(query, x)
  <2>1. Len(x) = listed
    BY <1>9
  <2> QED BY <1>11, <1>12, <2>1 DEF Lists, listed, c, F, A, Matching
<1>14. 1 \in DOMAIN x
  BY <1>8, <1>9
<1> QED BY <1>9, <1>13, <1>14 DEF x, S

(* What may be typed or chosen.                                            *)
Queries == Values \cup ToSet(Source) \cup {<< >>}

FieldType ==
  [value : Queries, query : Queries, shown : BOOLEAN, items : Seq(ToSet(Source)), active : Nat,
   focused : BOOLEAN, mousedover : BOOLEAN, lookups : SUBSET Queries,
   answered : [to : Queries, at : Queries]]

(* What holds of a field and its menu: something is active in it, it lists *)
(* what its last answer was looked up for, and it is not shown for a list  *)
(* when nothing keeps it.                                                  *)
MenuOK(t) ==
  /\ t.shown => t.active \in DOMAIN t.items
  /\ t.shown /\ t.answered.to = t.answered.at => Lists(t.answered.to, t.items)
  /\ t.shown /\ ~isFunction => t.focused \/ t.mousedover
  /\ ~isFunction => t.lookups = {}

TypeaheadInv == isFunction \in BOOLEAN /\ typeahead \in FieldType /\ MenuOK(typeahead)

(* A field starts empty and without a menu.                                *)
LEMMA TypeaheadStarts == TypeaheadInit => TypeaheadInv
<1> SUFFICES ASSUME TypeaheadInit PROVE TypeaheadInv
  OBVIOUS
<1>1. typeahead \in FieldType
  <2>1. << >> \in Queries /\ << >> \in Seq(ToSet(Source))
    BY DEF Queries
  <2> QED BY <2>1 DEF TypeaheadInit, FieldType, Answered
<1>2. typeahead.shown = FALSE /\ typeahead.lookups = {} /\ isFunction \in BOOLEAN
  BY DEF TypeaheadInit
<1> QED BY <1>1, <1>2 DEF TypeaheadInv, MenuOK

(* A field with its menu hidden, whatever is in it.                        *)
LEMMA HiddenOK ==
  ASSUME NEW t \in FieldType, ~isFunction => t.lookups = {}
  PROVE  HideMenu(t) \in FieldType /\ MenuOK(HideMenu(t))
<1> DEFINE y == HideMenu(t)
<1>1. y \in FieldType
  BY DEF HideMenu, FieldType
<1>2. y.shown = FALSE /\ y.lookups = t.lookups
  BY DEF HideMenu, FieldType
<1> HIDE DEF y
<1>3. MenuOK(y)
  BY <1>2 DEF MenuOK
<1> QED BY <1>1, <1>3 DEF y

(* Of some items there is a first one to list.                             *)
LEMMA FirstOfSome ==
  ASSUME NEW y \in Seq(ToSet(Source)), y # << >>
  PROVE  FirstOf(y) \in Seq(ToSet(Source)) /\ 1 \in DOMAIN FirstOf(y)
<1> DEFINE S == ToSet(Source)
           last == IF Len(y) < MaxListed THEN Len(y) ELSE MaxListed
<1>1. Len(y) \in Nat \ {0} /\ MaxListed \in Nat \ {0} /\ y \in Seq(S)
  BY ListAssumption
<1>2. last \in 1 .. Len(y)
  BY <1>1
<1>3. FirstOf(y) = SubSeq(y, 1, last)
  BY DEF FirstOf
<1> HIDE DEF S, last
<1>4. SubSeq(y, 1, last) \in Seq(S) /\ Len(SubSeq(y, 1, last)) = last
  BY <1>1, <1>2
<1>5. 1 \in DOMAIN SubSeq(y, 1, last)
  BY <1>2, <1>4
<1> QED BY <1>3, <1>4, <1>5 DEF S

(* What is found for a query is listed only if it matches what is looked   *)
(* up now; whether it was found for that is what answered says.            *)
LEMMA ProcessOK ==
  ASSUME NEW t \in FieldType, NEW query, NEW items,
         items = Source \/ items = Matcher(query, Source),
         t.answered.to = query, t.answered.at = t.query,
         ~isFunction => t.focused \/ t.mousedover, ~isFunction => t.lookups = {}
  PROVE  Process(t, items) \in FieldType /\ MenuOK(Process(t, items))
<1> DEFINE S == ToSet(Source)
           m == Matcher(t.query, items)
           sorted == Sorter(t.query, m)
           x == FirstOf(sorted)
           y == Render(t, x)
           z == Process(t, items)
<1>1. z = IF sorted = << >> THEN HideMenu(t) ELSE y
  BY DEF Process
<1>2. items \in Seq(S)
  BY ListAssumption, MatcherTwice
<1>3. m \in Seq(S)
  <2>1. Chooses(m, items, Matching(t.query, items))
    BY <1>2, MatcherChooses
  <2> QED BY <2>1 DEF Chooses
<1>4. sorted \in Seq(S)
  <2>1. Sorts(sorted, t.query, m)
    BY <1>3, SorterSorts
  <2> QED BY <2>1 DEF Sorts
<1>5. query = t.query => m = Matcher(t.query, Source)
  BY MatcherTwice
<1> HIDE DEF m
<1>6. query = t.query /\ sorted # << >> => Lists(t.query, x)
  BY <1>5, FirstOfLists
<1> HIDE DEF sorted
<1>7. sorted # << >> => x \in Seq(S) /\ 1 \in DOMAIN x
  BY <1>4, FirstOfSome
<1> HIDE DEF x
<1>8. ASSUME sorted # << >>
      PROVE  y \in FieldType /\ MenuOK(y)
  <2>1. x \in Seq(S)
    BY <1>7, <1>8
  <2> HIDE DEF S
  <2>3. y \in FieldType
    BY <2>1 DEF Render, FieldType, S
  <2>4. /\ y.items = x /\ y.active = 1 /\ y.answered = t.answered /\ y.lookups = t.lookups
        /\ y.focused = t.focused /\ y.mousedover = t.mousedover
    BY DEF Render, FieldType
  <2> HIDE DEF y
  <2>5. y.answered.to = query /\ y.answered.at = t.query
    BY <2>4
  <2>6. MenuOK(y)
    BY <1>6, <1>7, <1>8, <2>4, <2>5 DEF MenuOK
  <2> QED BY <2>3, <2>6
<1>9. HideMenu(t) \in FieldType /\ MenuOK(HideMenu(t))
  BY HiddenOK
<1> HIDE DEF y, z
<1>10. z \in FieldType /\ MenuOK(z)
  BY <1>1, <1>8, <1>9
<1> QED BY <1>10 DEF z

(* lookup() hides the menu, asks, or fills it from the list.               *)
LEMMA LookupOK ==
  ASSUME NEW t \in FieldType, MenuOK(t), isFunction \in BOOLEAN, t.focused = TRUE
  PROVE  Lookup(t) \in FieldType /\ MenuOK(Lookup(t))
<1> DEFINE typed == [t EXCEPT !.query = t.value]
           found == [typed EXCEPT !.answered = Answered(t.value, t.value)]
           waits == [typed EXCEPT !.lookups = @ \cup {t.value}]
           z == Lookup(t)
<1>1. typed \in FieldType
  BY DEF FieldType
<1>2. typed.query = t.value /\ typed.value = t.value /\ typed.shown = t.shown /\ typed.items = t.items
      /\ typed.active = t.active /\ typed.focused = TRUE /\ typed.lookups = t.lookups
      /\ typed.answered = t.answered
  BY DEF FieldType
<1>3. z = CASE TooShort(t.value) -> HideMenu(typed)
            [] ~TooShort(t.value) /\ isFunction -> waits
            [] OTHER -> Process(found, Source)
  BY Zenon DEF Lookup
<1>4. t.value \in Queries
  BY DEF FieldType
<1> HIDE DEF typed
<1>5. HideMenu(typed) \in FieldType /\ MenuOK(HideMenu(typed))
  <2>1. ~isFunction => typed.lookups = {}
    BY <1>2 DEF MenuOK
  <2> QED BY <1>1, <2>1, HiddenOK
<1>6. ASSUME isFunction
      PROVE  waits \in FieldType /\ MenuOK(waits)
  <2>1. waits \in FieldType
    BY <1>1, <1>4 DEF FieldType
  <2>2. waits.shown = t.shown /\ waits.items = t.items /\ waits.active = t.active /\ waits.answered = t.answered
    BY <1>1, <1>2 DEF FieldType
  <2> HIDE DEF waits
  <2>3. MenuOK(waits)
    BY <1>6, <2>2 DEF MenuOK
  <2> QED BY <2>1, <2>3
<1>7. ASSUME ~isFunction
      PROVE  Process(found, Source) \in FieldType /\ MenuOK(Process(found, Source))
  <2>1. found \in FieldType
    BY <1>1, <1>4 DEF FieldType, Answered
  <2>2. found.answered.to = t.value /\ found.answered.at = t.value /\ found.query = t.value
        /\ found.focused = TRUE /\ found.lookups = t.lookups
    BY <1>1, <1>2 DEF FieldType, Answered
  <2> HIDE DEF found
  <2>3. found.lookups = {}
    BY <1>7, <2>2 DEF MenuOK
  <2> DEFINE q == t.value
             items == Source
  <2>4. /\ items = Source \/ items = Matcher(q, Source)
        /\ found.answered.to = q /\ found.answered.at = found.query
        /\ ~isFunction => found.focused \/ found.mousedover
        /\ ~isFunction => found.lookups = {}
    BY <2>2, <2>3
  <2> HIDE DEF q, items
  <2>5. Process(found, items) \in FieldType /\ MenuOK(Process(found, items))
    BY <2>1, <2>4, ProcessOK
  <2> QED BY <2>5 DEF items
<1> HIDE DEF z, waits, found
<1>8. z \in FieldType /\ MenuOK(z)
  BY <1>3, <1>5, <1>6, <1>7
<1> QED BY <1>8 DEF z

(* select() takes the active item and hides the menu.                      *)
LEMMA SelectOK ==
  ASSUME NEW t \in FieldType, MenuOK(t), t.shown
  PROVE  /\ Select(t) \in FieldType /\ MenuOK(Select(t)) /\ Select(t).shown = FALSE
         /\ ~isFunction => Select(t).lookups = {}
<1> DEFINE y == [t EXCEPT !.value = t.items[t.active]]
<1>1. t.items[t.active] \in Queries
  <2>1. t.active \in DOMAIN t.items /\ t.items \in Seq(ToSet(Source))
    BY DEF MenuOK, FieldType
  <2> QED BY <2>1 DEF Queries
<1>2. y \in FieldType
  BY <1>1 DEF FieldType
<1>3. y.lookups = t.lookups
  BY DEF FieldType
<1>4. ~isFunction => y.lookups = {}
  BY <1>3 DEF MenuOK
<1>5. Select(t) = HideMenu(y)
  BY DEF Select
<1> HIDE DEF y
<1>6. HideMenu(y) \in FieldType /\ MenuOK(HideMenu(y))
  BY <1>2, <1>4, HiddenOK
<1>7. HideMenu(y).shown = FALSE /\ HideMenu(y).lookups = y.lookups
  BY <1>2 DEF HideMenu, FieldType
<1> QED BY <1>4, <1>5, <1>6, <1>7

(* Every step keeps what holds of the menu.                                *)
LEMMA TypeaheadKeeps ==
  ASSUME TypeaheadInv, TypeaheadNext \/ UNCHANGED typeaheadVars
  PROVE  TypeaheadInv'
<1> DEFINE t == typeahead
           z == typeahead'
           OK(y) == y \in FieldType /\ MenuOK(y)
<1>1. t \in FieldType /\ MenuOK(t) /\ isFunction \in BOOLEAN
  BY DEF TypeaheadInv
<1>2. isFunction' = isFunction
  BY DEF TypeaheadNext, typeaheadVars
<1>3. ASSUME TypeText
      PROVE  OK(z)
  <2>1. PICK value \in Values \cup {t.value} : z = Lookup([t EXCEPT !.value = value])
    BY <1>3 DEF TypeText
  <2> DEFINE y == [t EXCEPT !.value = value]
  <2>0. z = Lookup(y)
    BY <2>1
  <2>2. y \in FieldType
    BY <1>1 DEF FieldType, Queries
  <2>3. /\ y.shown = t.shown /\ y.items = t.items /\ y.active = t.active /\ y.answered = t.answered
        /\ y.lookups = t.lookups /\ y.focused = t.focused /\ y.mousedover = t.mousedover
    BY <1>1 DEF FieldType
  <2>4. y.focused = TRUE
    BY <1>1, <1>3, <2>3 DEF TypeText, FieldType
  <2> HIDE DEF y
  <2>5. MenuOK(y)
    BY <1>1, <2>3 DEF MenuOK
  <2>6. OK(Lookup(y))
    BY <1>1, <2>2, <2>4, <2>5, LookupOK
  <2> QED BY <2>0, <2>6
<1>4. ASSUME MenuKey
      PROVE  OK(z)
  <2>1. t.shown /\ t.focused /\ z \in {NextItem(t), PrevItem(t), Select(t), HideMenu(t)}
    BY <1>4 DEF MenuKey
  <2>2. t.items \in Seq(ToSet(Source)) /\ t.active \in 1 .. Len(t.items) /\ Len(t.items) \in Nat
    BY <1>1, <2>1 DEF MenuOK, FieldType
  <2>3. ASSUME NEW to \in 1 .. Len(t.items), NEW y, y = [t EXCEPT !.active = to]
        PROVE  OK(y)
    <3>1. y \in FieldType
      BY <1>1, <2>2, <2>3 DEF FieldType
    <3>2. /\ y.shown = t.shown /\ y.items = t.items /\ y.active = to /\ y.answered = t.answered
          /\ y.lookups = t.lookups /\ y.focused = t.focused /\ y.mousedover = t.mousedover
      BY <1>1, <2>3 DEF FieldType
    <3>3. to \in DOMAIN t.items
      BY <2>2
    <3>4. MenuOK(y)
      BY <1>1, <3>2, <3>3 DEF MenuOK
    <3> QED BY <3>1, <3>4
  <2>4. OK(NextItem(t))
    <3> DEFINE to == IF t.active = Len(t.items) THEN 1 ELSE t.active + 1
               y == NextItem(t)
    <3>1. to \in 1 .. Len(t.items)
      BY <2>2
    <3>2. y = [t EXCEPT !.active = to]
      BY DEF NextItem
    <3> HIDE DEF to, y
    <3>3. OK(y)
      BY <2>3, <3>1, <3>2
    <3> QED BY <3>3 DEF y
  <2>5. OK(PrevItem(t))
    <3> DEFINE to == IF t.active = 1 THEN Len(t.items) ELSE t.active - 1
               y == PrevItem(t)
    <3>1. to \in 1 .. Len(t.items)
      BY <2>2
    <3>2. y = [t EXCEPT !.active = to]
      BY DEF PrevItem
    <3> HIDE DEF to, y
    <3>3. OK(y)
      BY <2>3, <3>1, <3>2
    <3> QED BY <3>3 DEF y
  <2>6. OK(Select(t))
    BY <1>1, <2>1, SelectOK
  <2>7. OK(HideMenu(t))
    <3>1. ~isFunction => t.lookups = {}
      BY <1>1 DEF MenuOK
    <3> QED BY <1>1, <3>1, HiddenOK
  <2> QED BY <2>1, <2>4, <2>5, <2>6, <2>7
<1>5. ASSUME Focus
      PROVE  OK(z)
  <2>1. z = [t EXCEPT !.focused = TRUE]
    BY <1>5 DEF Focus
  <2>2. z \in FieldType
    BY <1>1, <2>1 DEF FieldType
  <2>3. /\ z.shown = t.shown /\ z.items = t.items /\ z.active = t.active /\ z.answered = t.answered
        /\ z.lookups = t.lookups /\ z.focused = TRUE
    BY <1>1, <2>1 DEF FieldType
  <2>4. MenuOK(z)
    BY <1>1, <2>3 DEF MenuOK
  <2> QED BY <2>2, <2>4
<1>7. ASSUME Blur
      PROVE  OK(z)
  <2> DEFINE y == [t EXCEPT !.focused = FALSE]
  <2>1. z = IF t.mousedover THEN y ELSE HideMenu(y)
    BY <1>7 DEF Blur
  <2>2. y \in FieldType
    BY <1>1 DEF FieldType
  <2>3. /\ y.shown = t.shown /\ y.items = t.items /\ y.active = t.active /\ y.answered = t.answered
        /\ y.lookups = t.lookups /\ y.mousedover = t.mousedover
    BY <1>1 DEF FieldType
  <2> HIDE DEF y
  <2>4. CASE t.mousedover
    <3>1. MenuOK(y)
      BY <1>1, <2>3, <2>4 DEF MenuOK
    <3> QED BY <2>1, <2>2, <2>4, <3>1
  <2>5. CASE ~t.mousedover
    <3>1. z = HideMenu(y)
      BY <2>1, <2>5
    <3>2. ~isFunction => y.lookups = {}
      BY <1>1, <2>3 DEF MenuOK
    <3> QED BY <2>2, <3>1, <3>2, HiddenOK
  <2> QED BY <2>4, <2>5
<1>8. ASSUME MouseEnters
      PROVE  OK(z)
  <2>1. PICK item \in DOMAIN t.items : z = [t EXCEPT !.mousedover = TRUE, !.active = item]
    BY <1>8 DEF MouseEnters
  <2>2. item \in Nat
    BY <1>1 DEF FieldType
  <2>3. z \in FieldType
    BY <1>1, <2>1, <2>2 DEF FieldType
  <2>4. /\ z.shown = t.shown /\ z.items = t.items /\ z.active = item /\ z.answered = t.answered
        /\ z.lookups = t.lookups /\ z.mousedover = TRUE
    BY <1>1, <2>1 DEF FieldType
  <2>5. MenuOK(z)
    BY <1>1, <2>1, <2>4 DEF MenuOK
  <2> QED BY <2>3, <2>5
<1>9. ASSUME MouseLeaves
      PROVE  OK(z)
  <2> DEFINE y == [t EXCEPT !.mousedover = FALSE]
  <2>1. z = IF t.focused THEN y ELSE HideMenu(y)
    BY <1>9 DEF MouseLeaves
  <2>2. y \in FieldType
    BY <1>1 DEF FieldType
  <2>3. /\ y.shown = t.shown /\ y.items = t.items /\ y.active = t.active /\ y.answered = t.answered
        /\ y.lookups = t.lookups /\ y.focused = t.focused
    BY <1>1 DEF FieldType
  <2> HIDE DEF y
  <2>4. CASE t.focused
    <3>1. MenuOK(y)
      BY <1>1, <2>3, <2>4 DEF MenuOK
    <3> QED BY <2>1, <2>2, <2>4, <3>1
  <2>5. CASE ~t.focused
    <3>1. z = HideMenu(y)
      BY <2>1, <2>5
    <3>2. ~isFunction => y.lookups = {}
      BY <1>1, <2>3 DEF MenuOK
    <3> QED BY <2>2, <3>1, <3>2, HiddenOK
  <2> QED BY <2>4, <2>5
<1>10. ASSUME ClickItem
       PROVE  OK(z)
  <2> DEFINE y == Select(t)
  <2>1. t.shown /\ z = [y EXCEPT !.focused = TRUE]
    BY <1>10 DEF ClickItem
  <2>2. y \in FieldType /\ y.shown = FALSE /\ (~isFunction => y.lookups = {})
    BY <1>1, <2>1, SelectOK
  <2> HIDE DEF y
  <2>3. z \in FieldType
    BY <2>1, <2>2 DEF FieldType
  <2>4. z.shown = FALSE /\ z.lookups = y.lookups
    BY <2>1, <2>2 DEF FieldType
  <2>5. MenuOK(z)
    BY <2>2, <2>4 DEF MenuOK
  <2> QED BY <2>3, <2>5
<1>11. ASSUME AnswerLookup
       PROVE  OK(z)
  <2>1. PICK query \in t.lookups :
          z = Process([t EXCEPT !.lookups = @ \ {query}, !.answered = Answered(query, t.query)],
                      Matcher(query, Source))
    BY <1>11 DEF AnswerLookup
  <2> DEFINE y == [t EXCEPT !.lookups = t.lookups \ {query}, !.answered = Answered(query, t.query)]
             items == Matcher(query, Source)
  <2>2. isFunction
    BY <1>1 DEF MenuOK
  <2>3. query \in Queries /\ t.query \in Queries
    BY <1>1 DEF FieldType
  <2>4. y \in FieldType
    BY <1>1, <2>3 DEF FieldType, Answered
  <2>5. y.answered.to = query /\ y.answered.at = t.query /\ y.query = t.query
    BY <1>1 DEF FieldType, Answered
  <2>6. z = Process(y, items)
    BY <2>1
  <2> HIDE DEF y
  <2>7. items = Source \/ items = Matcher(query, Source)
    OBVIOUS
  <2> HIDE DEF items
  <2>8. OK(Process(y, items))
    BY <2>2, <2>4, <2>5, <2>7, ProcessOK
  <2> QED BY <2>6, <2>8
<1>12. OK(z)
  <2>1. CASE TypeaheadNext
    BY <2>1, <1>3, <1>4, <1>5, <1>7, <1>8, <1>9, <1>10, <1>11 DEF TypeaheadNext
  <2>2. CASE UNCHANGED typeaheadVars
    BY <1>1, <2>2 DEF typeaheadVars
  <2> QED BY <2>1, <2>2
<1> QED BY <1>2, <1>12 DEF TypeaheadInv, MenuOK, FieldType

(* So a menu that is shown lists what matches the query.                   *)
LEMMA TypeaheadHolds ==
  ASSUME TypeaheadInv
  PROVE  MenuListsMatches
<1>1. typeahead \in FieldType /\ MenuOK(typeahead)
  BY DEF TypeaheadInv
<1>2. ASSUME typeahead.answered = Answered(typeahead.query, typeahead.query), typeahead.shown
      PROVE  Lists(typeahead.query, typeahead.items)
  <2>1. typeahead.answered.to = typeahead.query /\ typeahead.answered.at = typeahead.query
    BY <1>2 DEF Answered
  <2> QED BY <1>1, <1>2, <2>1 DEF MenuOK
<1> QED BY <1>1, <1>2 DEF MenuListsMatches, MenuOK, Lists

-----------------------------------------------------------------------------
(* Alert: what was dismissed fades or is gone, and nothing else is.        *)

AlertType ==
  /\ dataTarget \in [Boxes -> Boxes]
  /\ boxes \in [Boxes -> [stands : BOOLEAN, fade : BOOLEAN, made : BOOLEAN,
                          moving : BOOLEAN, removes : BOOLEAN]]
  /\ dismissed \subseteq Boxes

(* Where a box is on its way: what fades is to be removed; what is to be   *)
(* removed and still stands fades; what was dismissed is gone or fades;    *)
(* and as long as no button's target was gone, nothing else is.            *)
BoxOK(box, wanted) ==
  /\ box.moving => box.removes
  /\ box.removes /\ box.stands => box.moving
  /\ wanted => ~box.stands \/ box.moving

AlertInv ==
  /\ AlertType
  /\ \A b \in Boxes : BoxOK(boxes[b], b \in dismissed)
  /\ ~bereft => \A b \in Boxes : ~boxes[b].stands \/ boxes[b].removes => b \in dismissed

(* Closing changes one box, the one that Parent names: it fades, or it is  *)
(* gone.                                                                   *)
BoxType == [stands : BOOLEAN, fade : BOOLEAN, made : BOOLEAN, moving : BOOLEAN, removes : BOOLEAN]

(* To close changes the box that Parent names and no other: it fades, or   *)
(* it is gone.                                                             *)
LEMMA CloseBoxDoes ==
  ASSUME AlertType, NEW all \in [Boxes -> BoxType], NEW button \in Boxes,
         \A b \in Boxes : BoxOK(all[b], FALSE)
  PROVE  /\ Parent(all, button) \in Boxes
         /\ CloseBox(all, button) \in [Boxes -> BoxType]
         /\ \A b \in Boxes \ {Parent(all, button)} : CloseBox(all, button)[b] = all[b]
         /\ BoxOK(CloseBox(all, button)[Parent(all, button)], TRUE)
<1> DEFINE p == Parent(all, button)
<1>1. p \in Boxes
  BY DEF Parent, AlertType
<1> HIDE DEF p
<1>2. CASE FadesOut(all[p])
  <2>1. CloseBox(all, button) =
          [all EXCEPT ![p].removes = TRUE, ![p].moving = @ \/ (all[p].fade /\ ~all[p].removes)]
    BY <1>2 DEF CloseBox, p
  <2>2. CloseBox(all, button) =
          [all EXCEPT ![p] = [all[p] EXCEPT !.removes = TRUE,
                                            !.moving = @ \/ (all[p].fade /\ ~all[p].removes)]]
    BY <2>1, <1>1 DEF BoxType
  <2> DEFINE new == [all[p] EXCEPT !.removes = TRUE, !.moving = @ \/ (all[p].fade /\ ~all[p].removes)]
  <2>3. new \in BoxType /\ BoxOK(new, TRUE)
    BY <1>1, <1>2 DEF BoxType, BoxOK, FadesOut
  <2> HIDE DEF new
  <2>4. CloseBox(all, button) = [all EXCEPT ![p] = new]
    BY <2>2 DEF new
  <2> QED BY <1>1, <2>3, <2>4 DEF p
<1>3. CASE ~FadesOut(all[p])
  <2> DEFINE new == [all[p] EXCEPT !.stands = FALSE, !.moving = FALSE]
  <2>1. CloseBox(all, button) = [all EXCEPT ![p].stands = FALSE, ![p].moving = FALSE]
    BY <1>3 DEF CloseBox, p
  <2>2. CloseBox(all, button) = [all EXCEPT ![p] = new]
    BY <2>1, <1>1 DEF BoxType
  <2>3. new \in BoxType /\ BoxOK(new, TRUE)
    BY <1>1 DEF BoxType, BoxOK
  <2> HIDE DEF new
  <2> QED BY <1>1, <2>2, <2>3 DEF p
<1> QED BY <1>2, <1>3

(* Boxes start standing, none of them dismissed.                           *)
LEMMA AlertStarts == AlertInit => AlertInv
BY DEF AlertInit, AlertInv, AlertType, BoxOK

(* A click that dismisses a box keeps the others.                          *)
LEMMA DismissKeeps ==
  ASSUME AlertInv, Dismiss
  PROVE  AlertInv'
<1> USE DEF BoxType
<1>1. PICK button \in Boxes :
        /\ boxes' = IF boxes[button].made THEN CloseBox(CloseBox(boxes, button), button)
                    ELSE CloseBox(boxes, button)
        /\ dismissed' = dismissed \cup {Parent(boxes, button)}
        /\ bereft' = (\/ bereft \/ ~boxes[dataTarget[button]].stands
                      \/ boxes[button].made /\ ~CloseBox(boxes, button)[dataTarget[button]].stands)
        /\ UNCHANGED <<canFade, dataTarget>>
  BY DEF Dismiss
<1> DEFINE once == CloseBox(boxes, button)
           twice == CloseBox(once, button)
           p == Parent(boxes, button)
           q == Parent(once, button)
<1>2. boxes \in [Boxes -> BoxType] /\ (\A b \in Boxes : BoxOK(boxes[b], FALSE)) /\ AlertType
  BY DEF AlertInv, AlertType, BoxOK
<1>3. /\ p \in Boxes /\ once \in [Boxes -> BoxType]
      /\ \A b \in Boxes \ {p} : once[b] = boxes[b]
      /\ BoxOK(once[p], TRUE)
  BY <1>2, CloseBoxDoes
<1>4. \A b \in Boxes : BoxOK(once[b], FALSE) /\ BoxOK(once[b], b \in dismissed \cup {p})
  BY <1>2, <1>3 DEF BoxOK, AlertInv
<1> HIDE DEF once
<1>5. /\ q \in Boxes /\ twice \in [Boxes -> BoxType]
      /\ \A b \in Boxes \ {q} : twice[b] = once[b]
      /\ BoxOK(twice[q], TRUE)
  BY <1>2, <1>3, <1>4, CloseBoxDoes
<1>6. \A b \in Boxes : BoxOK(twice[b], b \in dismissed \cup {p})
  BY <1>4, <1>5 DEF BoxOK
<1> HIDE DEF p, q, twice
<1>7. boxes' = IF boxes[button].made THEN twice ELSE once
  BY <1>1 DEF twice, once
<1>8. boxes' \in [Boxes -> BoxType] /\ dismissed' = dismissed \cup {p} /\ dismissed \subseteq Boxes
      /\ dataTarget \in [Boxes -> Boxes] /\ dataTarget' = dataTarget
  BY <1>1, <1>3, <1>5, <1>7, <1>2 DEF p, AlertType
<1>9. AlertType'
  BY <1>3, <1>8 DEF AlertType
<1>10. \A b \in Boxes : BoxOK(boxes'[b], b \in dismissed')
  BY <1>4, <1>6, <1>7, <1>8
<1>11. ASSUME ~bereft'
       PROVE  \A b \in Boxes : ~boxes'[b].stands \/ boxes'[b].removes => b \in dismissed'
  <2>1. /\ ~bereft /\ boxes[dataTarget[button]].stands
        /\ boxes[button].made => once[dataTarget[button]].stands
    BY <1>1, <1>11 DEF once
  <2>2. p = dataTarget[button] /\ (boxes[button].made => q = p)
    BY <2>1 DEF p, q, Parent
  <2>3. \A b \in Boxes \ {p} : boxes'[b] = boxes[b]
    BY <1>3, <1>5, <1>7, <2>2
  <2> QED BY <1>8, <2>1, <2>3 DEF AlertInv
<1> QED BY <1>9, <1>10, <1>11 DEF AlertInv

(* And so does every step.                                                 *)
LEMMA AlertKeeps ==
  ASSUME AlertInv, AlertNext \/ UNCHANGED alertVars
  PROVE  AlertInv'
<1>1. CASE Dismiss
  BY <1>1, DismissKeeps
<1>2. CASE FadedOut
  <2>1. PICK box \in Boxes :
          /\ boxes[box].moving
          /\ boxes' = [boxes EXCEPT ![box].moving = FALSE, ![box].stands = ~boxes[box].removes]
    BY <1>2 DEF FadedOut
  <2>2. boxes \in [Boxes -> BoxType]
    BY DEF AlertInv, AlertType, BoxType
  <2> DEFINE new == [boxes[box] EXCEPT !.moving = FALSE, !.stands = ~boxes[box].removes]
  <2>3. boxes' = [boxes EXCEPT ![box] = new]
    BY <2>1, <2>2 DEF BoxType
  <2>4. boxes[box].removes
    BY <2>1 DEF AlertInv, BoxOK
  <2>5. new \in BoxType /\ BoxOK(new, TRUE) /\ new.removes = boxes[box].removes
    BY <2>2, <2>4 DEF BoxType, BoxOK
  <2> HIDE DEF new
  <2>6. boxes' \in [Boxes -> BoxType]
    BY <2>2, <2>3, <2>5
  <2>7. boxes'[box] = new /\ \A b \in Boxes \ {box} : boxes'[b] = boxes[b]
    BY <2>2, <2>3
  <2>8. AlertType'
    BY <1>2, <2>6 DEF FadedOut, AlertInv, AlertType, BoxType
  <2>9. \A b \in Boxes : BoxOK(boxes'[b], b \in dismissed')
    BY <1>2, <2>5, <2>7 DEF FadedOut, AlertInv, BoxOK
  <2>10. ~bereft' => \A b \in Boxes : ~boxes'[b].stands \/ boxes'[b].removes => b \in dismissed'
    BY <1>2, <2>4, <2>7 DEF FadedOut, AlertInv
  <2> QED BY <2>8, <2>9, <2>10 DEF AlertInv
<1>3. CASE LoadAlerts
  BY <1>3 DEF LoadAlerts, AlertInv, AlertType, BoxOK
<1>4. CASE UNCHANGED alertVars
  BY <1>4 DEF alertVars, AlertInv, AlertType, BoxOK
<1> QED BY <1>1, <1>2, <1>3, <1>4 DEF AlertNext

(* So once nothing fades what was dismissed is gone.                       *)
LEMMA AlertHolds == AlertInv => DismissedGone
BY DEF AlertInv, AlertType, BoxOK, DismissedGone

-----------------------------------------------------------------------------
(* Button: the timeouts of its states come in the order of the calls.      *)

ButtonTexts == {Empty, "text", "loading", "complete"}

ButtonStates == {"loading", "complete", "reset"}

ButtonTimeouts == [button : Buttons, state : ButtonStates]

ButtonType ==
  /\ faces \in [Buttons -> [text : ButtonTexts, resetText : ButtonTexts, disabled : BOOLEAN]]
  /\ pending \in Seq(ButtonTimeouts)
  /\ asked \in [Buttons -> [first : {Empty, "text"}, state : ButtonStates \cup {"none"}]]

LastForButton(i) ==
  \A j \in DOMAIN pending : pending[j].button = pending[i].button => j <= i

(* The last timeout that waits for a button brings the state asked for     *)
(* last, and a button without one has come to it.                          *)
LastTimeoutIsAsked ==
  /\ \A i \in DOMAIN pending :
       LastForButton(i) => pending[i].state = asked[pending[i].button].state
  /\ \A b \in Buttons :
       (\A i \in DOMAIN pending : pending[i].button # b)
         => faces[b].disabled = (asked[b].state = "loading")

(* A button that had a text has that of its last state, and keeps the      *)
(* first one once a state was set.                                         *)
TextOfState ==
  \A b \in Buttons : asked[b].first # Empty =>
    /\ faces[b].text = IF asked[b].state \in {"none", "reset"} THEN asked[b].first ELSE asked[b].state
    /\ faces[b].resetText = IF asked[b].state = "none" THEN Empty ELSE asked[b].first

OnePressed == radio => \A a, b \in pressed : a = b

ButtonInv == ButtonType /\ LastTimeoutIsAsked /\ TextOfState /\ OnePressed

(* Buttons start with no state set.                                        *)
LEMMA ButtonStarts == ButtonInit => ButtonInv
<1> SUFFICES ASSUME ButtonInit
             PROVE  ButtonInv
  OBVIOUS
<1>1. PICK first \in [Buttons -> {Empty, "text"}] :
        /\ faces = [b \in Buttons |-> [text |-> first[b], resetText |-> Empty, disabled |-> FALSE]]
        /\ asked = [b \in Buttons |-> [first |-> first[b], state |-> "none"]]
  BY DEF ButtonInit
<1>2. pressed = {} /\ pending = << >>
  BY DEF ButtonInit
<1>3. pending \in Seq(ButtonTimeouts) /\ DOMAIN pending = {}
  BY <1>2
<1> QED BY <1>1, <1>2, <1>3
        DEF ButtonInv, ButtonType, LastTimeoutIsAsked, TextOfState, OnePressed, ButtonTexts, ButtonStates

(* button(state) makes the last timeout that waits the one for that state. *)
LEMMA SetStateKeeps ==
  ASSUME ButtonInv, SetState
  PROVE  ButtonInv'
<1>1. PICK b \in Buttons : \E state \in ButtonStates :
        /\ faces' = [faces EXCEPT ![b].resetText = ResetText(faces[b]), ![b].text = TextOf(faces[b], state)]
        /\ pending' = Append(pending, [button |-> b, state |-> state])
        /\ asked' = [asked EXCEPT ![b].state = state]
  BY DEF SetState, ButtonStates
<1>2. PICK state \in ButtonStates :
        /\ faces' = [faces EXCEPT ![b].resetText = ResetText(faces[b]), ![b].text = TextOf(faces[b], state)]
        /\ pending' = Append(pending, [button |-> b, state |-> state])
        /\ asked' = [asked EXCEPT ![b].state = state]
  BY <1>1
<1> DEFINE face == [faces[b] EXCEPT !.resetText = ResetText(faces[b]), !.text = TextOf(faces[b], state)]
           new == [button |-> b, state |-> state]
<1>3. ButtonType
  BY DEF ButtonInv
<1>4. faces' = [faces EXCEPT ![b] = face]
  BY <1>2, <1>3 DEF ButtonType
<1>5. /\ ResetText(faces[b]) \in ButtonTexts /\ TextOf(faces[b], state) \in ButtonTexts
  BY <1>2, <1>3 DEF ButtonType, TextOf, ResetText, ButtonTexts, ButtonStates
<1>6. /\ face.disabled = faces[b].disabled
      /\ face.text = TextOf(faces[b], state) /\ face.resetText = ResetText(faces[b])
      /\ face \in [text : ButtonTexts, resetText : ButtonTexts, disabled : BOOLEAN]
  BY <1>3, <1>5 DEF ButtonType
<1>7. new \in ButtonTimeouts /\ new.button = b /\ new.state = state
  BY DEF ButtonTimeouts
<1> HIDE DEF face, new
<1>8. /\ pending' \in Seq(ButtonTimeouts) /\ Len(pending') = Len(pending) + 1
      /\ pending'[Len(pending) + 1] = new
      /\ \A i \in DOMAIN pending : pending'[i] = pending[i]
      /\ Len(pending) \in Nat /\ DOMAIN pending = 1 .. Len(pending) /\ DOMAIN pending' = 1 .. Len(pending) + 1
  <2>1. pending \in Seq(ButtonTimeouts) /\ pending' = Append(pending, new)
    BY <1>2, <1>3 DEF ButtonType, new
  <2>2. Len(pending) \in Nat /\ DOMAIN pending = 1 .. Len(pending)
    BY <2>1
  <2>3. /\ pending' \in Seq(ButtonTimeouts) /\ Len(pending') = Len(pending) + 1
        /\ pending'[Len(pending) + 1] = new
        /\ \A i \in 1 .. Len(pending) : pending'[i] = pending[i]
    BY <1>7, <2>1, AppendProperties
  <2> QED BY <2>2, <2>3
<1>9. ButtonType'
  <2>1. faces' \in [Buttons -> [text : ButtonTexts, resetText : ButtonTexts, disabled : BOOLEAN]]
    BY <1>3, <1>4, <1>6 DEF ButtonType
  <2>2. asked' \in [Buttons -> [first : {Empty, "text"}, state : ButtonStates \cup {"none"}]]
    <3>1. asked' = [asked EXCEPT ![b] = [asked[b] EXCEPT !.state = state]]
      BY <1>2
    <3>2. [asked[b] EXCEPT !.state = state] \in [first : {Empty, "text"}, state : ButtonStates \cup {"none"}]
      BY <1>3 DEF ButtonType
    <3> QED BY <1>3, <3>1, <3>2 DEF ButtonType
  <2> QED BY <1>8, <2>1, <2>2 DEF ButtonType
<1>10. LastTimeoutIsAsked'
  <2>1. ASSUME NEW i \in DOMAIN pending', LastForButton(i)'
        PROVE  pending'[i].state = asked'[pending'[i].button].state
    <3>1. CASE i = Len(pending) + 1
      BY <3>1, <1>2, <1>3, <1>7, <1>8 DEF ButtonType
    <3>2. CASE i # Len(pending) + 1
      <4>1. i \in DOMAIN pending /\ pending'[i] = pending[i]
        BY <3>2, <1>8
      <4>2. pending[i].button # b
        <5>1. pending[i].button = b => Len(pending) + 1 <= i
          BY <2>1, <4>1, <1>8, <1>7 DEF LastForButton
        <5> QED BY <5>1, <4>1, <1>8
      <4>3. LastForButton(i)
        BY <2>1, <4>1, <1>8 DEF LastForButton
      <4>4. pending[i].button \in Buttons
        <5>1. pending \in Seq(ButtonTimeouts) /\ i \in 1 .. Len(pending)
          BY <4>1, <1>3, <1>8 DEF ButtonType
        <5>2. pending[i] \in ButtonTimeouts
          BY <5>1, ElementOfSeq
        <5> QED BY <5>2 DEF ButtonTimeouts
      <4>5. asked'[pending[i].button] = asked[pending[i].button]
        BY <4>2, <4>4, <1>2, <1>3 DEF ButtonType
      <4>6. pending[i].state = asked[pending[i].button].state
        BY <4>1, <4>3 DEF ButtonInv, LastTimeoutIsAsked
      <4> QED BY <4>1, <4>5, <4>6
    <3> QED BY <3>1, <3>2
  <2>2. ASSUME NEW a \in Buttons, \A i \in DOMAIN pending' : pending'[i].button # a
        PROVE  faces'[a].disabled = (asked'[a].state = "loading")
    <3>1. a # b
      BY <2>2, <1>7, <1>8
    <3>2. \A i \in DOMAIN pending : pending[i].button # a
      BY <2>2, <1>8
    <3>3. faces'[a] = faces[a] /\ asked'[a] = asked[a]
      BY <3>1, <1>2, <1>3, <1>4 DEF ButtonType
    <3> QED BY <3>2, <3>3 DEF ButtonInv, LastTimeoutIsAsked
  <2> QED BY <2>1, <2>2 DEF LastTimeoutIsAsked
<1>11. TextOfState'
  <2>1. \A a \in Buttons \ {b} : faces'[a] = faces[a] /\ asked'[a] = asked[a]
    BY <1>2, <1>3, <1>4 DEF ButtonType
  <2>2. faces'[b] = face /\ asked'[b].first = asked[b].first /\ asked'[b].state = state
    <3>1. faces'[b] = face
      BY <1>3, <1>4 DEF ButtonType
    <3>2. asked' = [asked EXCEPT ![b] = [asked[b] EXCEPT !.state = state]]
      BY <1>2
    <3>3. asked'[b] = [asked[b] EXCEPT !.state = state]
      BY <1>3, <3>2 DEF ButtonType
    <3> QED BY <1>3, <3>1, <3>3 DEF ButtonType
  <2>3. ASSUME asked[b].first # Empty
        PROVE  ResetText(faces[b]) = asked[b].first /\ TextOf(faces[b], state) =
                 IF state = "reset" THEN asked[b].first ELSE state
    <3>1. ResetText(faces[b]) = asked[b].first
      BY <2>3 DEF ButtonInv, TextOfState, ResetText
    <3> QED BY <2>3, <3>1 DEF TextOf, ButtonStates
  <2>4. state # "none"
    BY DEF ButtonStates
  <2> QED BY <1>6, <2>1, <2>2, <2>3, <2>4 DEF ButtonInv, TextOfState
<1>12. OnePressed'
  BY DEF SetState, ButtonInv, OnePressed
<1> QED BY <1>9, <1>10, <1>11, <1>12 DEF ButtonInv

(* A timeout that is the last for its button brings it to the state asked  *)
(* for.                                                                    *)
LEMMA StateTimeoutKeeps ==
  ASSUME ButtonInv, StateTimeout
  PROVE  ButtonInv'
<1> DEFINE b == pending[1].button
           state == pending[1].state
<1>1. ButtonType /\ pending # << >>
  BY DEF ButtonInv, StateTimeout
<1>2. /\ pending' \in Seq(ButtonTimeouts) /\ Len(pending') = Len(pending) - 1
      /\ \A i \in DOMAIN pending' : i + 1 \in DOMAIN pending /\ pending'[i] = pending[i + 1]
      /\ Len(pending) \in Nat \ {0}
      /\ DOMAIN pending = 1 .. Len(pending) /\ DOMAIN pending' = 1 .. Len(pending')
  <2>1. pending' = Tail(pending) /\ pending \in Seq(ButtonTimeouts) /\ pending # << >>
    BY <1>1 DEF StateTimeout, ButtonType
  <2> QED BY <2>1, HeadTailProperties
<1>3. 1 \in DOMAIN pending /\ b \in Buttons /\ state \in ButtonStates
  <2>1. 1 \in 1 .. Len(pending)
    BY <1>2
  <2>2. pending[1] \in ButtonTimeouts
    BY <1>1, <2>1, ElementOfSeq DEF ButtonType
  <2> QED BY <1>2, <2>1, <2>2 DEF ButtonTimeouts
<1>4. \A i \in DOMAIN pending : i # 1 => i - 1 \in DOMAIN pending' /\ pending'[i - 1] = pending[i]
  BY <1>2
<1> HIDE DEF b, state
<1>5. faces' = [faces EXCEPT ![b].disabled = (state = "loading")] /\ asked' = asked
  BY DEF StateTimeout, b, state
<1> DEFINE face == [faces[b] EXCEPT !.disabled = (state = "loading")]
<1>6. faces' = [faces EXCEPT ![b] = face]
  BY <1>1, <1>3, <1>5 DEF ButtonType
<1>7. /\ face \in [text : ButtonTexts, resetText : ButtonTexts, disabled : BOOLEAN]
      /\ face.disabled = (state = "loading")
      /\ face.text = faces[b].text /\ face.resetText = faces[b].resetText
  BY <1>1, <1>3 DEF ButtonType
<1> HIDE DEF face
<1>8. ButtonType'
  <2> DEFINE Faces == [text : ButtonTexts, resetText : ButtonTexts, disabled : BOOLEAN]
  <2>1. faces \in [Buttons -> Faces] /\ face \in Faces
    BY <1>1, <1>7 DEF ButtonType
  <2> HIDE DEF Faces
  <2>2. faces' \in [Buttons -> Faces]
    BY <1>6, <2>1
  <2>3. asked' \in [Buttons -> [first : {Empty, "text"}, state : ButtonStates \cup {"none"}]]
    BY <1>1, <1>5 DEF ButtonType
  <2> QED BY <1>2, <2>2, <2>3 DEF ButtonType, Faces
<1>9. LastTimeoutIsAsked'
  <2>1. ASSUME NEW i \in DOMAIN pending', LastForButton(i)'
        PROVE  pending'[i].state = asked'[pending'[i].button].state
    <3>1. i + 1 \in DOMAIN pending /\ pending'[i] = pending[i + 1] /\ i \in Nat
      BY <1>2
    <3>2. LastForButton(i + 1)
      <4> SUFFICES ASSUME NEW j \in DOMAIN pending, pending[j].button = pending[i + 1].button
                   PROVE  j <= i + 1
        BY DEF LastForButton
      <4>1. CASE j = 1
        BY <3>1, <4>1
      <4>2. CASE j # 1
        <5>1. j - 1 \in DOMAIN pending' /\ pending'[j - 1].button = pending'[i].button
          BY <1>4, <3>1, <4>2
        <5>2. j - 1 <= i
          BY <2>1, <5>1 DEF LastForButton
        <5> QED BY <5>2, <3>1, <1>2
      <4> QED BY <4>1, <4>2
    <3> QED BY <1>5, <3>1, <3>2 DEF ButtonInv, LastTimeoutIsAsked
  <2>2. ASSUME NEW a \in Buttons, \A i \in DOMAIN pending' : pending'[i].button # a
        PROVE  faces'[a].disabled = (asked'[a].state = "loading")
    <3>1. \A i \in DOMAIN pending : i # 1 => pending[i].button # a
      BY <1>4, <2>2
    <3>2. CASE a = b
      <4>1. LastForButton(1)
        <5>1. \A j \in DOMAIN pending : pending[j].button = b => j <= 1
          BY <3>1, <3>2
        <5> QED BY <5>1 DEF LastForButton, b
      <4>2. state = asked[b].state
        BY <1>3, <4>1 DEF ButtonInv, LastTimeoutIsAsked, b, state
      <4>3. faces'[a] = face
        BY <3>2, <1>1, <1>6, <1>3 DEF ButtonType
      <4> QED BY <1>5, <1>7, <3>2, <4>2, <4>3
    <3>3. CASE a # b
      <4>1. faces'[a] = faces[a]
        BY <3>3, <1>1, <1>6 DEF ButtonType
      <4>2. \A i \in DOMAIN pending : pending[i].button # a
        BY <3>1, <3>3 DEF b
      <4> QED BY <1>5, <4>1, <4>2 DEF ButtonInv, LastTimeoutIsAsked
    <3> QED BY <3>2, <3>3
  <2> QED BY <2>1, <2>2 DEF LastTimeoutIsAsked
<1>10. TextOfState'
  <2>1. \A a \in Buttons : faces'[a].text = faces[a].text /\ faces'[a].resetText = faces[a].resetText
    BY <1>1, <1>6, <1>7 DEF ButtonType
  <2> QED BY <1>5, <2>1 DEF ButtonInv, TextOfState
<1>11. OnePressed'
  BY DEF StateTimeout, ButtonInv, OnePressed
<1> QED BY <1>8, <1>9, <1>10, <1>11 DEF ButtonInv

(* Every step keeps the order of the timeouts and the texts.               *)
LEMMA ButtonKeeps ==
  ASSUME ButtonInv, ButtonNext \/ UNCHANGED buttonVars
  PROVE  ButtonInv'
<1>1. CASE SetState
  BY <1>1, SetStateKeeps
<1>2. CASE StateTimeout
  BY <1>2, StateTimeoutKeeps
<1>3. CASE ToggleButton
  <2>1. OnePressed'
    BY <1>3 DEF ToggleButton, ButtonInv, OnePressed
  <2> QED BY <1>3, <2>1 DEF ToggleButton, ButtonInv, ButtonType, LastTimeoutIsAsked, LastForButton, TextOfState
<1>4. CASE UNCHANGED buttonVars
  BY <1>4 DEF buttonVars, ButtonInv, ButtonType, LastTimeoutIsAsked, LastForButton, TextOfState, OnePressed
<1> QED BY <1>1, <1>2, <1>3, <1>4 DEF ButtonNext

(* So a button for which none waits is as its last state was.              *)
LEMMA ButtonHolds == ButtonInv => ButtonAsAsked
<1> SUFFICES ASSUME ButtonInv
             PROVE  ButtonAsAsked
  OBVIOUS
<1>1. radio => Cardinality(pressed) <= 1
  BY AtMostOne DEF ButtonInv, OnePressed
<1>2. ASSUME pending = << >>, NEW b \in Buttons
      PROVE  faces[b].disabled = (asked[b].state = "loading")
  <2>1. DOMAIN pending = {}
    BY <1>2
  <2> QED BY <2>1 DEF ButtonInv, LastTimeoutIsAsked
<1> QED BY <1>1, <1>2 DEF ButtonAsAsked, ButtonInv, TextOfState

-----------------------------------------------------------------------------
(* Dropdown: of the menus that are opened by a click one is open.          *)

(* The menus with the attribute that are open are one menu, or none. *)
OneOpen == \A m, n \in open \cap byData : m = n

(* Whatever handles a click on a toggle, of the menus with the attribute   *)
(* none but its own stays open.                                            *)
LEMMA ClickedLeavesOwn ==
  ASSUME NEW menus, NEW m
  PROVE  Clicked(menus, m) \cap byData \subseteq {m}
<1>1. \A left : Toggled(left, m) \cap byData \subseteq {m}
  BY DEF Toggled, ClearMenus
<1>2. ClearMenus(AtHtml(menus)) \cap byData \subseteq {m}
  BY DEF ClearMenus
<1> QED BY <1>1, <1>2 DEF Clicked

(* No menu is open at the start.                                           *)
LEMMA DropdownStarts == DropdownInit => OneOpen
BY DEF DropdownInit, OneOpen

(* Every step leaves at most one of them open.                             *)
LEMMA DropdownKeeps ==
  ASSUME OneOpen, DropdownNext \/ UNCHANGED dropdownVars
  PROVE  OneOpen'
<1>1. ASSUME NEW menus, NEW at, MenusBecome(menus, at), \A m, n \in menus \cap byData : m = n
      PROVE  OneOpen'
  BY <1>1 DEF MenusBecome, OneOpen
<1>2. \A m : \A n, k \in Clicked(open, m) \cap byData : n = k
  BY ClickedLeavesOwn
<1>3. \A m, n \in ClearMenus(AtHtml(open)) \cap byData : m = n
  BY DEF ClearMenus
<1>4. CASE ClickToggle
  BY <1>1, <1>2, <1>4 DEF ClickToggle
<1>5. CASE ClickElsewhere
  BY <1>1, <1>3, <1>5 DEF ClickElsewhere
<1>6. CASE ClickForm
  <2>1. \A m, n \in AtHtml(open) \cap byData : m = n
    BY DEF AtHtml, OneOpen
  <2> QED BY <1>1, <1>6, <2>1 DEF ClickForm
<1>7. CASE EscapeMenu
  BY <1>1, <1>2, <1>3, <1>7 DEF EscapeMenu
<1>8. CASE MoveInMenu
  <2>1. \A m, n \in open \cap byData : m = n
    BY DEF OneOpen
  <2> QED BY <1>1, <1>2, <1>8, <2>1 DEF MoveInMenu
<1>9. CASE UNCHANGED dropdownVars
  BY <1>9 DEF dropdownVars, OneOpen
<1> QED BY <1>4, <1>5, <1>6, <1>7, <1>8, <1>9 DEF DropdownNext

(* So of the menus with the attribute one is open.                         *)
LEMMA DropdownHolds == OneOpen => OneMenuOpen
BY AtMostOne DEF OneOpen, OneMenuOpen

-----------------------------------------------------------------------------
(* ScrollSpy: the section marked is one that the page is scrolled to.      *)

(* The sections of a page, and their order.                                *)
Sections(page) == DOMAIN page.tops

ByPlace(page) == {p \in Sections(page) \X Sections(page) : BeginsBefore(page, p[1], p[2])}

(* The sections of a page are ordered by where they begin.                 *)
LEMMA SectionsOrdered ==
  ASSUME NEW page \in Layouts
  PROVE  /\ Ordered(Sections(page), ByPlace(page))
         /\ Sections(page) = 1 .. Len(page.tops) /\ Len(page.tops) \in Nat \ {0}
         /\ Cardinality(Sections(page)) = Len(page.tops)
         /\ \A s \in Sections(page) : page.tops[s] \in Int /\ s \in Int /\ s # 0
<1> DEFINE D == Sections(page)
           n == Len(page.tops)
<1>1. page.tops \in Seq(Int) \ {<< >>}
  BY LayoutsAssumption
<1>2. D = 1 .. n /\ n \in Nat \ {0} /\ \A s \in D : page.tops[s] \in Int
  BY <1>1 DEF Sections
<1>3. IsFiniteSet(D) /\ Cardinality(D) = n
  <2> HIDE DEF n
  <2>1. n - 1 + 1 = n /\ ~(1 > n) /\ n \in Int /\ 1 \in Int
    BY <1>2
  <2> QED BY <1>2, <2>1, FS_Interval
<1>4. Ordered(D, ByPlace(page))
  <2> HIDE DEF n, D
  <2>1. ByPlace(page) = {p \in D \X D : BeginsBefore(page, p[1], p[2])}
    BY DEF ByPlace, D
  <2>2. \A s \in D : s \in Int /\ page.tops[s] \in Int
    BY <1>2
  <2> QED BY <1>3, <2>1, <2>2 DEF Ordered, BeginsBefore
<1> QED BY <1>2, <1>3, <1>4

(* The k-th section is one, after k - 1 of them.                           *)
LEMMA SectionAt ==
  ASSUME NEW page \in Layouts, NEW k \in Sections(page)
  PROVE  /\ NthSection(page, k) \in Sections(page)
         /\ Cardinality(Earlier(Sections(page), ByPlace(page), NthSection(page, k))) = k - 1
<1> DEFINE D == Sections(page)
           n == Len(page.tops)
<1>1. \A s \in D : Earlier(D, ByPlace(page), s) = {r \in D : BeginsBefore(page, r, s)}
  BY DEF Earlier, ByPlace
<1>2. k \in 1 .. Cardinality(D)
  BY SectionsOrdered
<1>3. \E s \in D : Cardinality(Earlier(D, ByPlace(page), s)) = k - 1
  BY <1>2, SectionsOrdered, EachPlace
<1>4. \E s \in D : Cardinality({r \in D : BeginsBefore(page, r, s)}) = k - 1
  BY <1>1, <1>3
<1>5. /\ NthSection(page, k) \in D
      /\ Cardinality({r \in D : BeginsBefore(page, r, NthSection(page, k))}) = k - 1
  BY <1>4, Zenon DEF NthSection, Sections
<1> QED BY <1>1, <1>5

(* Every section is there once, in the order they begin.                   *)
SortedSections(page, found) ==
  /\ DOMAIN found = Sections(page) /\ Len(found) = Len(page.tops)
  /\ \A k \in Sections(page) : /\ found[k].target \in Sections(page)
                               /\ found[k].top = page.tops[found[k].target]
  /\ \A s \in Sections(page) : \E k \in Sections(page) : found[k].target = s
  /\ \A j, k \in Sections(page) :
       j < k => found[j].top <= found[k].top /\ found[j].target # found[k].target

(* What refresh() leaves is sorted.                                        *)
LEMMA OffsetsSorted ==
  ASSUME NEW page \in Layouts, NEW found, found = Offsets(page)
  PROVE  SortedSections(page, found)
<1> DEFINE D == Sections(page)
           n == Len(page.tops)
           R == ByPlace(page)
<1>1. /\ DOMAIN found = D
      /\ \A k \in D : found[k] = [top |-> page.tops[NthSection(page, k)], target |-> NthSection(page, k)]
  BY DEF Offsets, Sections
<1>2. Ordered(D, R) /\ D = 1 .. n /\ n \in Nat \ {0} /\ Cardinality(D) = n /\ \A s \in D : page.tops[s] \in Int
  BY SectionsOrdered
<1>3. Len(found) = n
  <2> HIDE DEF D, n
  <2>1. found = [k \in 1 .. n |-> found[k]]
    BY <1>1, <1>2 DEF Offsets, D, Sections
  <2> HIDE DEF D
  <2>2. \A k \in 1 .. n : found[k] \in {found[i] : i \in 1 .. n}
    OBVIOUS
  <2>3. found \in [1 .. n -> {found[i] : i \in 1 .. n}]
    BY <2>1, <2>2
  <2>4. found \in Seq({found[i] : i \in 1 .. n})
    BY <2>3, <1>2
  <2> QED BY <2>4, <2>1, <1>2
<1>4. \A k \in D : /\ found[k].target = NthSection(page, k) /\ found[k].target \in D
                   /\ found[k].top = page.tops[found[k].target]
                   /\ Cardinality(Earlier(D, R, found[k].target)) = k - 1
  BY <1>1, SectionAt
<1> HIDE DEF R
<1>5. ASSUME NEW s \in D
      PROVE  \E k \in D : found[k].target = s
  <2> DEFINE c == Cardinality(Earlier(D, R, s))
  <2>1. c \in 0 .. n - 1
    BY <1>2, EarlierCounts
  <2> HIDE DEF c
  <2>2. c + 1 \in D /\ (c + 1) - 1 = c
    BY <1>2, <2>1
  <2>3. Cardinality(Earlier(D, R, found[c + 1].target)) = c
    BY <1>4, <2>2
  <2> DEFINE t == found[c + 1].target
  <2>4. t \in D
    BY <1>4, <2>2
  <2>5. c <= c
    BY <2>1
  <2> HIDE DEF t
  <2>6. Cardinality(Earlier(D, R, t)) = c
    BY <2>3 DEF t
  <2>7. (t = s \/ <<t, s>> \in R) /\ (s = t \/ <<s, t>> \in R)
    BY <1>2, <2>4, <2>5, <2>6, OnePlace DEF c
  <2>8. ~(<<t, s>> \in R /\ <<s, t>> \in R)
    BY <1>2, <2>4 DEF Ordered
  <2>9. t = s
    BY <2>7, <2>8
  <2> QED BY <2>2, <2>9 DEF t
<1>6. ASSUME NEW j \in D, NEW k \in D, j < k
      PROVE  found[j].top <= found[k].top /\ found[j].target # found[k].target
  <2> DEFINE s == found[j].target
             t == found[k].target
  <2>1. s \in D /\ t \in D /\ found[j].top = page.tops[s] /\ found[k].top = page.tops[t]
    BY <1>4
  <2>2. Cardinality(Earlier(D, R, s)) = j - 1 /\ Cardinality(Earlier(D, R, t)) = k - 1
    BY <1>4
  <2>3. j \in Int /\ k \in Int
    BY <1>2
  <2> HIDE DEF s, t
  <2>4. s # t
    BY <2>2, <2>3, <1>6
  <2>5. Cardinality(Earlier(D, R, s)) <= Cardinality(Earlier(D, R, t))
    BY <2>2, <2>3, <1>6
  <2>6. <<s, t>> \in R
    BY <1>2, <2>1, <2>4, <2>5, OnePlace
  <2>7. BeginsBefore(page, s, t)
    BY <2>6 DEF R, ByPlace
  <2>8. page.tops[s] \in Int /\ page.tops[t] \in Int
    BY <1>2, <2>1
  <2>9. page.tops[s] <= page.tops[t]
    BY <2>7, <2>8 DEF BeginsBefore
  <2> QED BY <2>1, <2>4, <2>9 DEF s, t
<1> QED BY <1>1, <1>3, <1>4, <1>5, <1>6 DEF SortedSections

(* A mark is right for a page scrolled to a place: it is that of a section *)
(* the place is in, at the page's end of the last one.                     *)
MarkRight(page, at, mark) ==
  LET scrollTop == at + SpyOffset
      Top(s) == page.tops[s]
      sections == DOMAIN page.tops
      In(s) == Top(s) <= scrollTop /\ \A other \in sections : ~(Top(s) < Top(other) /\ Top(other) < scrollTop)
      last == {s \in sections : \A other \in sections : Top(other) <= Top(s)}
  IN CASE scrollTop >= page.maxScroll -> mark \in last
       [] scrollTop < page.maxScroll /\ (\A s \in sections : Top(s) > scrollTop) -> TRUE
       [] OTHER -> In(mark) \/ Cardinality({s \in sections : Top(s) <= 0}) > 1

(* The mark is right for what process() has looked at last.                *)
SpyInv ==
  /\ layout \in Layouts /\ position \in Int
  /\ activeTarget # 0 => links = SpyLinks(activeTarget)
  /\ processed.layout \in Layouts /\ processed.position \in Int
  /\ processed.offsets = Offsets(processed.layout) =>
       MarkRight(processed.layout, processed.position, activeTarget)

(* A section whose place among the offsets the position is in is one that  *)
(* the position is in, unless two sections begin at 0.                     *)
LEMMA PlaceIsSection ==
  ASSUME NEW page \in Layouts, NEW found, found = Offsets(page), NEW at \in Int,
         NEW i \in Sections(page), InSection(found, i, at)
  PROVE  \/ /\ page.tops[found[i].target] <= at
            /\ \A other \in Sections(page) :
                 ~(page.tops[found[i].target] < page.tops[other] /\ page.tops[other] < at)
         \/ Cardinality({s \in Sections(page) : page.tops[s] <= 0}) > 1
<1> DEFINE D == Sections(page)
           n == Len(page.tops)
           Top(s) == page.tops[s]
           mine == found[i].target
<1>1. /\ D = 1 .. n /\ n \in Nat \ {0} /\ IsFiniteSet(D) /\ \A s \in D : Top(s) \in Int
  BY SectionsOrdered DEF Ordered
<1>2. /\ Len(found) = n
      /\ \A k \in D : found[k].target \in D /\ found[k].top = Top(found[k].target)
      /\ \A s \in D : \E k \in D : found[k].target = s
      /\ \A j, k \in D : j < k => found[j].top <= found[k].top /\ found[j].target # found[k].target
  <2>1. SortedSections(page, found)
    BY OffsetsSorted
  <2> QED BY <2>1 DEF SortedSections
<1>0. i \in D
  OBVIOUS
<1> HIDE DEF D, n
<1>3. /\ at >= found[i].top
      /\ i = n \/ (i + 1 \in D /\ (found[i + 1].top = 0 \/ at <= found[i + 1].top))
  BY <1>1, <1>2 DEF InSection, D
<1>4. mine \in D /\ Top(mine) \in Int /\ found[i].top = Top(mine) /\ Top(mine) <= at
  BY <1>1, <1>2, <1>3 DEF D
<1>5. CASE \A other \in D : ~(Top(mine) < Top(other) /\ Top(other) < at)
  BY <1>4, <1>5 DEF D
<1>6. ASSUME NEW other \in D, Top(mine) < Top(other), Top(other) < at
      PROVE  Cardinality({s \in D : Top(s) <= 0}) > 1
  <2>1. PICK k \in D : found[k].target = other
    BY <1>2
  <2>2. k > i
    <3>1. k < i => found[k].top <= found[i].top
      BY <1>2 DEF D
    <3>2. found[k].top = Top(other) /\ k \in Int /\ i \in Int /\ Top(other) \in Int
      <4>1. found[k].top = Top(found[k].target)
        BY <1>2
      <4>2. found[k].top = Top(other)
        BY <2>1, <4>1
      <4>3. k \in Int /\ i \in Int
        BY <1>0, <1>1
      <4>4. Top(other) \in Int
        BY <1>1
      <4> QED BY <4>2, <4>3, <4>4
    <3>3. k # i
      BY <1>6, <1>4, <2>1
    <3> QED BY <1>6, <1>4, <3>1, <3>2, <3>3
  <2>3. i + 1 \in D /\ i + 1 <= k /\ (found[i + 1].top = 0 \/ at <= found[i + 1].top)
    BY <1>1, <1>3, <2>2 DEF D
  <2>4. found[i + 1].top <= Top(other)
    <3>1. i + 1 < k => found[i + 1].top <= found[k].top
      BY <1>2, <2>3
    <3>2. i + 1 = k \/ i + 1 < k
      BY <1>1, <2>3 DEF D
    <3>3. found[k].top = Top(other) /\ Top(other) \in Int
      BY <1>1, <1>2, <2>1
    <3> QED BY <3>1, <3>2, <3>3
  <2> DEFINE next == found[i + 1].target
  <2>5. next \in D /\ Top(next) = found[i + 1].top /\ Top(next) \in Int /\ Top(other) \in Int
    BY <1>1, <1>2, <2>3
  <2>6. Top(next) = 0
    BY <1>6, <2>3, <2>4, <2>5
  <2>7. next # mine /\ Top(mine) <= Top(next)
    <3>1. i < i + 1 /\ i \in D
      BY <1>1 DEF D
    <3> QED BY <1>2, <1>4, <2>3, <2>5, <3>1
  <2> HIDE DEF next, mine, Top
  <2> DEFINE low == {s \in D : Top(s) <= 0}
  <2>8. {next, mine} \in SUBSET low
    BY <1>4, <2>5, <2>6, <2>7
  <2>9. IsFiniteSet(low) /\ low \in SUBSET D
    BY <1>1, FS_Subset
  <2>10. Cardinality({next, mine}) = 2
    <3>1. IsFiniteSet({mine}) /\ Cardinality({mine}) = 1
      BY FS_Singleton
    <3>2. Cardinality({mine} \cup {next}) = 1 + 1
      BY <3>1, <2>7, FS_AddElement
    <3>3. {mine} \cup {next} = {next, mine}
      OBVIOUS
    <3> QED BY <3>2, <3>3
  <2>11. Cardinality({next, mine}) <= Cardinality(low) /\ Cardinality(low) \in Nat
    BY <2>8, <2>9, FS_Subset, FS_CardinalityType
  <2> HIDE DEF low
  <2>12. Cardinality(low) > 1
    BY <2>10, <2>11
  <2> QED BY <2>12 DEF low
<1> QED BY <1>5, <1>6 DEF D

(* What process() marks on a page whose offsets are as they are is right,  *)
(* whatever was marked before: if nothing new is marked, the section the   *)
(* position is in is the one marked already.                               *)
LEMMA TargetRight ==
  ASSUME NEW page \in Layouts, NEW at \in Int, NEW mark, NEW found, found = Offsets(page)
  PROVE  MarkRight(page, at, Target(page, found, at, mark))
<1> DEFINE D == Sections(page)
           n == Len(page.tops)
           Top(s) == page.tops[s]
           scrollTop == at + SpyOffset
           entered == {i \in DOMAIN found : found[i].target # mark /\ InSection(found, i, scrollTop)}
           target == Target(page, found, at, mark)
           In(s) == Top(s) <= scrollTop /\ \A other \in D : ~(Top(s) < Top(other) /\ Top(other) < scrollTop)
           twice == Cardinality({s \in D : Top(s) <= 0}) > 1
<1>1. /\ D = 1 .. n /\ n \in Nat \ {0} /\ \A s \in D : Top(s) \in Int
  BY SectionsOrdered
<1>2. /\ Len(found) = n /\ DOMAIN found = D
      /\ \A k \in D : found[k].target \in D /\ found[k].top = Top(found[k].target)
      /\ \A s \in D : \E k \in D : found[k].target = s
      /\ \A j, k \in D : j < k => found[j].top <= found[k].top
  <2>1. SortedSections(page, found)
    BY OffsetsSorted
  <2> QED BY <2>1 DEF SortedSections
<1>3. scrollTop \in Int /\ page.maxScroll \in Int
  BY LayoutsAssumption
<1>4. target = CASE scrollTop >= page.maxScroll -> found[n].target
                 [] scrollTop < page.maxScroll /\ entered # {} -> found[Min(entered)].target
                 [] OTHER -> mark
  BY <1>2, Zenon DEF Target
<1>5. \A i \in D : InSection(found, i, scrollTop) => In(found[i].target) \/ twice
  <2>1. ASSUME NEW i \in D, InSection(found, i, scrollTop)
        PROVE  In(found[i].target) \/ twice
    <3> DEFINE x == scrollTop
    <3>1. x \in Int /\ InSection(found, i, x)
      BY <1>3, <2>1
    <3> HIDE DEF x
    <3>2. \/ /\ page.tops[found[i].target] <= x
             /\ \A other \in Sections(page) :
                  ~(page.tops[found[i].target] < page.tops[other] /\ page.tops[other] < x)
          \/ Cardinality({s \in Sections(page) : page.tops[s] <= 0}) > 1
      BY <3>1, PlaceIsSection
    <3> QED BY <3>2 DEF x
  <2> QED BY <2>1
<1>6. MarkRight(page, at, target) <=>
        CASE scrollTop >= page.maxScroll -> target \in {s \in D : \A other \in D : Top(other) <= Top(s)}
          [] scrollTop < page.maxScroll /\ (\A s \in D : Top(s) > scrollTop) -> TRUE
          [] OTHER -> In(target) \/ twice
  BY Zenon DEF MarkRight, Sections
<1> DEFINE x == scrollTop
           m == page.maxScroll
           allLater == \A s \in D : Top(s) > scrollTop
           right == MarkRight(page, at, target)
           lasts == {s \in D : \A other \in D : Top(other) <= Top(s)}
<1>11. x \in Int /\ m \in Int
  BY <1>3
<1>12. target = CASE x >= m -> found[n].target
                  [] x < m /\ entered # {} -> found[Min(entered)].target
                  [] OTHER -> mark
  BY <1>4
<1>13. right <=> CASE x >= m -> target \in lasts
                   [] x < m /\ allLater -> TRUE
                   [] OTHER -> In(target) \/ twice
  BY <1>6
<1> HIDE DEF D, n, target, In, twice, entered, x, m, allLater, right, lasts
<1>14. /\ x >= m => target = found[n].target
       /\ x < m /\ entered # {} => target = found[Min(entered)].target
       /\ x < m /\ entered = {} => target = mark
  BY <1>11, <1>12
<1>15. /\ x >= m /\ target \in lasts => right
       /\ x < m /\ allLater => right
       /\ x < m /\ ~allLater /\ (In(target) \/ twice) => right
  BY <1>11, <1>13
<1>16. x >= m \/ x < m
  BY <1>11
<1>7. ASSUME x >= m
      PROVE  right
  <2>1. target = found[n].target /\ n \in D
    BY <1>1, <1>7, <1>14
  <2>2. ASSUME NEW other \in D
        PROVE  Top(other) <= Top(target)
    <3>1. PICK k \in D : found[k].target = other
      BY <1>2
    <3>2. k = n \/ k < n
      BY <1>1
    <3>3. found[k].top = Top(other) /\ found[n].top = Top(target)
      BY <1>2, <2>1, <3>1
    <3>4. k < n => found[k].top <= found[n].top
      BY <1>2, <2>1
    <3>5. Top(other) \in Int
      BY <1>1
    <3> QED BY <3>2, <3>3, <3>4, <3>5
  <2>3. target \in D
    BY <1>2, <2>1
  <2> QED BY <1>7, <1>15, <2>2, <2>3 DEF lasts
<1>8. ASSUME x < m, \E s \in D : Top(s) <= scrollTop
      PROVE  right
  <2>2. ~allLater
    BY <1>1, <1>3, <1>8 DEF allLater
  <2>3. In(target) \/ twice
    <3>1. CASE entered # {}
      <4>1. entered \in SUBSET Nat
        BY <1>1, <1>2 DEF entered
      <4>2. Min(entered) \in entered
        BY <3>1, <4>1, MinIs
      <4>3. Min(entered) \in D /\ InSection(found, Min(entered), scrollTop)
        BY <1>2, <4>2 DEF entered
      <4>4. target = found[Min(entered)].target
        BY <1>8, <1>14, <3>1
      <4> QED BY <1>5, <4>3, <4>4
    <3>2. CASE entered = {}
      <4> DEFINE below == {i \in 1 .. n : found[i].top <= scrollTop}
      <4>1. PICK s \in D : Top(s) <= scrollTop
        BY <1>8
      <4>2. PICK j \in D : found[j].target = s
        BY <1>2
      <4>3. found[j].top = Top(s)
        BY <1>2, <4>2
      <4>4. j \in below
        BY <1>1, <4>1, <4>3
      <4>5. PICK i \in below : \A k \in below : k <= i
        <5>1. below \in SUBSET (1 .. n) /\ below # {} /\ n \in Nat
          BY <1>1, <4>4
        <5> HIDE DEF below
        <5> QED BY <5>1, MaxIs
      <4>6. i \in D /\ found[i].top <= scrollTop
        BY <1>1
      <4>7. found[i].top \in Int
        BY <1>1, <1>2, <4>6
      <4>8. i = n \/ scrollTop <= found[i + 1].top
        <5>1. SUFFICES ASSUME i # n
                       PROVE  scrollTop <= found[i + 1].top
          OBVIOUS
        <5>2. i + 1 \in D /\ i + 1 \in 1 .. n
          BY <1>1, <5>1
        <5>3. found[i + 1].top \in Int
          BY <1>1, <1>2, <5>2
        <5>4. i + 1 \notin below
          BY <1>1, <4>5
        <5> QED BY <1>3, <5>2, <5>3, <5>4
      <4>9. InSection(found, i, scrollTop)
        BY <1>2, <1>3, <4>6, <4>7, <4>8 DEF InSection
      <4>10. found[i].target = mark
        BY <1>2, <3>2, <4>6, <4>9 DEF entered
      <4>11. target = mark
        BY <1>8, <1>14, <3>2
      <4> QED BY <1>5, <4>6, <4>9, <4>10, <4>11
    <3> QED BY <3>1, <3>2
  <2> QED BY <1>8, <1>15, <2>2, <2>3
<1>9. ASSUME x < m, \A s \in D : Top(s) > scrollTop
      PROVE  right
  BY <1>9, <1>15 DEF allLater
<1>10. \A s \in D : Top(s) > scrollTop \/ Top(s) <= scrollTop
  BY <1>1, <1>3
<1>17. right
  BY <1>7, <1>8, <1>9, <1>10, <1>16
<1> QED BY <1>17 DEF right, target

(* process() leaves a mark that is right for what it has looked at.        *)
LEMMA SpyKeepsMark ==
  ASSUME SpyInv, NEW page \in Layouts, NEW at \in Int, NEW found,
         layout' = page, position' = at, ProcessSpy(page, found, at)
  PROVE  SpyInv'
<1> DEFINE target == Target(page, found, at, activeTarget)
<1>1. /\ activeTarget' = target
      /\ links' = IF target = activeTarget THEN links ELSE SpyLinks(target)
      /\ processed' = [layout |-> page, offsets |-> found, position |-> at]
  BY DEF ProcessSpy
<1>2. processed'.layout = page /\ processed'.offsets = found /\ processed'.position = at
  BY <1>1
<1>3. found = Offsets(page) => MarkRight(page, at, target)
  BY TargetRight
<1> HIDE DEF target
<1>4. (activeTarget # 0 => links = SpyLinks(activeTarget))'
  BY <1>1 DEF SpyInv, SpyLinks
<1>5. processed'.offsets = Offsets(processed'.layout) =>
        MarkRight(processed'.layout, processed'.position, activeTarget')
  BY <1>1, <1>2, <1>3
<1>6. (processed.offsets = Offsets(processed.layout) =>
        MarkRight(processed.layout, processed.position, activeTarget))'
  BY <1>5
<1> QED BY <1>2, <1>4, <1>6 DEF SpyInv

(* ScrollSpy() leaves one.                                                 *)
LEMMA SpyStarts == SpyInit => SpyInv
<1> SUFFICES ASSUME SpyInit PROVE SpyInv
  OBVIOUS
<1>1. /\ layout \in Layouts /\ position \in Int
      /\ activeTarget = Target(layout, Offsets(layout), position, 0)
      /\ activeTarget # 0 => links = SpyLinks(activeTarget)
      /\ processed = [layout |-> layout, offsets |-> Offsets(layout), position |-> position]
  BY LayoutsAssumption DEF SpyInit
<1> DEFINE target == Target(layout, Offsets(layout), position, 0)
<1>2. MarkRight(layout, position, target)
  BY <1>1, TargetRight
<1> HIDE DEF target
<1>3. processed.layout = layout /\ processed.offsets = Offsets(layout) /\ processed.position = position
  BY <1>1
<1>4. activeTarget = target
  BY <1>1 DEF target
<1> QED BY <1>1, <1>2, <1>3, <1>4 DEF SpyInv

(* Nothing but process() marks a section, and refresh() looks up where the *)
(* sections of the page that is there begin.                               *)
LEMMA SpyKeeps ==
  ASSUME SpyInv, SpyNext \/ UNCHANGED spyVars
  PROVE  SpyInv'
<1>1. layout \in Layouts /\ position \in Int /\ \A page \in Layouts : page.maxScroll \in Nat
  BY LayoutsAssumption DEF SpyInv
<1>2. CASE Scroll
  <2>1. PICK at \in 0 .. layout.maxScroll : position' = at /\ ProcessSpy(layout, offsets, at)
    BY <1>2 DEF Scroll
  <2>2. at \in Int /\ layout' = layout
    BY <1>2, <2>1 DEF Scroll
  <2> QED BY <1>1, <2>1, <2>2, SpyKeepsMark
<1>3. CASE ChangeLayout
  <2>1. PICK page \in Layouts :
          /\ layout' = page
          /\ position' = Min({position, page.maxScroll})
          /\ IF position' # position THEN ProcessSpy(page, offsets, position')
             ELSE UNCHANGED <<activeTarget, links, processed>>
    BY <1>3 DEF ChangeLayout
  <2>2. position' \in Int
    <3> DEFINE T == {position, page.maxScroll}
    <3>1. \E m \in T : \A k \in T : m <= k
      BY <1>1
    <3> HIDE DEF T
    <3>2. Min(T) \in T
      BY <3>1, Zenon DEF Min
    <3> QED BY <1>1, <2>1, <3>2 DEF T
  <2>3. CASE position' # position
    <3> DEFINE at == position'
    <3>1. at \in Int /\ ProcessSpy(page, offsets, at) /\ position' = at
      BY <2>1, <2>2, <2>3
    <3> HIDE DEF at
    <3> QED BY <2>1, <3>1, SpyKeepsMark
  <2>4. CASE position' = position
    BY <2>1, <2>2, <2>4 DEF SpyInv
  <2> QED BY <2>3, <2>4
<1>4. CASE Refresh
  BY <1>4 DEF Refresh, SpyInv
<1>5. CASE CallProcess
  BY <1>1, <1>5, SpyKeepsMark DEF CallProcess
<1>6. CASE UNCHANGED spyVars
  BY <1>6 DEF spyVars, SpyInv
<1> QED BY <1>2, <1>3, <1>4, <1>5, <1>6 DEF SpyNext

(* So after a scroll of a page that is as refresh() has seen it the mark   *)
(* is right.                                                               *)
LEMMA SpyHolds ==
  ASSUME SpyInv
  PROVE  SpyMarksSection
<1>1. ASSUME processed = [layout |-> layout, offsets |-> Offsets(layout), position |-> position]
      PROVE  MarkRight(layout, position, activeTarget)
  <2>1. processed.layout = layout /\ processed.offsets = Offsets(layout) /\ processed.position = position
    BY <1>1
  <2> QED BY <2>1 DEF SpyInv
<1>2. activeTarget # 0 => links = SpyLinks(activeTarget)
  BY DEF SpyInv
<1> QED BY <1>1, <1>2, Zenon DEF SpyMarksSection, MarkRight

-----------------------------------------------------------------------------
(* A page with any one of the widgets.                                     *)

(* Every widget is as it should be, the ones the page has not as well.     *)
WidgetsInv ==
  /\ CollapseInv /\ CarouselInv /\ ModalInv /\ TooltipInv /\ TabInv
  /\ TypeaheadInv /\ AlertInv /\ ButtonInv /\ OneOpen /\ SpyInv

(* Each widget starts with its invariant.                                  *)
LEMMA WidgetsStart == WidgetsInit => WidgetsInv
<1> SUFFICES ASSUME WidgetsInit
             PROVE  WidgetsInv
  OBVIOUS
<1>1. /\ CollapseInit /\ CarouselInit /\ ModalInit /\ TooltipInit /\ TabInit
      /\ TypeaheadInit /\ AlertInit /\ ButtonInit /\ DropdownInit /\ SpyInit
  BY DEF WidgetsInit
<1>2. CollapseInv /\ CarouselInv /\ ModalInv /\ TooltipInv /\ TabInv
  BY <1>1, CollapseStarts, CarouselStarts, ModalStarts, TooltipStarts, TabStarts
<1>3. TypeaheadInv /\ AlertInv /\ ButtonInv /\ OneOpen /\ SpyInv
  BY <1>1, TypeaheadStarts, AlertStarts, ButtonStarts, DropdownStarts, SpyStarts
<1> QED BY <1>2, <1>3 DEF WidgetsInv

(* A step is one of the widget the page has, and leaves the others alone.  *)
LEMMA WidgetsKeep ==
  ASSUME WidgetsInv, [WidgetsNext]_widgetVars
  PROVE  WidgetsInv'
<1>1. /\ CollapseNext \/ UNCHANGED collapseVars
      /\ CarouselNext \/ UNCHANGED carouselVars
      /\ ModalNext \/ UNCHANGED modalVars
      /\ TooltipNext \/ UNCHANGED tooltipVars
      /\ TabNext \/ UNCHANGED tabVars
      /\ TypeaheadNext \/ UNCHANGED typeaheadVars
      /\ AlertNext \/ UNCHANGED alertVars
      /\ ButtonNext \/ UNCHANGED buttonVars
      /\ DropdownNext \/ UNCHANGED dropdownVars
      /\ SpyNext \/ UNCHANGED spyVars
  BY DEF WidgetsNext, widgetVars
<1>2. CollapseInv' /\ CarouselInv' /\ ModalInv' /\ TooltipInv' /\ TabInv'
  <2>1. CollapseInv /\ CarouselInv /\ ModalInv /\ TooltipInv /\ TabInv
    BY DEF WidgetsInv
  <2>2. CollapseInv'
    BY <1>1, <2>1, CollapseKeeps
  <2>3. CarouselInv'
    BY <1>1, <2>1, CarouselKeeps
  <2>4. ModalInv'
    BY <1>1, <2>1, ModalKeeps
  <2>5. TooltipInv'
    BY <1>1, <2>1, TooltipKeeps
  <2>6. TabInv'
    BY <1>1, <2>1, TabKeeps
  <2> QED BY <2>2, <2>3, <2>4, <2>5, <2>6
<1>3. TypeaheadInv' /\ AlertInv' /\ ButtonInv' /\ OneOpen' /\ SpyInv'
  <2>1. TypeaheadInv /\ AlertInv /\ ButtonInv /\ OneOpen /\ SpyInv
    BY DEF WidgetsInv
  <2>2. TypeaheadInv'
    BY <1>1, <2>1, TypeaheadKeeps
  <2>3. AlertInv'
    BY <1>1, <2>1, AlertKeeps
  <2>4. ButtonInv'
    BY <1>1, <2>1, ButtonKeeps
  <2>5. OneOpen'
    BY <1>1, <2>1, DropdownKeeps
  <2>6. SpyInv'
    BY <1>1, <2>1, SpyKeeps
  <2> QED BY <2>2, <2>3, <2>4, <2>5, <2>6
<1> QED BY <1>2, <1>3 DEF WidgetsInv

(* The invariant of all the widgets holds in every state of a page.        *)
LEMMA WidgetsAlways == WidgetsSpec => []WidgetsInv
<1>1. WidgetsInit => WidgetsInv
  BY WidgetsStart
<1>2. WidgetsInv /\ [WidgetsNext]_widgetVars => WidgetsInv'
  BY WidgetsKeep
<1> QED BY <1>1, <1>2, PTL DEF WidgetsSpec

(* Of the groups of an accordion, the items of a carousel, the tabs of a   *)
(* list with their panes and the menus of a page, one is shown, however    *)
(* many there are and whatever order clicks, timers and transitions have.  *)
THEOREM OneShownAlways == WidgetsSpec => []OneShown
<1>1. WidgetsInv => OneShown
  BY CollapseHolds, CarouselHolds, TabHolds, DropdownHolds DEF WidgetsInv, OneShown
<1> QED BY <1>1, WidgetsAlways, PTL

(* What moves or waits comes to rest as it should: groups at their height, *)
(* a carousel with one timer at most, alerts gone, buttons as asked.       *)
THEOREM SettledAlways == WidgetsSpec => []Settled
<1>1. WidgetsInv => Settled
  BY CollapseHolds, CarouselHolds, AlertHolds, ButtonHolds DEF WidgetsInv, Settled
<1> QED BY <1>1, WidgetsAlways, PTL

(* Once nothing moves and no delay runs, a page shows what was asked for   *)
(* last, and the tip that was destroyed while a delay ran to show it; a    *)
(* menu lists what matches, and a list marks where the page is.            *)
THEOREM ShownAsAskedAlways == WidgetsSpec => []ShownAsAsked
<1>1. WidgetsInv => ShownAsAsked
  BY CarouselHolds, ModalHolds, TooltipHolds, TypeaheadHolds, SpyHolds DEF WidgetsInv, ShownAsAsked
<1> QED BY <1>1, WidgetsAlways, PTL

-----------------------------------------------------------------------------
(* Cookies: a table finds the state it made last or none, and what is      *)
(* given up for a state is old enough.                                     *)

(* What is left of the cookies after the first m of the states that may be *)
(* given up for another.                                                   *)
LeftAfter(f, cookies, path, size) ==
  LET n == Cardinality(SentStates(cookies, path))
      list == OldCookies(cookies, path)
  IN /\ f[0] = cookies /\ f[n] = GivenUp(cookies, path, size)
     /\ \A m \in 1 .. n :
          f[m] = IF Fits(f[m - 1], path, size) THEN f[m - 1] ELSE Delete(f[m - 1], list[m].name, path)

(* States are given up one after another, while there are too many.        *)
LEMMA GivenUpRuns ==
  ASSUME NEW cookies, IsFiniteSet(cookies), NEW path, NEW size
  PROVE  \E f : LeftAfter(f, cookies, path, size)
<1> DEFINE n == Cardinality(SentStates(cookies, path))
           list == OldCookies(cookies, path)
           A == SUBSET cookies
           GiveUp(left, m) == IF Fits(left, path, size) THEN left ELSE Delete(left, list[m].name, path)
           step == [x \in A \X (1 .. n) |-> GiveUp(x[1], x[2])]
           Step(h) == [T \in SUBSET (1 .. n) |->
                         IF T = {} THEN cookies ELSE GiveUp(h[T \ {Max(T)}], Max(T))]
           it == CHOOSE h : h = Step(h)
<1>1. n \in Nat /\ DOMAIN list = 1 .. n
  <2>1. SentStates(cookies, path) \in SUBSET cookies
    BY DEF SentStates, Sent
  <2>2. n \in Nat
    BY <2>1, FS_Subset, FS_CardinalityType
  <2> QED BY <2>2 DEF OldCookies
<1>2. \A left \in A : \A m : GiveUp(left, m) \in A
  BY DEF Delete
<1>3. \A left \in A : \A m \in 1 .. n : step[<<left, m>>] = GiveUp(left, m)
  OBVIOUS
<1>4. \E h : h = Step(h)
  <2>1. PICK h : h = FoldSteps(h, cookies, step, n)
    BY <1>1, FoldExists
  <2> HIDE DEF step, GiveUp, A
  <2>2. \A T \in SUBSET (1 .. n) :
          h[T] = IF T = {} THEN cookies ELSE step[<<h[T \ {Max(T)}], Max(T)>>]
    BY <2>1 DEF FoldSteps
  <2>3. \A T \in SUBSET (1 .. n) : T # {} => Max(T) \in 1 .. n /\ T \ {Max(T)} \in SUBSET (1 .. n)
    <3> SUFFICES ASSUME NEW T \in SUBSET (1 .. n), T # {}
                 PROVE  Max(T) \in T
      OBVIOUS
    <3> QED BY <1>1, MaxIs
  <2>4. \A T \in SUBSET (1 .. n) : h[T] \in A
    <3>1. h[{}] \in A
      <4>1. {} \in SUBSET (1 .. n)
        OBVIOUS
      <4> QED BY <2>2, <4>1 DEF A
    <3>2. \A T \in SUBSET (1 .. n) : T # {} /\ h[T \ {Max(T)}] \in A => h[T] \in A
      <4> SUFFICES ASSUME NEW T \in SUBSET (1 .. n), T # {}, h[T \ {Max(T)}] \in A
                   PROVE  h[T] \in A
        BY Zenon
      <4>1. h[T] = step[<<h[T \ {Max(T)}], Max(T)>>]
        BY <2>2
      <4>2. Max(T) \in 1 .. n
        BY <2>3
      <4> QED BY <1>2, <1>3, <4>1, <4>2
    <3> QED BY <1>1, <3>1, <3>2, AllStay
  <2>5. \A T \in SUBSET (1 .. n) :
          h[T] = IF T = {} THEN cookies ELSE GiveUp(h[T \ {Max(T)}], Max(T))
    BY <1>3, <2>2, <2>3, <2>4
  <2>6. h = [T \in SUBSET (1 .. n) |-> h[T]]
    BY <2>1 DEF FoldSteps
  <2>7. h = Step(h)
    BY <2>5, <2>6
  <2> QED BY <2>7
<1>5. it = Step(it)
  <2> HIDE DEF Step
  <2> QED BY <1>4
<1>6. GivenUp(cookies, path, size) = it[1 .. n]
  <2>1. DOMAIN OldCookies(cookies, path) = 1 .. n
    BY <1>1
  <2> QED BY <2>1 DEF GivenUp, FoldLeft, MapThenFoldSet
<1> HIDE DEF it
<1>7. /\ it[1 .. 0] = cookies
      /\ \A m \in 1 .. n : it[1 .. m] = GiveUp(it[1 .. m - 1], m)
  <2> HIDE DEF GiveUp
  <2>1. it[1 .. 0] = cookies
    <3>1. 1 .. 0 = {} /\ {} \in SUBSET (1 .. n)
      OBVIOUS
    <3> QED BY <1>5, <3>1
  <2>2. ASSUME NEW m \in 1 .. n
        PROVE  it[1 .. m] = GiveUp(it[1 .. m - 1], m)
    <3>1. Max(1 .. m) = m /\ 1 .. m \in SUBSET (1 .. n) /\ 1 .. m # {} /\ (1 .. m) \ {m} = 1 .. m - 1
      BY <1>1, LastIs
    <3>2. it[1 .. m] = GiveUp(it[(1 .. m) \ {Max(1 .. m)}], Max(1 .. m))
      BY <1>5, <3>1
    <3> QED BY <3>1, <3>2
  <2> QED BY <2>1, <2>2
<1> DEFINE f == [m \in 0 .. n |-> it[1 .. m]]
<1>8. /\ f[0] = cookies /\ f[n] = it[1 .. n]
      /\ \A m \in 1 .. n : f[m] = it[1 .. m] /\ f[m - 1] = it[1 .. m - 1]
  BY <1>1, <1>7
<1> HIDE DEF f, it
<1>9. \A m \in 1 .. n : f[m] = GiveUp(f[m - 1], m)
  BY <1>7, <1>8
<1>10. LeftAfter(f, cookies, path, size)
  BY <1>6, <1>8, <1>9 DEF LeftAfter
<1> QED BY <1>10

(* Whether states are those in a list, the oldest first.                   *)
ListsStates(list, states) ==
  LET n == Cardinality(states)
  IN /\ \A k \in 1 .. n : list[k] \in states
     /\ \A c \in states : \E k \in 1 .. n : list[k] = c
     /\ \A j, k \in 1 .. n : j < k => Older(list[j], list[k])

(* The states a page sees are sorted when no two were made at one time.    *)
LEMMA OldCookiesSorted ==
  ASSUME NEW cookies, IsFiniteSet(cookies), NEW path,
         \A c \in SentStates(cookies, path) : c.time \in Nat,
         \A c, d \in SentStates(cookies, path) : c.time = d.time => c = d
  PROVE  ListsStates(OldCookies(cookies, path), SentStates(cookies, path))
<1> DEFINE S == SentStates(cookies, path)
           n == Cardinality(S)
           R == {p \in S \X S : Older(p[1], p[2])}
           list == OldCookies(cookies, path)
<1>1. IsFiniteSet(S) /\ n \in Nat
  <2>1. S \in SUBSET cookies
    BY DEF SentStates, Sent
  <2> QED BY <2>1, FS_Subset, FS_CardinalityType
<1>2. \A k \in 1 .. n : list[k] = CHOOSE c \in S : Cardinality({d \in S : Older(d, c)}) = k - 1
  BY Zenon DEF OldCookies
<1>3. /\ \A c, d \in S : <<c, d>> \in R <=> c.time < d.time
      /\ \A c \in S : c.time \in Int
      /\ \A c, d \in S : c.time = d.time => c = d
  BY DEF Older
<1>4. \A c \in S : Earlier(S, R, c) = {d \in S : Older(d, c)}
  BY DEF Earlier
<1> HIDE DEF S, R, n, list
<1>5. Ordered(S, R)
  BY <1>1, <1>3 DEF Ordered
<1>6. ASSUME NEW k \in 1 .. n
      PROVE  list[k] \in S /\ Cardinality(Earlier(S, R, list[k])) = k - 1
  <2>1. \E c \in S : Cardinality(Earlier(S, R, c)) = k - 1
    BY <1>5, EachPlace DEF n
  <2>2. \E c \in S : Cardinality({d \in S : Older(d, c)}) = k - 1
    BY <1>4, <2>1
  <2>3. list[k] \in S /\ Cardinality({d \in S : Older(d, list[k])}) = k - 1
    BY <1>2, <2>2, Zenon
  <2> QED BY <1>4, <2>3
<1>7. ASSUME NEW c \in S
      PROVE  \E k \in 1 .. n : list[k] = c
  <2> DEFINE m == Cardinality(Earlier(S, R, c))
  <2>1. m \in 0 .. n - 1
    BY <1>5, EarlierCounts DEF n
  <2> HIDE DEF m
  <2>2. m + 1 \in 1 .. n /\ (m + 1) - 1 = m /\ m <= m
    BY <1>1, <2>1
  <2> DEFINE d == list[m + 1]
  <2>3. d \in S /\ Cardinality(Earlier(S, R, d)) = m
    BY <1>6, <2>2
  <2> HIDE DEF d
  <2>4. (d = c \/ <<d, c>> \in R) /\ (c = d \/ <<c, d>> \in R)
    BY <1>5, <2>2, <2>3, OnePlace DEF m
  <2>5. d = c
    BY <1>5, <2>3, <2>4 DEF Ordered
  <2> QED BY <2>2, <2>5 DEF d
<1>8. ASSUME NEW j \in 1 .. n, NEW k \in 1 .. n, j < k
      PROVE  Older(list[j], list[k])
  <2> DEFINE c == list[j]
             d == list[k]
  <2>1. c \in S /\ d \in S /\ Cardinality(Earlier(S, R, c)) = j - 1 /\ Cardinality(Earlier(S, R, d)) = k - 1
    BY <1>6
  <2> HIDE DEF c, d
  <2>2. j \in Int /\ k \in Int
    BY <1>1
  <2>3. c # d /\ Cardinality(Earlier(S, R, c)) <= Cardinality(Earlier(S, R, d))
    BY <1>8, <2>1, <2>2
  <2>4. <<c, d>> \in R
    BY <1>5, <2>1, <2>3, OnePlace
  <2>5. Older(c, d)
    BY <1>3, <2>1, <2>4 DEF Older
  <2> QED BY <2>5 DEF c, d
<1>9. ListsStates(list, S)
  BY <1>6, <1>7, <1>8 DEF ListsStates, n
<1> QED BY <1>9 DEF list, S

(* The bytes of cookies, one by one.                                       *)
Bytes(cookies) == {u \in cookies \X Nat : u[2] \in 1 .. u[1].size}

(* What one more cookie adds to them.                                      *)
LEMMA BytesOfOneMore ==
  ASSUME NEW S, NEW c \in S, c.size \in Nat, IsFiniteSet(Bytes(S \ {c}))
  PROVE  /\ IsFiniteSet(Bytes(S))
         /\ Cardinality(Bytes(S)) = c.size + Cardinality(Bytes(S \ {c}))
<1> DEFINE one == {c} \X (1 .. c.size)
           f == [i \in 1 .. c.size |-> <<c, i>>]
           B == Bytes(S \ {c})
           N == 1 .. c.size
<1>1. Bytes(S) = one \cup B /\ one \cap B = {}
  BY DEF Bytes
<1>2. IsFiniteSet(N) /\ Cardinality(N) = c.size
  BY FS_Interval
<1>3. IsFiniteSet(one) /\ Cardinality(one) = c.size
  <2>1. f \in [N -> one] /\ (\A i, j \in N : f[i] = f[j] => i = j) /\ \A u \in one : \E i \in N : f[i] = u
    OBVIOUS
  <2> HIDE DEF f, one, N
  <2>2. f \in Bijection(N, one)
    BY <2>1 DEF Bijection, Injection, Surjection, IsInjective
  <2>3. ExistsBijection(N, one)
    BY <2>2 DEF ExistsBijection
  <2> QED BY <1>2, <2>3, FS_Bijection
<1> HIDE DEF one, B
<1>4. /\ IsFiniteSet(one \cup B)
      /\ Cardinality(one \cup B) = Cardinality(one) + Cardinality(B) - Cardinality(one \cap B)
  BY <1>3, FS_Union DEF B
<1>5. Cardinality(one \cap B) = 0
  BY <1>1, FS_EmptySet
<1>6. Cardinality(B) \in Nat
  BY FS_CardinalityType DEF B
<1> QED BY <1>1, <1>3, <1>4, <1>5, <1>6 DEF B

(* What holds of the empty set, and of a finite set when it holds of the   *)
(* set without any one of its elements, holds of every finite set.         *)
LEMMA OneMore ==
  ASSUME NEW S, IsFiniteSet(S), NEW U, {} \in U,
         \A T \in SUBSET S : T # {} /\ (\A x \in T : T \ {x} \in U) => T \in U
  PROVE  \A T \in SUBSET S : T \in U
<1> DEFINE V == {m \in Nat : \E T \in SUBSET S : T \notin U /\ Cardinality(T) = m}
<1>1. \A T \in SUBSET S : IsFiniteSet(T) /\ Cardinality(T) \in Nat
  BY FS_Subset, FS_CardinalityType
<1> SUFFICES ASSUME V # {}
             PROVE  FALSE
  BY <1>1
<1>2. PICK m \in V : \A k \in V : m <= k
  <2>1. V \in SUBSET Nat
    OBVIOUS
  <2> HIDE DEF V
  <2> QED BY <2>1, Least
<1>3. PICK T \in SUBSET S : T \notin U /\ Cardinality(T) = m
  BY <1>2
<1>4. ASSUME NEW x \in T
      PROVE  T \ {x} \in U
  <2>1. Cardinality(T \ {x}) = m - 1
    BY <1>1, <1>3, FS_RemoveElement
  <2>2. T \ {x} \in SUBSET S /\ m \in Nat
    BY <1>2
  <2>3. m - 1 \in Nat /\ ~(m <= m - 1)
    BY <1>1, <2>1, <2>2
  <2>4. m - 1 \notin V
    <3> HIDE DEF V
    <3> QED BY <1>2, <2>3
  <2> QED BY <2>1, <2>2, <2>3, <2>4
<1> QED BY <1>3, <1>4

(* The length of cookies is the number of their bytes.                     *)
LEMMA LengthIs ==
  ASSUME NEW cookies, IsFiniteSet(cookies), \A c \in cookies : c.size \in Nat
  PROVE  IsFiniteSet(Bytes(cookies)) /\ Length(cookies) = Cardinality(Bytes(cookies))
<1> DEFINE U == {T \in SUBSET cookies : IsFiniteSet(Bytes(T))}
           Step(h) == [T \in SUBSET cookies |->
                         IF T = {} THEN 0
                         ELSE (CHOOSE x \in T : TRUE).size + h[T \ {CHOOSE x \in T : TRUE}]]
           it == CHOOSE h : h = Step(h)
           b == [T \in SUBSET cookies |-> Cardinality(Bytes(T))]
<1>1. IsFiniteSet(Bytes({})) /\ Cardinality(Bytes({})) = 0
  <2>1. Bytes({}) = {}
    BY DEF Bytes
  <2> QED BY <2>1, FS_EmptySet
<1>2. \A T \in SUBSET cookies : IsFiniteSet(Bytes(T))
  <2>1. {} \in U
    BY <1>1
  <2>2. \A T \in SUBSET cookies : T # {} /\ (\A x \in T : T \ {x} \in U) => T \in U
    <3> SUFFICES ASSUME NEW T \in SUBSET cookies, T # {}, \A x \in T : T \ {x} \in U
                 PROVE  IsFiniteSet(Bytes(T))
      OBVIOUS
    <3>1. PICK x \in T : TRUE
      OBVIOUS
    <3>2. IsFiniteSet(Bytes(T \ {x})) /\ x.size \in Nat
      OBVIOUS
    <3> QED BY <3>2, BytesOfOneMore
  <2> HIDE DEF U
  <2>3. \A T \in SUBSET cookies : T \in U
    BY <2>1, <2>2, OneMore
  <2> QED BY <2>3 DEF U
<1>3. ASSUME NEW T \in SUBSET cookies, T # {}
      PROVE  LET x == CHOOSE x \in T : TRUE
             IN  x \in T /\ T \ {x} \in SUBSET cookies /\ b[T] = x.size + b[T \ {x}]
  <2> DEFINE x == CHOOSE x \in T : TRUE
  <2>1. x \in T
    BY <1>3
  <2> HIDE DEF x
  <2>2. T \ {x} \in SUBSET cookies
    OBVIOUS
  <2>3. IsFiniteSet(Bytes(T \ {x})) /\ x.size \in Nat
    BY <1>2, <2>1, <2>2
  <2>4. Cardinality(Bytes(T)) = x.size + Cardinality(Bytes(T \ {x}))
    BY <2>1, <2>3, BytesOfOneMore
  <2>5. b[T] = x.size + b[T \ {x}]
    BY <2>2, <2>4
  <2> HIDE DEF b
  <2> QED BY <2>1, <2>2, <2>5 DEF x
<1>4. b = Step(b)
  <2>1. b[{}] = 0
    BY <1>1
  <2>2. \A T \in SUBSET cookies :
          b[T] = IF T = {} THEN 0 ELSE (CHOOSE x \in T : TRUE).size + b[T \ {CHOOSE x \in T : TRUE}]
    <3> HIDE DEF b
    <3> QED BY <1>3, <2>1
  <2>3. b = [T \in SUBSET cookies |-> b[T]]
    OBVIOUS
  <2> HIDE DEF b
  <2> QED BY <2>2, <2>3, Zenon
<1>5. it = Step(it)
  <2> HIDE DEF Step
  <2> QED BY <1>4
<1>6. Length(cookies) = it[cookies]
  BY Zenon DEF Length, FoldSet, MapThenFoldSet
<1>7. cookies \in {T \in SUBSET cookies : it[T] = b[T]}
  <2> DEFINE W == {T \in SUBSET cookies : it[T] = b[T]}
  <2>1. {} \in W
    <3>1. it[{}] = 0
      BY <1>5
    <3> QED BY <1>1, <3>1
  <2>2. \A T \in SUBSET cookies : T # {} /\ (\A x \in T : T \ {x} \in W) => T \in W
    <3> HIDE DEF it, b
    <3> SUFFICES ASSUME NEW T \in SUBSET cookies, T # {}, \A x \in T : T \ {x} \in W
                 PROVE  it[T] = b[T]
      OBVIOUS
    <3> DEFINE x == CHOOSE x \in T : TRUE
    <3>1. x \in T /\ b[T] = x.size + b[T \ {x}]
      BY <1>3, Zenon
    <3>2. it[T] = x.size + it[T \ {x}]
      BY <1>5
    <3> HIDE DEF x
    <3> QED BY <3>1, <3>2
  <2> HIDE DEF W
  <2>3. \A T \in SUBSET cookies : T \in W
    BY <2>1, <2>2, OneMore
  <2>4. cookies \in W
    BY <2>3
  <2> QED BY <2>4 DEF W
<1>8. b[cookies] = Cardinality(Bytes(cookies))
  OBVIOUS
<1> HIDE DEF b, it
<1> QED BY <1>2, <1>6, <1>7, <1>8

(* Fewer cookies are no longer, and one more adds its size at most.        *)
LEMMA LengthsAdd ==
  ASSUME NEW cookies, IsFiniteSet(cookies), \A c \in cookies : c.size \in Nat
  PROVE  /\ Length(cookies) \in Nat
         /\ \A some \in SUBSET cookies : Length(some) <= Length(cookies)
         /\ \A c \in cookies : Length(cookies) = c.size + Length(cookies \ {c})
<1>1. \A some \in SUBSET cookies : IsFiniteSet(some) /\ \A c \in some : c.size \in Nat
  BY FS_Subset
<1>2. \A some \in SUBSET cookies : IsFiniteSet(Bytes(some)) /\ Length(some) = Cardinality(Bytes(some))
  BY <1>1, LengthIs
<1>3. IsFiniteSet(Bytes(cookies)) /\ Length(cookies) = Cardinality(Bytes(cookies))
  BY LengthIs
<1>4. Length(cookies) \in Nat
  BY <1>3, FS_CardinalityType
<1>5. ASSUME NEW some \in SUBSET cookies
      PROVE  Length(some) <= Length(cookies)
  <2>1. Bytes(some) \in SUBSET Bytes(cookies)
    BY DEF Bytes
  <2>2. Cardinality(Bytes(some)) <= Cardinality(Bytes(cookies))
    BY <1>3, <2>1, FS_Subset
  <2> QED BY <1>2, <1>3, <2>2
<1>6. ASSUME NEW c \in cookies
      PROVE  Length(cookies) = c.size + Length(cookies \ {c})
  <2>1. cookies \ {c} \in SUBSET cookies
    OBVIOUS
  <2>2. IsFiniteSet(Bytes(cookies \ {c})) /\ Length(cookies \ {c}) = Cardinality(Bytes(cookies \ {c}))
    BY <1>2, <2>1
  <2>3. Cardinality(Bytes(cookies)) = c.size + Cardinality(Bytes(cookies \ {c}))
    BY <2>2, BytesOfOneMore
  <2> QED BY <1>3, <2>2, <2>3
<1> QED BY <1>4, <1>5, <1>6

(* Giving up does not go on while there are fewer cookies than fitted.     *)
LEMMA FewerFit ==
  ASSUME NEW cookies, IsFiniteSet(cookies), \A c \in cookies : c.size \in Nat,
         NEW some \in SUBSET cookies, NEW path, NEW size \in Nat,
         Fits(cookies, path, size)
  PROVE  Fits(some, path, size)
<1> DEFINE A == Sent(cookies, path)
           B == Sent(some, path)
<1>1. A \in SUBSET cookies /\ B \in SUBSET A
  BY DEF Sent
<1>2. Fits(cookies, path, size) <=> size + Length(A) + Padding <= CookieLimit
  BY DEF Fits
<1>3. Fits(some, path, size) <=> size + Length(B) + Padding <= CookieLimit
  BY DEF Fits
<1> HIDE DEF A, B
<1>4. IsFiniteSet(A) /\ \A c \in A : c.size \in Nat
  BY <1>1, FS_Subset
<1>5. IsFiniteSet(B) /\ \A c \in B : c.size \in Nat
  BY <1>1, <1>4, FS_Subset
<1>6. Length(A) \in Nat /\ Length(B) \in Nat /\ Length(B) <= Length(A)
  BY <1>1, <1>4, <1>5, LengthsAdd
<1>7. Padding \in Nat /\ CookieLimit \in Nat
  BY CookiesAssumption
<1> QED BY <1>2, <1>3, <1>6, <1>7

(* What is given up has the path of the page and the name of a state that  *)
(* the page sees, older than all those of its path that are left; and      *)
(* there are none left if another state does not fit even then.            *)
LEMMA GivenUpDoes ==
  ASSUME NEW cookies, IsFiniteSet(cookies), \A c \in cookies : c.size \in Nat,
         NEW path, NEW size \in Nat, NEW states, states = SentStates(cookies, path),
         \A c \in states : c.time \in Nat,
         \A c, d \in states : c.time = d.time => c = d,
         NEW left, left = GivenUp(cookies, path, size)
  PROVE  /\ left \in SUBSET cookies
         /\ \A c \in cookies \ left :
              \E old \in states :
                /\ c.name = old.name /\ c.path = path
                /\ \A d \in left : d \in states /\ d.path = path => Older(old, d)
         /\ ~Fits(left, path, size) => \A d \in left : ~(d \in states /\ d.path = path)
<1> DEFINE n == Cardinality(states)
           list == OldCookies(cookies, path)
<1>1. PICK f : LeftAfter(f, cookies, path, size)
  BY GivenUpRuns
<1>2. ListsStates(list, states)
  <2>1. /\ \A c \in SentStates(cookies, path) : c.time \in Nat
        /\ \A c, d \in SentStates(cookies, path) : c.time = d.time => c = d
    OBVIOUS
  <2> HIDE DEF list
  <2>2. ListsStates(OldCookies(cookies, path), SentStates(cookies, path))
    BY <2>1, OldCookiesSorted, Zenon
  <2> QED BY <2>2, Zenon DEF list
<1>3. n \in Nat
  <2>1. states \in SUBSET cookies
    BY DEF SentStates, Sent
  <2> QED BY <2>1, FS_Subset, FS_CardinalityType
<1>4. /\ f[0] = cookies /\ f[n] = left
      /\ \A m \in 1 .. n : f[m] = IF Fits(f[m - 1], path, size) THEN f[m - 1]
                                  ELSE Delete(f[m - 1], list[m].name, path)
  BY <1>1 DEF LeftAfter
<1> HIDE DEF list, n
<1>5. \A m \in 1 .. n : f[m] \in SUBSET f[m - 1]
  <2> SUFFICES ASSUME NEW m \in 1 .. n
               PROVE  f[m] \in SUBSET f[m - 1]
    OBVIOUS
  <2>1. Delete(f[m - 1], list[m].name, path) \in SUBSET f[m - 1]
    BY DEF Delete
  <2> QED BY <1>4, <2>1
<1>6. \A k \in 0 .. n : \A j \in 0 .. k : f[k] \in SUBSET f[j]
  <2> SUFFICES ASSUME NEW k \in 0 .. n
               PROVE  \A j \in 0 .. k : f[k] \in SUBSET f[j]
    OBVIOUS
  <2> DEFINE U == {m \in 0 .. n : \A j \in 0 .. m : f[m] \in SUBSET f[j]}
  <2>1. 0 \in U
    <3>1. \A j \in 0 .. 0 : j = 0
      OBVIOUS
    <3> QED BY <1>3, <3>1
  <2>2. ASSUME NEW m \in 1 .. k, m - 1 \in U
        PROVE  m \in U
    <3>1. m \in 1 .. n /\ m \in 0 .. n
      BY <1>3
    <3>2. f[m] \in SUBSET f[m - 1]
      BY <1>5, <3>1
    <3>3. \A j \in 0 .. m : j = m \/ j \in 0 .. m - 1
      BY <3>1
    <3> QED BY <2>2, <3>1, <3>2, <3>3
  <2> HIDE DEF U
  <2>3. k \in U
    BY <2>1, <2>2, Climb
  <2> QED BY <2>3 DEF U
<1>7. left \in SUBSET cookies
  <2>1. n \in 0 .. n /\ 0 \in 0 .. n
    BY <1>3
  <2>2. f[n] \in SUBSET f[0]
    BY <1>6, <2>1
  <2> QED BY <1>4, <2>2
<1>8. \A k \in 0 .. n : f[k] \in SUBSET cookies /\ IsFiniteSet(f[k]) /\ \A e \in f[k] : e.size \in Nat
  <2> SUFFICES ASSUME NEW k \in 0 .. n
               PROVE  f[k] \in SUBSET cookies
    BY FS_Subset
  <2>1. 0 \in 0 .. k
    BY <1>3
  <2> QED BY <1>4, <1>6, <2>1
<1>9. ASSUME NEW d \in left, d \in states, d.path = path, NEW i \in 1 .. n, list[i] = d
      PROVE  Fits(f[i - 1], path, size)
  <2> SUFFICES ASSUME ~Fits(f[i - 1], path, size)
               PROVE  FALSE
    OBVIOUS
  <2>1. f[i] = Delete(f[i - 1], d.name, path)
    BY <1>4, <1>9
  <2>2. d \notin f[i]
    BY <1>9, <2>1 DEF Delete
  <2>3. n \in 0 .. n /\ i \in 0 .. n
    BY <1>3
  <2>4. f[n] \in SUBSET f[i]
    BY <1>6, <2>3
  <2> QED BY <1>4, <1>9, <2>2, <2>4
<1>10. ASSUME NEW c \in cookies \ left
       PROVE  \E old \in states :
                /\ c.name = old.name /\ c.path = path
                /\ \A d \in left : d \in states /\ d.path = path => Older(old, d)
  <2>1. PICK j \in 1 .. n : c \in f[j - 1] /\ c \notin f[j]
    <3> SUFFICES ASSUME \A j \in 1 .. n : c \in f[j - 1] => c \in f[j]
                 PROVE  c \in left
      OBVIOUS
    <3> DEFINE U == {m \in 0 .. n : c \in f[m]}
    <3>1. 0 \in U /\ \A m \in 1 .. n : m - 1 \in U => m \in U
      BY <1>3, <1>4
    <3> HIDE DEF U
    <3>2. n \in U
      BY <1>3, <3>1, Climb
    <3> QED BY <1>4, <3>2 DEF U
  <2>2. /\ ~Fits(f[j - 1], path, size)
        /\ f[j] = Delete(f[j - 1], list[j].name, path)
    BY <1>4, <2>1
  <2>3. c.name = list[j].name /\ c.path = path
    BY <2>1, <2>2 DEF Delete
  <2>4. list[j] \in states
    BY <1>2 DEF ListsStates, n
  <2>5. ASSUME NEW d \in left, d \in states, d.path = path
        PROVE  Older(list[j], d)
    <3>1. PICK i \in 1 .. n : list[i] = d
      BY <1>2, <2>5 DEF ListsStates, n
    <3>2. Fits(f[i - 1], path, size)
      BY <1>9, <2>5, <3>1
    <3>3. j < i
      <4> SUFFICES ASSUME i <= j
                   PROVE  FALSE
        BY <1>3
      <4>1. i - 1 \in 0 .. n /\ j - 1 \in 0 .. n /\ i - 1 \in 0 .. j - 1
        BY <1>3
      <4>2. f[j - 1] \in SUBSET f[i - 1]
        BY <1>6, <4>1
      <4>3. Fits(f[j - 1], path, size)
        BY <1>8, <3>2, <4>1, <4>2, FewerFit
      <4> QED BY <2>2, <4>3
    <3> QED BY <1>2, <3>1, <3>3 DEF ListsStates, n
  <2> QED BY <2>3, <2>4, <2>5
<1>11. ASSUME ~Fits(left, path, size), NEW d \in left, d \in states, d.path = path
       PROVE  FALSE
  <2>1. PICK i \in 1 .. n : list[i] = d
    BY <1>2, <1>11 DEF ListsStates, n
  <2>2. Fits(f[i - 1], path, size)
    BY <1>9, <1>11, <2>1
  <2>3. i - 1 \in 0 .. n /\ n \in 0 .. n /\ i - 1 \in 0 .. n
    BY <1>3
  <2>4. f[n] \in SUBSET f[i - 1]
    BY <1>6, <2>3
  <2>5. Fits(f[n], path, size)
    BY <1>8, <2>2, <2>3, <2>4, FewerFit
  <2> QED BY <1>4, <1>11, <2>5
<1> QED BY <1>7, <1>10, <1>11

-----------------------------------------------------------------------------
(* The names and paths under which tables keep their states.               *)
Keys == {<<NameOf(page, instance), page.path>> : page \in CookiePages, instance \in CookieTables}

(* A cookie is another script's, or the state that a table made last.      *)
IsCookie(c) ==
  \/ c \in Foreign
  \/ /\ c.time \in 1 .. clock /\ c.size \in Nat
     /\ <<c.name, c.path>> \in Keys /\ newest[<<c.name, c.path>>] = c.time

(* A save was right: the page sends no more than it may, and gave up what  *)
(* it had to.                                                              *)
SaveRight ==
  /\ save.kept => Length(Sent(jar, save.path)) + Padding <= CookieLimit
  /\ \A c \in save.gone :
       /\ c \notin Foreign
       /\ Shadowed(c) \/ \A d \in States : d.path = c.path => Older(c, d)

(* What keeps StatesKept: no two states were made at one time, and a table *)
(* has one at most.                                                        *)
CookiesInv ==
  /\ clock \in Nat /\ IsFiniteSet(jar)
  /\ newest \in [Keys -> 0 .. clock]
  /\ \A k, l \in Keys : newest[k] = newest[l] /\ newest[k] # 0 => k = l
  /\ \A c \in jar : IsCookie(c)
  /\ \A c, d \in States : c.name = d.name /\ c.path = d.path => c = d
  /\ SaveRight

(* A cookie with a time is a state, and the time is its own.               *)
LEMMA StatesApart ==
  ASSUME CookiesInv
  PROVE  /\ \A c \in jar : c.size \in Nat /\ c.time \in 0 .. clock
         /\ \A c \in States : c.time \in 1 .. clock /\ <<c.name, c.path>> \in Keys /\ newest[<<c.name, c.path>>] = c.time
         /\ \A c \in jar : c \in Foreign <=> c \notin States
         /\ \A c, d \in States : c.time = d.time => c = d
<1>1. clock \in Nat /\ \A c \in jar : IsCookie(c)
  BY DEF CookiesInv
<1>2. \A c \in Foreign : c.time = 0 /\ c.size \in Nat
  BY CookiesAssumption
<1>3. ASSUME NEW c \in jar
      PROVE  /\ c.size \in Nat /\ c.time \in 0 .. clock
             /\ c \in Foreign <=> ~(c.time > 0)
  <2>1. CASE c \in Foreign
    BY <1>1, <1>2, <2>1
  <2>2. CASE c \notin Foreign
    <3>1. c.time \in 1 .. clock /\ c.size \in Nat
      BY <1>1, <2>2 DEF IsCookie
    <3> QED BY <1>1, <2>2, <3>1
  <2> QED BY <2>1, <2>2
<1>4. \A c \in jar : c \in Foreign <=> c \notin States
  BY <1>3 DEF States
<1>5. \A c \in States : c.time \in 1 .. clock /\ <<c.name, c.path>> \in Keys /\ newest[<<c.name, c.path>>] = c.time
  <2>1. \A c \in States : c \in jar /\ c \notin Foreign
    BY <1>4 DEF States
  <2> QED BY <1>1, <2>1 DEF IsCookie
<1>6. ASSUME NEW c \in States, NEW d \in States, c.time = d.time
      PROVE  c = d
  <2> DEFINE k == <<c.name, c.path>>
             l == <<d.name, d.path>>
  <2>1. k \in Keys /\ l \in Keys /\ newest[k] = newest[l] /\ newest[k] # 0
    BY <1>5, <1>6
  <2> HIDE DEF k, l
  <2>2. k = l
    BY <2>1 DEF CookiesInv
  <2>3. c.name = d.name /\ c.path = d.path
    BY <2>2 DEF k, l
  <2> QED BY <2>3 DEF CookiesInv
<1> QED BY <1>3, <1>4, <1>5, <1>6

(* A key is of a page and a table.                                         *)
LEMMA KeyOfPage ==
  ASSUME NEW name, NEW path, <<name, path>> \in Keys
  PROVE  \E page \in CookiePages : \E instance \in CookieTables : name = NameOf(page, instance) /\ path = page.path
BY DEF Keys

(* The pages begin with no state.                                          *)
LEMMA CookiesStart == CookiesInit => CookiesInv
<1> SUFFICES ASSUME CookiesInit
             PROVE  CookiesInv
  OBVIOUS
<1>1. jar \in SUBSET Foreign /\ clock = 0 /\ save = NoSave /\ newest = [key \in Keys |-> 0]
  BY DEF CookiesInit, Keys
<1>2. IsFiniteSet(jar)
  BY <1>1, CookiesAssumption, FS_Subset
<1>3. \A c \in jar : c \in Foreign /\ c.time = 0
  BY <1>1, CookiesAssumption
<1>4. States = {}
  BY <1>3 DEF States
<1>5. SaveRight
  BY <1>1 DEF SaveRight, NoSave
<1> QED BY <1>1, <1>2, <1>3, <1>4, <1>5 DEF CookiesInv, IsCookie

(* Without a save, cookies that go and cookies of other scripts that come  *)
(* change nothing of it.                                                   *)
LEMMA OthersKeep ==
  ASSUME CookiesInv, UNCHANGED <<clock, newest>>, IsFiniteSet(jar'), jar' \in SUBSET (jar \cup Foreign), save' = NoSave
  PROVE  CookiesInv'
<1>1. SaveRight'
  BY DEF SaveRight, NoSave
<1>2. \A c \in jar' : IsCookie(c)'
  BY DEF CookiesInv, IsCookie
<1>3. \A c \in States' : c \in States
  BY CookiesAssumption DEF States
<1> QED BY <1>1, <1>2, <1>3 DEF CookiesInv

(* A save keeps it: what is given up is old enough, and the state that is  *)
(* kept is newer than all others.                                          *)
LEMMA SaveKeeps ==
  ASSUME CookiesInv, SaveTable
  PROVE  CookiesInv'
<1>1. PICK page \in CookiePages, instance \in CookieTables, size \in Sizes :
        LET cookie == [name |-> NameOf(page, instance), path |-> page.path,
                       time |-> clock + 1, size |-> size]
            left == GivenUp(jar, page.path, size)
        IN /\ jar' = CreateCookie(jar, page.path, cookie)
           /\ newest' = [newest EXCEPT ![<<cookie.name, cookie.path>>] = cookie.time]
           /\ save' = [path |-> page.path, kept |-> cookie \in jar', gone |-> jar \ left]
  BY DEF SaveTable
<1> DEFINE name == NameOf(page, instance)
           path == page.path
           key == <<name, path>>
           cookie == [name |-> name, path |-> path, time |-> clock + 1, size |-> size]
           left == GivenUp(jar, path, size)
           states == SentStates(jar, path)
<1>2. clock' = clock + 1 /\ clock \in Nat /\ IsFiniteSet(jar)
  BY DEF SaveTable, CookiesInv
<1>3. size \in Nat /\ CookieLimit \in Nat /\ Padding \in Nat
  BY CookiesAssumption
<1>4. key \in Keys
  BY DEF Keys
<1>5. cookie.name = name /\ cookie.path = path /\ cookie.time = clock + 1 /\ cookie.size = size
  OBVIOUS
<1>6. /\ jar' = IF Fits(left, path, size) THEN Delete(left, name, path) \cup {cookie} ELSE left
      /\ newest' = [newest EXCEPT ![key] = clock + 1]
      /\ save' = [path |-> path, kept |-> cookie \in jar', gone |-> jar \ left]
  BY <1>1 DEF CreateCookie
<1>7. /\ \A c \in jar : c.size \in Nat /\ c.time \in 0 .. clock
      /\ \A c \in States : c.time \in 1 .. clock /\ <<c.name, c.path>> \in Keys /\ newest[<<c.name, c.path>>] = c.time
      /\ \A c \in jar : c \in Foreign <=> c \notin States
      /\ \A c, d \in States : c.time = d.time => c = d
  BY StatesApart
<1>8. states \in SUBSET States
  BY DEF SentStates, Sent, States
<1> HIDE DEF cookie, left, states, key, name, path
<1>9. /\ left \in SUBSET jar
      /\ \A c \in jar \ left :
           \E old \in states :
             /\ c.name = old.name /\ c.path = path
             /\ \A d \in left : d \in states /\ d.path = path => Older(old, d)
      /\ ~Fits(left, path, size) => \A d \in left : ~(d \in states /\ d.path = path)
  <2>1. \A c \in states : c.time \in Nat
    <3>1. ASSUME NEW c \in States
          PROVE  c.time \in Nat
      <4>1. c.time \in 1 .. clock
        BY <1>7
      <4> QED BY <1>2, <4>1
    <3> QED BY <1>8, <3>1
  <2>2. \A c, d \in states : c.time = d.time => c = d
    BY <1>7, <1>8
  <2>3. \A c \in jar : c.size \in Nat
    BY <1>7
  <2>4. states = SentStates(jar, path) /\ left = GivenUp(jar, path, size)
    BY DEF states, left
  <2> QED BY <1>2, <1>3, <2>1, <2>2, <2>3, <2>4, GivenUpDoes
<1>10. cookie \notin jar
  BY <1>2, <1>5, <1>7
<1>11. \A c \in jar' : c = cookie \/ (c \in left /\ c \in jar)
  BY <1>6, <1>9 DEF Delete
<1>12. \A c \in jar' : c # cookie /\ cookie \in jar' => ~(c.name = name /\ c.path = path)
  <2>1. CASE Fits(left, path, size)
    <3>1. jar' = Delete(left, name, path) \cup {cookie}
      BY <1>6, <2>1
    <3> QED BY <3>1 DEF Delete
  <2>2. CASE ~Fits(left, path, size)
    <3>1. cookie \notin jar'
      BY <1>6, <1>9, <1>10, <2>2
    <3> QED BY <3>1
  <2> QED BY <2>1, <2>2
<1>13. cookie \in jar' => Fits(left, path, size) /\ jar' = Delete(left, name, path) \cup {cookie}
  BY <1>6, <1>9, <1>10
<1>14. IsFiniteSet(jar')
  <2>1. jar' \in SUBSET (jar \cup {cookie})
    BY <1>11
  <2>2. IsFiniteSet(jar \cup {cookie})
    BY <1>2, FS_AddElement
  <2> QED BY <2>1, <2>2, FS_Subset
<1>15. /\ newest' \in [Keys -> 0 .. clock']
       /\ newest'[key] = clock + 1
       /\ \A k \in Keys : k # key => newest'[k] = newest[k] /\ newest[k] \in 0 .. clock
  <2>1. newest \in [Keys -> 0 .. clock]
    BY DEF CookiesInv
  <2>2. 0 .. clock \in SUBSET (0 .. clock') /\ clock + 1 \in 0 .. clock'
    BY <1>2
  <2> QED BY <1>4, <1>6, <2>1, <2>2
<1>16. ASSUME NEW k \in Keys, NEW l \in Keys, newest'[k] = newest'[l], newest'[k] # 0
       PROVE  k = l
  <2>1. CASE k = key \/ l = key
    BY <1>2, <1>15, <1>16, <2>1
  <2>2. CASE k # key /\ l # key
    <3>1. newest[k] = newest[l] /\ newest[k] # 0
      BY <1>15, <1>16, <2>2
    <3> QED BY <3>1 DEF CookiesInv
  <2> QED BY <2>1, <2>2
<1>17. IsPrefix(path, path)
  <2>1. path \in Seq(ToSet(path))
    BY CookiesAssumption DEF path
  <2>2. Len(path) \in Nat
    BY <2>1
  <2> QED BY <2>2 DEF IsPrefix
<1>18. \A c \in left : c \in States /\ c.path = path => c \in states
  <2>1. IsPrefix(path, path)
    BY <1>17
  <2> QED BY <1>9, <2>1 DEF states, States, SentStates, Sent
<1>19. ASSUME NEW c \in jar', c \in States
       PROVE  ~(c.name = name /\ c.path = path)
  <2>0. c \in left /\ c # cookie
    BY <1>10, <1>11, <1>19 DEF States
  <2>1. CASE Fits(left, path, size)
    BY <1>6, <1>12, <2>0, <2>1
  <2>2. CASE ~Fits(left, path, size)
    BY <1>9, <1>18, <1>19, <2>0, <2>2
  <2> QED BY <2>1, <2>2
<1>20. \A c \in jar' : (c \in States') <=> (c = cookie \/ c \in States)
  <2>1. clock + 1 > 0
    BY <1>2
  <2> QED BY <1>5, <1>11, <2>1 DEF States
<1>21. ASSUME NEW c \in jar'
       PROVE  IsCookie(c)'
  <2>1. CASE c = cookie
    <3>1. c.time \in 1 .. clock' /\ c.size \in Nat /\ <<c.name, c.path>> = key
      BY <1>2, <1>3, <1>5, <2>1 DEF key
    <3>2. <<c.name, c.path>> \in Keys /\ newest'[<<c.name, c.path>>] = c.time
      BY <1>4, <1>5, <1>15, <2>1, <3>1
    <3> QED BY <3>1, <3>2 DEF IsCookie, Keys
  <2>2. CASE c # cookie /\ c \in States
    <3>1. c.time \in 1 .. clock /\ c.size \in Nat /\ <<c.name, c.path>> \in Keys /\ newest[<<c.name, c.path>>] = c.time
      BY <1>7, <1>11, <2>2
    <3>2. <<c.name, c.path>> # key
      BY <1>19, <2>2 DEF key
    <3>3. newest'[<<c.name, c.path>>] = c.time /\ c.time \in 1 .. clock'
      BY <1>2, <1>15, <3>1, <3>2
    <3> QED BY <3>1, <3>3 DEF IsCookie, Keys
  <2>3. CASE c # cookie /\ c \notin States
    BY <1>7, <1>11, <2>3 DEF IsCookie
  <2> QED BY <2>1, <2>2, <2>3
<1>22. ASSUME NEW c \in States', NEW d \in States', c.name = d.name, c.path = d.path
       PROVE  c = d
  <2>1. /\ c \in jar' /\ d \in jar'
        /\ c = cookie \/ c \in States
        /\ d = cookie \/ d \in States
    BY <1>20 DEF States
  <2>2. CASE c = cookie /\ d = cookie
    BY <2>2
  <2>3. CASE c = cookie /\ d \in States
    BY <1>5, <1>19, <1>22, <2>1, <2>3
  <2>4. CASE c \in States /\ d = cookie
    BY <1>5, <1>19, <1>22, <2>1, <2>4
  <2>5. CASE c \in States /\ d \in States
    BY <1>22, <2>5 DEF CookiesInv
  <2> QED BY <2>1, <2>2, <2>3, <2>4, <2>5
<1>23. ASSUME save'.kept
       PROVE  Length(Sent(jar', path)) + Padding <= CookieLimit
  <2> DEFINE A == Sent(left, path)
             B == Sent(jar', path)
             both == A \cup {cookie}
  <2>1. cookie \in jar'
    BY <1>6, <1>23
  <2>2. size + Length(A) + Padding <= CookieLimit
    BY <1>13, <2>1 DEF Fits
  <2>3. A \in SUBSET jar /\ cookie \notin A /\ B \in SUBSET both
    BY <1>9, <1>10, <1>11 DEF Sent
  <2> HIDE DEF A, B
  <2>4. IsFiniteSet(A) /\ (\A c \in A : c.size \in Nat) /\ IsFiniteSet(both) /\ \A c \in both : c.size \in Nat
    <3>1. IsFiniteSet(A) /\ \A c \in A : c.size \in Nat
      BY <1>2, <1>7, <2>3, FS_Subset
    <3>2. IsFiniteSet(both)
      BY <3>1, FS_AddElement
    <3> QED BY <1>3, <1>5, <3>1, <3>2
  <2>5. both \ {cookie} = A /\ cookie \in both
    BY <2>3
  <2> HIDE DEF both
  <2>6. Length(A) \in Nat
    BY <2>4, LengthsAdd
  <2>7. Length(both) = cookie.size + Length(both \ {cookie})
    BY <2>4, <2>5, LengthsAdd
  <2>8. Length(B) <= Length(both) /\ Length(both) \in Nat
    BY <2>3, <2>4, LengthsAdd
  <2>9. IsFiniteSet(B) /\ \A c \in B : c.size \in Nat
    BY <2>3, <2>4, FS_Subset
  <2>10. Length(B) \in Nat
    BY <2>9, LengthsAdd
  <2>11. Length(both) = size + Length(A)
    BY <1>5, <2>5, <2>7
  <2>12. Length(B) + Padding <= CookieLimit
    BY <1>3, <2>2, <2>6, <2>8, <2>10, <2>11
  <2> QED BY <2>12 DEF B
<1>24. ASSUME NEW c \in jar \ left
       PROVE  /\ c \notin Foreign
              /\ Shadowed(c) \/ \A d \in States' : d.path = c.path => Older(c, d)
  <2>1. PICK old \in states :
          /\ c.name = old.name /\ c.path = path
          /\ \A d \in left : d \in states /\ d.path = path => Older(old, d)
    BY <1>9
  <2>2. old \in States /\ <<old.name, old.path>> \in Keys
    BY <1>7, <1>8
  <2>3. PICK above \in CookiePages, other \in CookieTables :
          old.name = NameOf(above, other) /\ old.path = above.path
    BY <2>2, KeyOfPage
  <2>4. c \notin Foreign
    BY <2>1, <2>3, CookiesAssumption
  <2>5. CASE old.path = path
    <3>1. c \in States
      BY <1>7, <2>4
    <3>2. c = old
      BY <2>1, <2>2, <2>5, <3>1 DEF CookiesInv
    <3>3. ASSUME NEW d \in States', d.path = c.path
          PROVE  Older(c, d)
      <4>1. d \in jar'
        BY DEF States
      <4>2. CASE d = cookie
        <5>1. c.time \in 1 .. clock
          BY <1>7, <3>1
        <5> QED BY <1>2, <1>5, <4>2, <5>1 DEF Older
      <4>3. CASE d # cookie
        <5>1. d \in left /\ d \in States
          BY <1>11, <1>20, <4>1, <4>3
        <5>2. d \in states
          BY <1>18, <2>1, <3>3, <5>1
        <5> QED BY <2>1, <3>2, <3>3, <5>1, <5>2
      <4> QED BY <4>2, <4>3
    <3> QED BY <2>4, <3>3
  <2>6. CASE old.path # path
    <3>1. IsPrefix(old.path, path)
      BY DEF states, SentStates, Sent
    <3>2. c.name[2] = above.file
      BY <2>1, <2>3 DEF NameOf
    <3>3. Shadowed(c)
      BY <2>1, <2>3, <2>6, <3>1, <3>2 DEF Shadowed
    <3> QED BY <2>4, <3>3
  <2> QED BY <2>5, <2>6
<1>25. SaveRight'
  <2>1. save'.path = path /\ save'.gone = jar \ left
    BY <1>6
  <2> QED BY <1>23, <1>24, <2>1 DEF SaveRight, Shadowed
<1>26. clock' \in Nat
  BY <1>2
<1> QED BY <1>14, <1>15, <1>16, <1>21, <1>22, <1>25, <1>26 DEF CookiesInv, Keys

(* Every step of the pages keeps it.                                       *)
LEMMA CookiesKeep ==
  ASSUME CookiesInv, [CookiesNext]_cookiesVars
  PROVE  CookiesInv'
<1>1. IsFiniteSet(jar)
  BY DEF CookiesInv
<1>2. CASE SaveTable
  BY <1>2, SaveKeeps
<1>3. CASE ExpireCookie
  <2>1. UNCHANGED <<clock, newest>> /\ save' = NoSave /\ jar' \in SUBSET jar
    BY <1>3 DEF ExpireCookie
  <2>2. IsFiniteSet(jar')
    BY <1>1, <2>1, FS_Subset
  <2> QED BY <2>1, <2>2, OthersKeep
<1>4. CASE SetForeign
  <2>1. UNCHANGED <<clock, newest>> /\ save' = NoSave
    BY <1>4 DEF SetForeign
  <2>2. PICK c \in Foreign : jar' = jar \cup {c}
    BY <1>4 DEF SetForeign
  <2>3. IsFiniteSet(jar')
    BY <1>1, <2>2, FS_AddElement
  <2> QED BY <2>1, <2>2, <2>3, OthersKeep
<1>5. CASE UNCHANGED cookiesVars
  BY <1>5 DEF cookiesVars, CookiesInv, SaveRight, IsCookie, States, Shadowed
<1> QED BY <1>2, <1>3, <1>4, <1>5 DEF CookiesNext

(* What a table reads is a state.                                          *)
LEMMA ReadsState ==
  ASSUME CookiesInv, NEW page \in CookiePages, NEW instance \in CookieTables,
         ReadCookie(jar, page, instance) # 0
  PROVE  \E c \in States :
           /\ IsPrefix(c.path, page.path) /\ c.name = NameOf(page, instance)
           /\ ReadCookie(jar, page, instance) = c.time
<1> DEFINE found == {c \in Sent(jar, page.path) : c.name = NameOf(page, instance)}
           lengths == {Len(c.path) : c \in found}
           best == CHOOSE c \in found : \A d \in found : Len(d.path) <= Len(c.path)
<1>1. found # {} /\ ReadCookie(jar, page, instance) = best.time
  BY Zenon DEF ReadCookie
<1>2. \A c \in found : c \in jar /\ IsPrefix(c.path, page.path) /\ c.name = NameOf(page, instance)
  BY DEF Sent
<1>3. \A c \in found : c \in States
  <2> SUFFICES ASSUME NEW c \in found
               PROVE  c \in States
    OBVIOUS
  <2>1. c \notin Foreign
    BY <1>2, CookiesAssumption
  <2> QED BY <1>2, <2>1, StatesApart
<1>4. \A c \in found : Len(c.path) \in Nat /\ Len(c.path) <= Len(page.path)
  <2> SUFFICES ASSUME NEW c \in found
               PROVE  Len(c.path) \in Nat /\ Len(c.path) <= Len(page.path)
    OBVIOUS
  <2>1. PICK other \in CookiePages : c.path = other.path
    <3>1. <<c.name, c.path>> \in Keys
      BY <1>3, StatesApart
    <3> QED BY <3>1, KeyOfPage
  <2>2. other.path \in Seq(ToSet(other.path))
    BY CookiesAssumption
  <2>3. Len(other.path) \in Nat
    BY <2>2
  <2> QED BY <1>2, <2>1, <2>3 DEF IsPrefix
<1>5. Len(page.path) \in Nat
  <2>1. page.path \in Seq(ToSet(page.path))
    BY CookiesAssumption
  <2> QED BY <2>1
<1> DEFINE n == Len(page.path)
           U == {m \in Nat : \E c \in found : m = n - Len(c.path)}
<1> HIDE DEF found
<1>6. \E c \in found : \A d \in found : Len(d.path) <= Len(c.path)
  <2>1. U # {}
    <3>1. PICK c \in found : TRUE
      BY <1>1
    <3>2. n - Len(c.path) \in Nat
      BY <1>4, <1>5
    <3> QED BY <3>2
  <2>2. PICK m \in U : \A k \in U : m <= k
    <3>1. U \in SUBSET Nat
      OBVIOUS
    <3> HIDE DEF U
    <3> QED BY <2>1, <3>1, Least
  <2>3. PICK c \in found : m = n - Len(c.path)
    BY <2>2
  <2>4. ASSUME NEW d \in found
        PROVE  Len(d.path) <= Len(c.path)
    <3>1. n - Len(d.path) \in Nat
      BY <1>4, <1>5
    <3>2. m <= n - Len(d.path)
      BY <2>2, <3>1
    <3> QED BY <1>4, <1>5, <2>3, <3>2
  <2> QED BY <2>4
<1>7. best \in found
  BY <1>6, Zenon
<1> HIDE DEF best
<1> QED BY <1>1, <1>2, <1>3, <1>7

(* So each page finds its tables' last states, and saves are right.        *)
LEMMA CookiesHold ==
  ASSUME CookiesInv
  PROVE  StatesKept
<1>1. ASSUME NEW page \in CookiePages, NEW instance \in CookieTables,
             ReadCookie(jar, page, instance) # 0
      PROVE  LET name == NameOf(page, instance)
                 paths == {path \in {p.path : p \in CookiePages} :
                             IsPrefix(path, page.path) /\ <<name, path>> \in DOMAIN newest}
             IN  \E path \in paths : ReadCookie(jar, page, instance) = newest[<<name, path>>]
  <2>1. PICK c \in States :
          /\ IsPrefix(c.path, page.path) /\ c.name = NameOf(page, instance)
          /\ ReadCookie(jar, page, instance) = c.time
    BY <1>1, ReadsState
  <2>2. <<c.name, c.path>> \in Keys /\ newest[<<c.name, c.path>>] = c.time
    BY StatesApart
  <2>3. DOMAIN newest = Keys
    BY DEF CookiesInv
  <2>4. c.path \in {p.path : p \in CookiePages}
    BY <2>2, KeyOfPage
  <2> QED BY <2>1, <2>2, <2>3, <2>4
<1>2. SaveRight
  BY DEF CookiesInv
<1> QED BY <1>1, <1>2 DEF StatesKept, SaveRight

(* A table finds the state it made last or none; and a save keeps to the   *)
(* limit, touches no cookie of another script and gives up no state while  *)
(* there are older ones of its path: for any number of pages, tables and   *)
(* cookies, any sizes and limit.                                           *)
THEOREM StatesKeptAlways == CookiesSpec => []StatesKept
<1>1. CookiesInit => CookiesInv
  BY CookiesStart
<1>2. CookiesInv /\ [CookiesNext]_cookiesVars => CookiesInv'
  BY CookiesKeep
<1>3. CookiesInv => StatesKept
  BY CookiesHold
<1> QED BY <1>1, <1>2, <1>3, PTL DEF CookiesSpec
=============================================================================
